----------------------------- MODULE TaskStream -----------------------------
(***************************************************************************)
(* The way of a task: the API server (or a worker whose agent mentioned    *)
(* another agent) adds it to the agent's Redis stream, the worker of that  *)
(* agent reads it through its consumer group, runs the agent, adds the     *)
(* result to results:stream and acknowledges the task; the API server      *)
(* reads the result through its own consumer group, adds it to the         *)
(* conversation and dispatches the mentions in it.                         *)
(*                                                                         *)
(* A stream is the sequence of messages its group has not delivered yet;   *)
(* delivered and unacknowledged messages are in the group's pending list,  *)
(* which nothing in the program reads again: every read asks for ">".      *)
(* A Redis call either takes effect or fails without effect.  One          *)
(* conversation; one worker process per agent, replaced when it dies.      *)
(***************************************************************************)
EXTENDS Integers, FiniteSets, SequencesExt

CONSTANTS
  Agents,          \* agents; each has its stream and its worker
  MaxRetries,      \* TaskMessage.MaxRetries
  MaxAsks,         \* bound: calls that the user's messages lead to
  MaxMentions,     \* bound: mentions in the agents' responses
  MaxFailures,     \* bound: executions that fail
  MaxCrashes,      \* bound: deaths of workers
  MaxRestarts,     \* bound: restarts of the API server
  MaxLost          \* bound: XAdd calls that fail

ASSUME AgentsType  == IsFiniteSet(Agents)
ASSUME RetriesType == MaxRetries \in Nat \ {0}
ASSUME BoundsType  ==
  {MaxAsks, MaxMentions, MaxFailures, MaxCrashes, MaxRestarts, MaxLost} \subseteq Nat

VARIABLES
  stream,    \* per agent: tasks not delivered yet
  pending,   \* per agent: tasks delivered and not acknowledged
  work,      \* per agent: what its worker is doing
  results,   \* results:stream: results not delivered yet
  rpending,  \* results delivered and not acknowledged
  api,       \* loaded: LoadAllSessions is through; got: the result the listener is at
  outbox,    \* goroutines of the API server about to call SendTask
  answers,   \* ids of the tasks whose results joined the conversation, in order
  dropped,   \* ids of the tasks given up after the last retry
  runs,      \* per id: executions started
  origin,    \* per id: the agent, and the task whose response asked for it or 0
  faults     \* asks, mentions, failures, crashes, restarts, lost calls so far

vars == <<stream, pending, work, results, rpending, api, outbox, answers, dropped,
          runs, origin, faults>>

Task   == [id : Nat, agent : Agents, tries : 0..(MaxRetries - 1)]
Result == [id : Nat, agent : Agents, mentions : SUBSET Agents]

None      == [phase |-> "idle"]
Busy      == [phase : {"run", "failed", "requeued", "send", "dispatch"}, task : Task,
              all : SUBSET Agents, left : SUBSET Agents]
Listening == [loaded |-> TRUE, phase |-> "idle", got |-> <<>>]
Asked     == Len(origin)

\* The ids that the bounds leave room for.
Ids       == 1..(MaxAsks + 2 * MaxMentions)

Room(what, bound, n) == faults[what] + n <= bound
Count(what, n)       == faults' = [faults EXCEPT ![what] = @ + n]

Init ==
  /\ stream = [a \in Agents |-> <<>>]
  /\ pending = [a \in Agents |-> {}]
  /\ work = [a \in Agents |-> None]
  /\ results = <<>>
  /\ rpending = {}
  /\ api = Listening
  /\ outbox = {}
  /\ answers = <<>>
  /\ dropped = {}
  /\ runs = <<>>
  /\ origin = <<>>
  /\ faults = [asks |-> 0, mentions |-> 0, failures |-> 0, crashes |-> 0,
               restarts |-> 0, lost |-> 0]

\* XAdd appends t to the stream of its agent, or fails.
XAdd(t) ==
  \/ stream' = [stream EXCEPT ![t.agent] = Append(@, t)] /\ faults' = faults
  \/ stream' = stream /\ Room("lost", MaxLost, 1) /\ Count("lost", 1)

-----------------------------------------------------------------------------
(* The API server.                                                         *)

\* SendMessage: a user message mentions agent a; a goroutine will send the task.
Ask(a) ==
  LET t == [id |-> Asked + 1, agent |-> a, tries |-> 0]
  IN /\ api.loaded
     /\ Room("asks", MaxAsks, 1) /\ Count("asks", 1)
     /\ outbox' = outbox \cup {t}
     /\ origin' = Append(origin, [from |-> 0, agent |-> a])
     /\ runs' = Append(runs, 0)
     /\ UNCHANGED <<stream, pending, work, results, rpending, api, answers, dropped>>

\* Scheduler.SendTask, in a goroutine of its own; an error is only logged.
SendTask(t) ==
  /\ t \in outbox
  /\ outbox' = outbox \ {t}
  /\ XAdd(t)
  /\ UNCHANGED <<pending, work, results, rpending, api, answers, dropped, runs, origin>>

\* listenForResults: XReadGroup.
ReadResult ==
  /\ api.phase = "idle" /\ results # <<>>
  /\ api' = [api EXCEPT !.phase = "read", !.got = Head(results)]
  /\ results' = Tail(results)
  /\ rpending' = rpending \cup {Head(results)}
  /\ UNCHANGED <<stream, pending, work, outbox, answers, dropped, runs, origin, faults>>

\* handleResult finds no session: the error is logged, the result never read again.
RefuseResult ==
  /\ api.phase = "read" /\ ~api.loaded
  /\ api' = [api EXCEPT !.phase = "idle"]
  /\ UNCHANGED <<stream, pending, work, results, rpending, outbox, answers, dropped, runs,
                 origin, faults>>

\* handleResult: the answer joins the conversation, and each mention in it is a
\* goroutine that sends a task.
HandleResult ==
  LET r    == api.got
      cats == SetToSeq(r.mentions)
  IN /\ api.phase = "read" /\ api.loaded
     /\ answers' = Append(answers, r.id)
     /\ outbox' = outbox \cup
          {[id |-> Asked + k, agent |-> cats[k], tries |-> 0] : k \in DOMAIN cats}
     /\ origin' = origin \o [k \in DOMAIN cats |-> [from |-> r.id, agent |-> cats[k]]]
     /\ runs' = runs \o [k \in DOMAIN cats |-> 0]
     /\ api' = [api EXCEPT !.phase = "done"]
     /\ UNCHANGED <<stream, pending, work, results, rpending, dropped, faults>>

\* XAck after handleResult returned nil.
AckResult ==
  /\ api.phase = "done"
  /\ rpending' = rpending \ {api.got}
  /\ api' = [api EXCEPT !.phase = "idle"]
  /\ UNCHANGED <<stream, pending, work, results, outbox, answers, dropped, runs, origin, faults>>

\* The API server dies and starts again: its goroutines are gone, and its
\* listener runs before the sessions are loaded.
ApiCrash ==
  /\ Room("restarts", MaxRestarts, 1) /\ Count("restarts", 1)
  /\ api' = [Listening EXCEPT !.loaded = FALSE]
  /\ outbox' = {}
  /\ UNCHANGED <<stream, pending, work, results, rpending, answers, dropped, runs, origin>>

LoadAllSessions ==
  /\ ~api.loaded
  /\ api' = [api EXCEPT !.loaded = TRUE]
  /\ UNCHANGED <<stream, pending, work, results, rpending, outbox, answers, dropped, runs,
                 origin, faults>>

-----------------------------------------------------------------------------
(* The worker of agent a.                                                  *)

At(a, phase)      == work[a].phase = phase
GoTo(a, phase)    == work' = [work EXCEPT ![a] = [@ EXCEPT !.phase = phase]]

\* processMessages: XReadGroup with Count 1; executeTask begins.
ReadTask(a) ==
  LET t == Head(stream[a])
  IN /\ At(a, "idle") /\ stream[a] # <<>>
     /\ stream' = [stream EXCEPT ![a] = Tail(@)]
     /\ pending' = [pending EXCEPT ![a] = @ \cup {t}]
     /\ work' = [work EXCEPT ![a] = [phase |-> "run", task |-> t, all |-> {}, left |-> {}]]
     /\ runs' = [runs EXCEPT ![t.id] = @ + 1]
     /\ UNCHANGED <<results, rpending, api, outbox, answers, dropped, origin, faults>>

\* The agent answers.  Both parsers find the mentions "@X text" (inline), only the
\* API server's finds those whose text is on the following lines.  A mention of
\* itself is skipped by both.
ExecuteTask(a) ==
  \E all \in SUBSET (Agents \ {a}) : \E inline \in SUBSET all :
    /\ At(a, "run")
    /\ Room("mentions", MaxMentions, Cardinality(all))
    /\ Count("mentions", Cardinality(all))
    /\ work' = [work EXCEPT ![a] = [@ EXCEPT !.phase = "send", !.all = all, !.left = inline]]
    /\ UNCHANGED <<stream, pending, results, rpending, api, outbox, answers, dropped, runs,
                   origin>>

ExecuteFails(a) ==
  /\ At(a, "run")
  /\ Room("failures", MaxFailures, 1) /\ Count("failures", 1)
  /\ GoTo(a, "failed")
  /\ UNCHANGED <<stream, pending, results, rpending, api, outbox, answers, dropped, runs, origin>>

\* sendResult; its error is logged and the task goes on as if it were sent.
SendResult(a) ==
  LET t == work[a].task
  IN /\ At(a, "send")
     /\ \/ /\ results' = Append(results, [id |-> t.id, agent |-> a, mentions |-> work[a].all])
           /\ faults' = faults
        \/ results' = results /\ Room("lost", MaxLost, 1) /\ Count("lost", 1)
     /\ GoTo(a, "dispatch")
     /\ UNCHANGED <<stream, pending, rpending, api, outbox, answers, dropped, runs, origin>>

\* Mutant: handleMessage returns the error of a failed dispatch, so the task is retried.
MutDispatch(a, b) ==
  /\ At(a, "dispatch") /\ b \in work[a].left
  /\ XAdd([id |-> Asked + 1, agent |-> b, tries |-> 0])
  /\ origin' = Append(origin, [from |-> work[a].task.id, agent |-> b])
  /\ runs' = Append(runs, 0)
  /\ IF stream' = stream THEN GoTo(a, "failed")
     ELSE work' = [work EXCEPT ![a].left = @ \ {b}]
  /\ UNCHANGED <<pending, results, rpending, api, outbox, answers, dropped>>

\* parseAndDispatchTasks, one sendTaskToAgent.
Dispatch(a, b) ==
  /\ At(a, "dispatch") /\ b \in work[a].left
  /\ XAdd([id |-> Asked + 1, agent |-> b, tries |-> 0])
  /\ origin' = Append(origin, [from |-> work[a].task.id, agent |-> b])
  /\ runs' = Append(runs, 0)
  /\ work' = [work EXCEPT ![a].left = @ \ {b}]
  /\ UNCHANGED <<pending, results, rpending, api, outbox, answers, dropped>>

XAck(a) ==
  /\ pending' = [pending EXCEPT ![a] = @ \ {work[a].task}]
  /\ work' = [work EXCEPT ![a] = None]

AckTask(a) ==
  /\ At(a, "dispatch") /\ work[a].left = {}
  /\ XAck(a)
  /\ UNCHANGED <<stream, results, rpending, api, outbox, answers, dropped, runs, origin, faults>>

Again(t) == [t EXCEPT !.tries = @ + 1]

\* Mutant: one try too many.
MutRequeueOnce(a) ==
  LET t == Again(work[a].task)
  IN /\ At(a, "failed") /\ t.tries <= MaxRetries
     /\ XAdd(t)
     /\ GoTo(a, "requeued")
     /\ UNCHANGED <<pending, results, rpending, api, outbox, answers, dropped, runs, origin>>

\* Mutant: the failed task is acknowledged only.
MutRequeueForgets(a) ==
  /\ At(a, "failed") /\ Again(work[a].task).tries < MaxRetries
  /\ GoTo(a, "requeued")
  /\ UNCHANGED <<stream, pending, results, rpending, api, outbox, answers, dropped, runs,
                 origin, faults>>

\* retryMessage: the task goes to the tail of the stream with one more try, and
\* whether or not that worked the old message is acknowledged next.
Requeue(a) ==
  LET t == Again(work[a].task)
  IN /\ At(a, "failed") /\ t.tries < MaxRetries
     /\ XAdd(t)
     /\ GoTo(a, "requeued")
     /\ UNCHANGED <<pending, results, rpending, api, outbox, answers, dropped, runs, origin>>

AckRequeued(a) ==
  /\ At(a, "requeued")
  /\ XAck(a)
  /\ UNCHANGED <<stream, results, rpending, api, outbox, answers, dropped, runs, origin, faults>>

\* retryMessage: the last try failed.
GiveUp(a) ==
  /\ At(a, "failed") /\ Again(work[a].task).tries >= MaxRetries
  /\ dropped' = dropped \cup {work[a].task.id}
  /\ XAck(a)
  /\ UNCHANGED <<stream, results, rpending, api, outbox, answers, runs, origin, faults>>

\* Mutant: what the dead worker had not acknowledged is delivered again.
MutCrashRedelivers(a) ==
  /\ ~At(a, "idle")
  /\ Room("crashes", MaxCrashes, 1) /\ Count("crashes", 1)
  /\ stream' = [stream EXCEPT ![a] = <<work[a].task>> \o @]
  /\ pending' = [pending EXCEPT ![a] = @ \ {work[a].task}]
  /\ work' = [work EXCEPT ![a] = None]
  /\ UNCHANGED <<results, rpending, api, outbox, answers, dropped, runs, origin>>

\* The worker dies, or is stopped: after w.cancel every Redis call fails.
WorkerCrash(a) ==
  /\ ~At(a, "idle")
  /\ Room("crashes", MaxCrashes, 1) /\ Count("crashes", 1)
  /\ work' = [work EXCEPT ![a] = None]
  /\ UNCHANGED <<stream, pending, results, rpending, api, outbox, answers, dropped, runs, origin>>

-----------------------------------------------------------------------------
ApiStep == ReadResult \/ RefuseResult \/ HandleResult \/ AckResult

WorkerStep(a) ==
  \/ ReadTask(a) \/ ExecuteTask(a) \/ ExecuteFails(a) \/ SendResult(a)
  \/ \E b \in Agents : Dispatch(a, b)
  \/ AckTask(a) \/ Requeue(a) \/ AckRequeued(a) \/ GiveUp(a)

Next ==
  \/ \E a \in Agents : Ask(a) \/ WorkerStep(a) \/ WorkerCrash(a)
  \/ \E t \in outbox : SendTask(t)
  \/ ApiStep \/ ApiCrash \/ LoadAllSessions

Spec == Init /\ [][Next]_vars

\* The loops of the workers and of the listener go on, goroutines run, and
\* invocations of an agent end.  Users need not ask and nothing need fail.
Fairness ==
  /\ \A a \in Agents : WF_vars(WorkerStep(a))
  /\ \A i \in Ids : WF_vars(\E t \in outbox : t.id = i /\ SendTask(t))
  /\ WF_vars(ApiStep)
  /\ WF_vars(LoadAllSessions)

FairSpec == Spec /\ Fairness

-----------------------------------------------------------------------------
(* Properties.                                                             *)

InStream(i) == {p \in UNION {{a} \X DOMAIN stream[a] : a \in Agents} :
                  stream[p[1]][p[2]].id = i}

\* Type invariant.
TypeOK ==
  /\ stream \in [Agents -> Seq(Task)]
  /\ pending \in [Agents -> SUBSET Task]
  /\ work \in [Agents -> {None} \cup Busy]
  /\ \A a \in Agents : work[a] # None =>
       work[a].task \in pending[a] /\ work[a].left \subseteq work[a].all
  /\ results \in Seq(Result) /\ rpending \subseteq Result
  /\ api \in [loaded : BOOLEAN, phase : {"idle", "read", "done"}, got : Result \cup {<<>>}]
  /\ api.phase # "idle" => api.got \in rpending
  /\ outbox \subseteq Task
  /\ origin \in Seq([from : Nat, agent : Agents])
  /\ answers \in Seq(1..Asked) /\ dropped \subseteq 1..Asked
  /\ runs \in Seq(0..MaxRetries) /\ Len(runs) = Asked

\* The result of a task joins the conversation at most once, whatever fails, dies
\* or is retried: a retry happens only before a result was sent, and nothing
\* delivers a message twice (retryMessage, processMessages, listenForResults).
AnsweredOnce == \A i, j \in DOMAIN answers : answers[i] = answers[j] => i = j

\* No task runs while another copy of it waits to run, so a failed execution
\* never overlaps its retry; the copy that was requeued is the exception until
\* the old one is acknowledged (retryMessage).
OneCopy ==
  \A i \in 1..Asked :
    /\ Cardinality(InStream(i)) <= 1
    /\ InStream(i) # {} => \A a \in Agents :
         work[a] # None /\ work[a].task.id = i => work[a].phase = "requeued"

\* A task that was answered is not given up, and one given up is not answered.
NotBoth == dropped \cap ToSet(answers) = {}

Answered(i) == i \in ToSet(answers)

\* Each task is at last answered or given up after its retries (SPEC 3:
\* every message is processed, and retried when that fails).
Settled == \A i \in Ids : i <= Asked ~> i \in dropped \/ Answered(i)

\* A worker that dies or a call to Redis that fails costs one task: the other tasks
\* of that worker and of the others are at last answered or given up, also those it
\* had dispatched.  (A restart of the API server can cost any number: it refuses
\* every result that it reads before its sessions are loaded.)
SettledButForFaults ==
  LET unsettled == {i \in 1..Asked : i \notin dropped /\ ~Answered(i)}
  IN <>[](faults.restarts = 0 => Cardinality(unsettled) <= faults.crashes + faults.lost)

\* A mention in a response leads to one task (README: the orchestrator parses the
\* mentions in the response; FRONTEND_FEATURES: the cat that is called answers).
OneTaskPerMention ==
  \A i, j \in 1..Asked : origin[i] = origin[j] /\ origin[i].from # 0 => i = j
=============================================================================
