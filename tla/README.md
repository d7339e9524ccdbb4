# Verification of cat-cafe-with-go

TLA+ models of the multi-agent chat in this repository ("Cat Cafe"): a Go API server, a set of Go
agent workers, Redis streams between them, a directory of Markdown files they share, and a React
frontend on a WebSocket. The models are translated from the Go code; TLC checks small instances, and TLAPS
proves, for every value of the constants, all the safety properties that hold, the action properties and the
refinements among them. Liveness is left to TLC.

Run everything in this directory:

    tlc -workers 2 -config MCSessionChain.cfg MCSessionChain
    tlapm SessionChain_proofs.tla

## 1. The system

```
 browser --HTTP--> API server (SessionManager) --SendTask--> Redis stream per agent --> agent worker
    ^                  |      ^   |                                                        |   |
    |                  |      |   +-- chain manager --+                     chain manager -+   |
    +--WebSocket-- hub +      |                       v                      v                 |
                              |              data/session_chains/<thread>/ <---- MCP process   |
                              +------------------- Redis results:stream <---------------------+
```

A user message goes to `SendMessage`, which appends it to the conversation and to the conversation's
chain, asks the mode (the orchestrator) which agents it mentions, and starts a goroutine per mention
that calls `Scheduler.SendTask`. The worker of that agent reads the task, builds a prompt from the
chain, runs the agent's program, sends the result, dispatches the mentions in it, and acknowledges the
task. The API server's listener reads the result, adds it to the conversation and to the chain,
dispatches the mentions in it too, and broadcasts through the hub.

### Inventory

| component | state | operations | hard | what makes it correct |
|---|---|---|---|---|
| **Session chain** (`session_chain.go`) | per thread: meta, session records, events, agent cursors, invocation records; one `sync.Mutex` per process | create, delete, append, seal, compress, cursors, readers, search, paging | locks given up between check and act (`CheckAndSeal`, `CompressSession`), pointers used after the lock | event numbers unique without gap, one active session, sealed sessions frozen, cursors and summaries miss nothing |
| **Chain storage** (`session_chain_storage.go`) | `meta.json`, `S00n.md`, cursor and invocation files | write per method, `loadFromDisk`, `ReloadThread` | several processes on the same files with no lock; whole-file rewrites that a reader can see half done; crashes between files; failing writes | memory and files agree, a crash costs no more than what was being written; readers see only real events, in order |
| **Prompt context** (`session_chain_context.go`) | none of its own | two strategies that read the chain | position of the first call's cursor | every event reaches the agent once, or is summarised |
| **Agent worker** (`agent_worker.go`) | task in progress | read, execute, send result, dispatch mentions, retry, acknowledge, update cursor, seal and compress | death between any two calls, failing Redis calls, retries | each task is answered once or given up; no lost, doubled or overtaken task |
| **Scheduler** (`scheduler.go`) | registered agents | `SendTask` | failing XAdd | as above |
| **Results and messages** (`api_server.go`) | the listener, goroutines that send, messages and call history per session | `SendMessage`, `handleResult` | a restart loses goroutines; the listener starts before the sessions are loaded | as above |
| **Session life** (`api_server.go`, `session_persistence.go`) | sessions in memory and in Redis | create, delete, save, load, rename, rebuild summaries | asynchronous saves race deletions; appends that fail are only logged; lookups outlive the lock; a deletion of four steps that may each fail; results arrive while sessions are loaded | memory, Redis and chain agree once the work is done; a deleted session leaves nothing |
| **WebSocket hub** (`websocket.go`) | clients per session, their send channels, the broadcast channel | register, unregister, broadcast, read and write pumps | slow and vanished clients; two places that close a channel; bounded channels | no panic, no hole in a client's stream, no broadcaster waits for a client |
| **Orchestrator, modes** (`orchestrator.go`, `mode_*.go`) | registry of modes, shared instances | parse mentions, create, list, switch mode | nested read locks, look-up-then-store | all sessions share one instance, every request returns |
| **Workspaces** (`workspace.go`) | workspaces, deployments, ports; nginx's configuration; the same state again in the server that is deployed | create, change, delete, deploy (asynchronously), promote | a deployment runs without the lock, commands that hang, programs that do not come up, a promotion kills a server by its port, the server that promotes may be the one killed | the traffic always has a server behind it, deployments end, what was promoted is what runs |
| **MCP server** (`session_chain_mcp.go`) | none | read-only tools over the chain | ids looked up across threads | a tool answers from the thread it was asked about |
| **Frontend** (`services/websocket.ts`, `stores/appStore.ts`, `ChatArea`) | connection, reconnect timer, message list | connect, close, fetch history, receive | reconnects, histories that arrive late | the list is that of the current session, each message once |
| TUI, CLI adapters, token estimation, main, logging | none that matters here | | | |

`PROJECT.json` lists the same components with their status, and 40 hazards with the line where each
bites and the properties that cover it.

## 2. The modules

| module | models | state and actions |
|---|---|---|
| `ChainData` | the types and pure operations of a chain shared by the next two modules | `Record`, `Meta`, `WithEvent`, `Full`; token estimation is the constant operator `EstimateTokens` |
| `SessionChain` | `session_chain.go`, one manager in memory | `meta`, `sess`, `evts`, `cursors` are the manager's maps for a thread. One action per locked region: `GetOrCreateChain`, `DeleteChain`, `AppendEvent`; `CheckAndSeal` (the check) and `SealActiveSession`; `StartCompress`, `FinishCompress`, `FailCompress`; `GetActiveSession`, `ReadEndEvent`, `UpdateCursor`. `sealing`, `jobs`, `views` hold what callers carry between regions |
| `ChainStorage` | `session_chain_storage.go`, the file writes of `session_chain.go`, and the chain calls of `executeTask` | a copy `mem` of the chain per process and one `disk`. A method changes `mem` and queues its files in `writes`; `Truncate`, `WritePart` (of a session file) and `Store` are the stages of `os.WriteFile`; `WriteFails`, `Crash`; `LoadFromDisk`/`ReloadThread`, `ReadSession`, `EndLoad` read file by file; `Ensure...`, `CheckAndSeal`, `SealActiveSession` are the worker's task |
| `TaskStream` | `agent_worker.go`, `scheduler.go`, the listener, `SendMessage` and `handleResult` of `api_server.go` | `stream` and `pending` are a Redis stream and its group's pending list; `work` is the worker's program counter; `outbox` holds the goroutines about to call `SendTask`; one action per Redis call |
| `Cursors` | `buildCLIManagedPrompt`, `GetEventsAfter`, `UpdateCursor`: what agents with `context_mode: cli_managed` are told | extends `ChainStorage`: `prompt`, `cursor`, `told` per worker, and `short`: its cursor once moved behind a session that it had read in part. The worker's steps of `ChainStorage` with what they do to these (`StartTask`, `AgentAnswers`, `SealSession`), and `BuildPrompt`, `AgentFails`, `UpdateCursor` |
| `Sessions` | `SessionManager` in `api_server.go` and `session_persistence.go` | `sessions`, `orch` are the two maps, `ctx` the contexts, `saved` and `list` Redis, `chain` the chain. Handlers go through lookup (`SendMessage`, `HandleResult`), the locked region (`TakeMessage`, `AppendMessage`) and `Dispatch`; a save through `LookUp`, `Snapshot`, `SetKey`, `AddToList`; a deletion through `StartDelete`, `DeleteKey`, `RemoveFromList`, `DeleteChain`, `EndDelete`; a start through `LoadSession`, `RegisterLoaded`, `StartRebuild`, `ReadLast`, `RebuildSummary`, `EndRebuild`. `GetOrCreateChain` is the status request or a worker that creates a chain for any id, `EndUnanswered` a task that brings no result; `Crash` may leave a chain `Damaged` or `Reread` |
| `Modes` | `mode_registry.go`, `orchestrator.go`, and the locks of `handleSwitchMode`, `SendMessage`, `CreateSession`, `DeleteSession`, `SaveSession` | a request is a list of steps (`todo`): locks of `sync.RWMutex` and what is done under them. `Announce` and `Acquire` are the two halves of `Lock`: once a writer is announced no reader gets in. `Look`, `Store`, `Check`, `SetMode`, `Forget` read and write the registry and the sessions' modes |
| `Workspaces` | `workspace.go` | a `manager` per port, because the program that is deployed has one of its own; `tree` and `built` are the versions of the code and of its binary, `starting` the programs that were started, `service` what listens where, `nginx` the port in its file (`NoPort` while that is empty) and the one it uses. A deployment's goroutine is `Build`, `Test`, `StartService`, `HealthCheck`, `UpdateStatus`, any command may `Hang`, and a program `ComesUp` some time or exits; a promotion is `Promote`, `WriteConfig`, `ReloadNginx`, `StopService`, `FinishPromotion`; `Settings` are what a request may change, the health check included |
| `WSHub` | `websocket.go` | `reader`, `writer` per connection, `run` and `bcast` for the hub's loop and channel, `call` for the broadcasting goroutines; a step of `Run` per client it serves |
| `..._proofs` | | TLAPS proofs about `SessionChain`, `ChainStorage`, `Cursors`, `TaskStream`, `WSHub`, `Sessions`, `Modes` and `Workspaces` (section 4) |
| `MC...` | | values for TLC |

Operators named `Mut...` are the mistakes each property is tested against: each is what a plausible
slip in the code would make of the action defined after it, and TLC finds the property violated when it
takes that action's place. They are not part of `Next`.

`ChainStorage` implements `SessionChain`: `SC` instantiates `SessionChain` with the memory of the process
`Main`, and every step of the storage model is a step or a stutter of it. With the API server as `Main`
this holds whatever other processes do to the files (`ImplementsSessionChain`); with one process that does
everything, reloads included, it holds until it dies or a write fails (`ImplementsUntilCrash`). So the proofs about
`SessionChain` speak about the memory of the API server even when a write fails.

### What is abstracted

* One thread, one conversation: threads share only the lock. Session ids are their `SeqNo`.
* Content is a message number and its token estimate; a Markdown file is a record with events, or `Unreadable`.
  What is cut short is read as the loader reads it: a `meta.json`, or a session file that ends within its
  frontmatter, is `Unreadable`; a session file that ends later has the record of the whole file and the first of its
  events. One `os.WriteFile` is one `write` system call, which the kernel serialises with others on the same file, but
  not with reads. Two processes that have the same file truncated may also leave a mixture (`Overlays`).
* `os.RemoveAll` is one step. Only processes crash, not the machine: what was written stays written.
* A Redis call takes effect, or fails without effect. Redis itself does not lose data.
* An invocation of an agent ends, with an answer or an error. The mentions of an answer are a set; the
  worker's parser finds a subset of what the API server's finds, because only the latter accepts text
  on the following line.
* In `Sessions` a session's chain is the sequence of its messages, and only one deletion or load is in
  progress, as `sm.mu` and the start of the server demand. An append that is refused, one whose file is not
  written, and a `GetOrCreateChain` that fails are one loss: the message is not in the chain. A crash may leave one
  chain without a piece or without its `meta.json`, and a chain that was deleted with a message that a worker had in memory
  and wrote again when it sealed. A task is a call that the scheduler accepts; it may end without a result, for whatever
  reason `TaskStream` has, or with an empty one, which closes no call. User messages are not empty. Timestamps and the order
  of sessions in lists are left out.
* In `Modes` nothing is kept of a session but its mode. Requests that only read the map of sessions
  (`sm.mu` for reading) behave like the first step of the others.
* In `Workspaces` a program is the version of the files it was built from; it listens on the port it is given, or
  exits. The build command stays one that builds. A health check is one that asks the test port, another port, or none.
  `lsof` also lists the clients of a port, which `stopService` kills too; nginx starts its workers anew. There is at most one
  workspace per directory and manager. The two seconds between the reload of nginx and the end of the old service,
  and the three after a program was started, are interleaving points like any other.
* A send channel is a number of buffered messages; frames, pings and deadlines are a writer that may
  stop and a reader that may end at any time.

## 3. The runs

| run | asks | result |
|---|---|---|
| `session_chain` | In one process, in every interleaving of one checking goroutine, two compressing ones, an agent with a cursor and a deletion: are numbers unique and gapless (`NumberedOnce`), is the newest session the only active one (`OneActive`), do cursors and summaries miss nothing (`NothingSkipped`, `SummaryCoversSession`), is nothing sealed too early (`FullBeforeSeal`) or changed afterwards (`SealedFrozen`)? | yes |
| `chain_crashes` | One process that appends, reloads, seals and deletes, dies twice anywhere and has one write fail: does a death at any moment cost no more than the file being written and the newest event, and nothing between two methods, until a write fails (`LossIsBounded`), is what is read back in order (`AppendOrder`), and is it a `SessionChain` until a fault (`ImplementsUntilCrash`)? | yes |
| `chain_processes` | API server and a `cli_managed` worker on the same files, one failing write, one deletion: does the worker read only events that exist (`ReadsAreReal`), in order and without a gap (`ReadsInOrder`), does its cursor pass no event that its agent was not told unless it was moved behind a session read in part (`CursorToldAll`), and is the API server's memory a `SessionChain` (`ImplementsSessionChain`)? | yes |
| `chain_sealed` | Do appends respect a seal (`AppendsToOpenSession`)? | no: the API server never reloads, so it writes to sessions that a worker sealed |
| `task_faults` | Two agents that mention each other, failing executions, a dying worker, a restarted API server, a lost Redis call: is a task answered at most once (`AnsweredOnce`), never run beside its own retry (`OneCopy`), never both given up and answered (`NotBoth`)? Are all tasks but one per fault at last answered or given up (`SettledButForFaults`), all of them if there is no fault? | yes |
| `task_lost` | One worker dies: is its task answered or given up (`Settled`)? | no: pending messages are never claimed |
| `task_mentions` | Does a mention in an answer lead to one task (`OneTaskPerMention`)? | no: the worker and the API server both send it |
| `ws_hub` | Two connections, two broadcasters, full buffers, writers that stop for good: no panic (`NoPanic`), no hole (`NoHole`), vanished clients closed (`GoneIsClosed`), broadcasts return (`CallsReturn`), leavers leave (`LeavesHub`)? | yes |
| `sessions` | One session, a request and the result listener, two saves at a time, an agent that the scheduler does not know, chains that anybody creates, and one of a rename, a failing Redis call, a lost append, a task without a result, a death of the server: are the two maps the same (`RegisteredTogether`), does Redis catch up with the memory (`SavedCatchesUp`), the chain with the message count (`ChainHasAll`), does a deletion leave nothing to a restart (`LeavesNothing`), has each open call a task (`OpenCallsAwaited`), does a summary go back only where the rebuild was overtaken (`SummaryGoesForward`), and do handlers return and saves get made (`WorkEnds`)? | yes |
| `modes` | Three requests at once on two sessions: do all sessions have the registry's instance (`OneInstance`), and does every request return (`RequestsReturn`), the known deadlock of `ListModes` apart? | yes |
| `deployments` | Two deployments by servers that replace one another, with one of an edit, a changed setting, a command or write that fails or hangs, a death; health checks may ask another port, programs come up late or never: is a deployment that is ready running (`ReadyIsUp`), has nginx always a server behind it (`StaysUp`), does testing end unless a command hangs (`DeploymentEnds`)? | yes |
| `deploy_served` | Does the promoted code run after a promotion (`PromotedIsServed`)? | no: ports change roles in one deployment only, so the second test deployment meets an old server on its port and passes |

The four "no" are disagreements between the code and the repository's own documents; `PROJECT.json`
quotes the sentences under `findings`.

What the passing runs allow for by a premise or an exception, and the models show when it is taken away:

* `ListModes` holds the registry's lock for reading and takes it again in `Create`. If the first creation of
  a mode waits for the lock in between, both wait for ever, and `sm.mu` with them (`RequestsReturn`). The
  window is the first session after a start.
* A handler or a save that looked a session up before it was deleted brings it back, in Redis or as a
  chain (`raced` in `LeavesNothing` and `ChainHasAll`).
* A result that is stored while `rebuildSummariesFromChain` runs can get its summary overwritten with
  the message before it, also in Redis (`SummaryGoesForward`;
  `AR-20260303-frontend-ui-enhancement.md:661` wants the newest message at any time).
* A reload that finds a session file half written takes it for the whole: until the next reload the worker has
  fewer events than its record counts, and if its cursor moves then, its agent is never told the rest (`short` in
  `CursorToldAll`; `AR-20260228-session-chain.md:50` has the cursor point at the event that the agent read last).
* Appends that are refused, or whose file is lost, leave a session that counts messages its chain lacks, and a
  restart goes back to an older summary (`counts.lost = 0` in `ChainHasAll` and `SummaryGoesForward`).
* Anybody who asks for the status of a deleted session, or runs a task of it, creates its chain again, without messages
  (`LeavesNothing` speaks of messages); a worker that had loaded the chain before writes its messages back when it
  seals, which a restart finds (hence its premise on crashes).
* A task that is given up, lost, or answered with an empty text leaves its call open, and so does a call of a name
  that the scheduler does not know (`counts.misses = 0` and `Agents` in `OpenCallsAwaited`).
* A health check that asks another port than the test port passes with nothing there; its promotion stops the server
  that runs (`astray` in `ReadyIsUp` and `StaysUp`). A promotion whose write of nginx's file fails leaves the file empty,
  and an nginx that starts with it forwards nowhere (`NoPort` in `StaysUp`).
* Builds, tests and health checks have no timeout: one that hangs leaves its deployment in testing (`hung` in
  `DeploymentEnds`).
* The program under test is a second API server on the same data directory and Redis. `ChainStorage`'s theorems about the server
  (`OneServer`) do not speak of the time of a test deployment.
* After a seal the API server goes on appending to the sealed session, and a cursor that the worker then
  sets never reaches these events (`~sealed` in `CursorToldAll`; the cause is the finding `chain_sealed`).
* The API server refuses and never reads again what arrives before its sessions are loaded, so a
  restart may cost any number of tasks (`restarts` in `SettledButForFaults`).
* A crash in the middle of a file loses that file, or the end of it: a session with all its completed appends, or
  the whole chain if it is `meta.json` (`Written` in `LossIsBounded`). One between a session's file and `meta.json` gives a
  number twice; one in the middle of a seal leaves a session that refuses every append. (`AppendOrder` survives all of
  these and one failed write; after several failed writes the file of an earlier life can stay between those of this one,
  hence its premise `faults.errors <= 1`.)
* A worker that seals writes the session as it had reloaded it, over a file that the API server may have
  written to since. Two writers of one file may leave the shorter text in front of the rest of the longer
  one, with an event twice or missing (`~sealed` in `ReadsInOrder`).
* A retry goes to the tail of its stream, so tasks of one user may be answered in another order (`NotBoth`
  and `AnsweredOnce` survive it).
* No production code calls `CompressSession`: sealed sessions keep an empty summary, and prompts have
  none. `SessionChain` models it as the code would run it.

### Bounds, and why they are enough

* `session_chain`: 5 messages with an event limit of 2 and every third message above the token limit
  reach both thresholds and 4 sessions, so that a session can be sealing, one compressing and one sealed at
  once. Two compressing goroutines can hold the same session. The deletion exercises captured records
  that no map holds any more.
* `ChainStorage`: 5 messages and an event limit of 2 (one process) allow two seals, 3 messages (two processes) one, with an
  append to the sealed session; a file of two events can be cut in two places. Two
  crashes allow a crash during the recovery from a crash. One worker stands for all: workers do not append, and the reload of one cannot see
  another's memory. Two workers that seal the same files are outside these runs (two workers with two
  messages, too few for a seal, were found to have the properties of `chain_processes` too).
* `TaskStream`: `MaxRetries` is 2 or 3 (the code's 3 in the runs about the documents; 2 reaches a retry
  and a give-up). One user call and one mention give up to three tasks, two of which the same mention
  led to, on both agents, beside a retry, a death, a restart and a lost call. A second call or
  mention has too many states to be checked together with all faults.
* `Sessions`: an agent that the scheduler knows and one that it does not; one session, because sessions share only `sm.mu`, which a deletion of one holds against
  all. Two messages and three tasks leave two calls of one agent open at once; two saves overtake each
  other; the listener and a request are the two handlers that meet in a session. One event is a crash, a failure, a lost append, a task without a result
  or a rename, not two of them.
* `Modes`: three requests are the smallest number that makes a reader, a waiting writer and a second reader
  meet, which Go's rule makes a deadlock; two sessions share an instance.
* `Workspaces`: two deployments use each port in both roles; one directory, since directories do not meet
  except on the ports, where the second deployment of the same one is the worse case. One event is what a
  state space with fairness allows; a health check that goes astray is not counted, so that it can follow the change of
  the setting that leads to it. The proofs of `ReadyIsUp` and `StaysUp` cover any number of events.
* `WSHub`: capacities of one (256 in the code) make "full" common; 3 messages and a sweep overrun both
  a client and the broadcast channel. The proofs cover every capacity.

`CHECK_DEADLOCK FALSE` is set because the bounded systems stop when the messages are used up; that
nothing is stuck before is what the liveness properties say.

### Fairness

* `TaskStream`: each worker's loop, the listener's loop, `LoadAllSessions` and each goroutine that calls
  `SendTask` are weakly fair: they are Go loops and goroutines that the scheduler resumes, and an
  invocation of an agent ends by assumption. Users, failures and crashes are not fair.
* `Sessions`, `Modes`, `Workspaces`: a goroutine that can take its next step takes it (weak fairness of each
  handler, save, deletion, load, request, deployment, promotion). A lock that others take for ever is not
  possible in bounded runs; Go's mutexes hand over to waiters in any case. Requests, failures and
  deaths are not fair. In `Workspaces` commands return, except those that hang, which never do (`Hang`; `runCommand` and
  `curl` have no timeout): `DeploymentEnds` says `Testing ~> ~Testing \/ At(p, d, "hung")`. That a program comes up is not
  assumed.
* `WSHub`: `Run` is weakly fair. `Enqueue` and `Unregister` are strongly fair: goroutines blocked on a Go
  channel are queued in order, and `select` chooses at random among ready channels, so a blocked sender gets its
  turn though others keep arriving. Nothing is assumed about a connection: its writer may stop for good.

## 4. The proofs

**`SessionChain_proofs`**, for any number of agents, sealing and compressing goroutines, any thresholds,
token estimates and bounds. Assumed: estimates, limits and bounds are natural numbers
(`EstimateType`, `LimitType`, `BoundType`, `DeletesType`). The inductive invariant is
`IInv == TypeOK /\ Whole /\ Tiled /\ Numbered /\ Captures`. None of the safety properties is inductive:

* `Whole`: the active session is the newest and the only one with the status `active`. Without it a seal
  could leave an active session behind.
* `Tiled`: the ranges `[StartEvent, EndEvent]` of the records follow one another and cover
  `1..TotalEvents`. This is why an append to the newest session takes the next number, and why skipping
  the sessions before a cursor skips no event above it.
* `Numbered`: the i-th event of a session has the i-th number of its range. `Tiled` and `Numbered`
  together give uniqueness.
* `Captures`: what a caller holds between locked regions still points into the chain: a position
  not before its session's start, a compression job on a session that no longer grows.

Theorems: `Invariance`, `TypeCorrect`, `EventNumbering` (`NumberedOnce`), `SingleActive` (`OneActive`),
`SummaryComplete` (`SummaryCoversSession`), `CursorComplete` (`NothingSkipped`), `SealedStaysFrozen`
(`SealedFrozen`), and `SealsWhenFull` (`FullBeforeSeal`) for one checking goroutine
(`OneSealer == \A c, d \in Sealers : c = d`). With two the property is false: `SealActiveSession` does not check
again, so the second seals what the first has just opened. Its invariant `FullEnough`: while a check
is under way, the active session is still the one that was found full, and it only grows.

**`WSHub_proofs`**, for any clients, sessions, callers and capacities. Assumed: every client has a
session, capacities are positive, bounds are natural (`SessionOfType`, `CapType`, `BoundType`).
`IInv == TypeOK /\ NoPanic /\ NoHole /\ GoneIsClosed /\ OpenClients /\ Fresh`: `OpenClients` says that the
registered clients, those `Run` still has to serve and those a `BroadcastToAll` still has to reach are
all open, which holds because `h.mu` is held for reading throughout `BroadcastToAll`; `Fresh` that a
client not yet registered is in no map and not closed. Theorems: `Invariance`, `TypeCorrect`,
`NoGoroutinePanics`, `StreamHasNoHole`, `GoneClientsAreClosed`.

**`ChainStorage_proofs`**, for any set of workers and of processes that append, any estimates, thresholds
and bounds (`MaxSessions >= 1`). `IInv == MemType /\ DiskType /\ WriteType /\ LoadType /\ RestType`: the
files a method has still to write are of sessions that its process knows, and what a load has read is a
chain after every file; so `TypeCorrect` covers what a loader makes of half-written, mixed and missing files.
On it rest five theorems, each with the assumption that its property needs:

* `ReadEventsExist` (`ReadsAreReal`), for one process that appends and no workers that do
  (`OneServer == Writers = {Main} /\ Main \notin Workers`, how `main.go` starts them). It speaks of what is in memory, until the first
  crash or deletion. Invariant `AllReal`:
  every event in a memory, a load under way or a file is in the server's memory, in the same session. The
  server's memory only grows and the server never reads; each copying step copies from a place that has
  the invariant, overlaid files and beginnings of files included.
* `ServerImplementsSessionChain` (`ImplementsSessionChain`), under `OneServer` and `MaxCrashes = 0`: the
  initial state maps to `SC!Init`, and each of the steps to a step or a stutter of `SC!Next`. A
  server that starts again reads its files and is no longer the same `SessionChain`: hence the second
  assumption, on a constant that the model's runs choose. Writes may fail.
* `LossesAreBounded` (`LossIsBounded`), for a process alone with the directory (`Alone(p) == Procs = {p}`) and any number of deaths.
  Invariant `Mirrored`: as long as no write failed, each file that is not in `writes` holds what memory holds, the file
  under way is `Unreadable` or a beginning of its content, and what a load has got is what the files hold. So nothing is missing between
  two methods (`MirroredIsEnough`). For what is missing between two files of a method, or in the middle of one, the invariant adds
  `Ordered` (below) and the property itself. Before a method starts its files are its memory (`SettledKeeps`);
  an append then leaves one event behind, in the file of the active session, and a seal leaves a session without events that
  `meta.json` does not name yet; from there on each file that is written brings its session up to date, and the only file that gets worse
  is the one that is open (`KeepsFile`).
* `ProcessImplementsSessionChain` (`ImplementsUntilCrash`), for `Procs = {Main}`. To `Mirrored` it adds `StaysWhole`:
  until the process dies or a write fails, it knows all its sessions, and a load that is under way has read as
  many as it has passed. So what a reload returns is what was in memory, and the reload is a stutter of
  `SC!Next`. Needs `UnreadableType`: an unreadable file is not mistaken for `meta.json` or a session.
* `MessagesInOrder` (`AppendOrder`), for `Procs = {Main}` as the property itself says. Invariant
  `Ordered == faults.errors <= 1 => \A p : Sorted(p)`. Deaths leave files of sessions that `meta.json` does not name, and
  these may be of an earlier life of the process, older than the sessions before them. `Placed` are the files that a load reads, or will
  read without their being written before; `Across` orders these and the memory, `Each` each of them, and
  `Naming` says that `meta.json` is written last and names no session that the process does not know. A second
  failed write can put a file of an earlier life in place, between those of this one.

**`Cursors_proofs`**, under `OneServer`. `CursorsImplementStorage`: `CursorsSpec => Spec`, so that the
theorems about `ChainStorage` hold with prompts too (`PromptsAreReal`). The invariant `CInv` says that until the
first seal or deletion there is one session, the server has all its events, and every copy (in memory, in a
load, in a file) is a gapless piece of it. A copy with as many events as its record counts is
complete up to the `EndEventNo` of that record; as long as a cursor was moved only behind such copies (`~short`), what
its agent was told, with the prompt under way, reaches as far as the cursor. Completeness up to `EndEventNo` is what
makes the cursor of `executeTask` safe, which is set from that field after the agent ran and not from what the prompt
showed; a copy of a half-written file does not have it, which is why `short` is in the premise. `CursorsNext` has no
deaths. Theorems: `CursorsLoseNothing` (`CursorToldAll`), `CopiesInOrder`
(`ReadsInOrder`).

**`TaskStream_proofs`**, for any finite set of agents, any `MaxRetries >= 1` and any bounds on asks, mentions,
failures, deaths, restarts and lost calls. None of the properties is inductive; the invariant
`IInv == TypeOK /\ Home /\ Once /\ Apart /\ Tried /\ AnsweredOnce` follows a task through the places it can
be in. `Apart`: the goroutines about to send, the streams and the workers' unsent tasks hold
different ids, so do results, the result being handled and the answers; and a task is early, late or given up, never
two of these. `Once`: no place has an id twice. `Home`: a message is about an id that was given out, for the agent it
was given out for. `Tried`: an id was run no more often than its copy says. Theorems: `TypeCorrect`, `AnswersOnce`
(`AnsweredOnce`), `AnsweredOrDropped` (`NotBoth`), `SingleCopy` (`OneCopy`).

**`Workspaces_proofs`**, for any directories and bounds (natural numbers: `BoundsType`). `TInv` types the state: a deployment
is ready or active only after its goroutine has ended, has its ports swapped only when it is active, and a
manager that holds the lock of a promotion promotes a deployment that is ready. `UpInv`, while `Undisturbed`, which is until a service dies
on its own or a health check passes that asked another port: a deployment whose health check passed has a service on the test port (`Proven`), nginx has a service behind the
port it uses and behind the one in its file, never returns from the test port, and a promotion that stops the
production port has been through the reload (`Switched`). Theorems: `TypeCorrect`, `ReadyStaysUp` (`ReadyIsUp`),
`TrafficStaysUp` (`StaysUp`).

**`Sessions_proofs`**, for any sessions, request goroutines, saves and bounds and any finite set of agents
(`CatsType`). `Core == Known /\ Phase /\ Registered /\ Live /\ Exclusive` says who may touch a session: a handler
and a save work on one that is in the map and not being deleted, or that was deleted under them (`raced`);
they exclude each other by the session's lock; before the server serves, there is no deletion, and whatever runs works on
sessions that are loaded. `Core` implies `RegisteredTogether`. On it rests one invariant per pair of places
that keep the same thing:

* `Bounds` (for `TypeOK`): no summary, count or chain speaks of a message that was not stored.
* `Emptied` (for `LeavesNothing`): each step of a deletion keeps what the earlier ones removed, and until a crash the
  chain stays without messages though it may be created again.
* `Counted` (for `ChainHasAll`), while no message was lost (`counts.lost = 0`): a session's count is the length of its chain, or one more while a handler is between
  the two; what is saved, or about to be, counts no more than the chain has.
* `Caught` (for `SavedCatchesUp`): a change that is not saved yet has a save to come, and a save that took its
  snapshot holds the session's lock until it has written it.
* `Forward` (for `SummaryGoesForward`), while no message was lost: the summary in memory, in Redis and in snapshots is not newer than the newest
  message of the chain, and what the rebuild read is the newest message unless the chain has grown since.

* `Numbers` and `Awaited` (for `OpenCallsAwaited`): a task, and a call that a handler is about to send, has a number of its own;
  as long as the server lives, Redis answers and every task ends with a result (`Faultless`), a session has for each known agent at most as many open calls as there are
  tasks of that agent and results of it that the listener has taken and not yet stored. The proof counts: what
  `Dispatch` shows are calls with as many new tasks, and what a response takes from the one side is the
  call that it closes on the other.

**`Modes_proofs`**, for any goroutines, any finite set of sessions and any number of requests. Assumed: sessions are
not named like the locks, and no goroutine is called `none` (`SessionsType`, `GoroutinesType`). `GetOrCreate` looks up the
instance in one locked region of the registry and stores it in another. What makes this safe is `sm.mu`, which
another file takes: until there is an instance there is no session, so the only requests that get as far as a look
are creations, and these hold `sm.mu` from before the look until after the store. `IInv` says so of what
a goroutine has still to do (`Ok` of its list `todo`, with `Held` for the steps under `sm.mu`). Theorems:
`Invariance`, `SharedInstance` (`OneInstance`).

**Only model-checked.** Liveness (`SettledButForFaults`, `CallsReturn`, `LeavesHub`, `WorkEnds`,
`RequestsReturn`, `DeploymentEnds`): the proof system does not handle fairness. The theorems with an assumption on
the constants (`OneServer`, `MaxCrashes = 0`, `Procs = {Main}`, `OneSealer`) say nothing of the other values,
of which TLC has checked those of the runs.

## 5. What is not modelled

* Cursor and invocation files of the chain: each has a single writer. Deaths of a worker in the model with prompts
  (`Cursors`). A machine crash.
* Search, paging, the text of prompts: pure readers. The MCP lookups find a session's id in whichever thread
  the map yields first (a hazard without a property).
* Failures of the worker's cursor file, and the prompt of `orchestrated` agents beyond its
  events (which are the active session's, so `ReadsAreReal` speaks of them).
* The scheduler's agent states, which nothing updates after registration.
* The worker's legacy history in Redis and the chat log: written, and not read by the chain.
* The MCP server, the TUI, the agents' programs and their adapters, token estimation, logging, the
  wiring in `main.go`: no state of their own, or an external program.
* Registration of modes and agents, which ends before the first request; a mode's own state, because the only
  mode there is keeps none.
* Listing and statistics of sessions and workspaces, timestamps.
* The frontend: planned.

## 6. Plan

Done: `ChainData`, `SessionChain`, `ChainStorage`, `Cursors`, `TaskStream`, `WSHub`, `Sessions`, `Modes` and
`Workspaces` with proofs. Left, in this order:

1. `TaskStream` and `Sessions` composed through the result listener, so that a deleted session meets
   the tasks of its stream.
2. Paging (`GetEvents`, `MCPReadSessionEvents`) and the MCP lookups over several threads, as operators over
   `SessionChain`'s state, checked over bounded inputs.
3. `ChatClient`: reconnects, late histories, changes of session in the frontend.
4. Abstract specifications: a `TaskLedger` (each task is open, then answered or given up) that
   `TaskStream` implements; an append-only `Log` that `SessionChain` implements.
