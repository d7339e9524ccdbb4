------------------------------ MODULE Cursors -------------------------------
(***************************************************************************)
(* What agents of context_mode "cli_managed" are told.  Such an agent      *)
(* keeps its own history (the CLI's --resume), so that a prompt shows only *)
(* the events behind its cursor, and the cursor moves after the agent ran. *)
(*                                                                         *)
(* The steps are those of ChainStorage, in which the worker's task says    *)
(* nothing of prompts: here its steps read from and write to the cursor.   *)
(* The worker has one goroutine and a process of its own, so what it reads *)
(* of its memory between two reloads is one state.                         *)
(***************************************************************************)
EXTENDS ChainStorage

VARIABLES
  prompt,   \* per worker: the events in the prompt of its task, or NoPrompt
  cursor,   \* per worker: LastSessionID and LastEventNo, or NoCursor
  told,     \* per worker: the messages in the prompts that its agent answered
  sealed,   \* a session was sealed
  short     \* per worker: its cursor moved to the end of a session read in part

agentVars == <<prompt, cursor, told, sealed, short>>

NoPrompt == [on |-> FALSE, events |-> {}]
NoCursor == [session |-> 0, no |-> 0]

CursorsInit ==
  /\ Init
  /\ prompt = [w \in Workers |-> NoPrompt]
  /\ cursor = [w \in Workers |-> NoCursor]
  /\ told = [w \in Workers |-> {}]
  /\ sealed = FALSE
  /\ short = [w \in Workers |-> FALSE]

\* GetEvents of the active session, none if that could not be read.
ActiveEvents(m) ==
  IF m.meta.active \in DOMAIN m.evts THEN EventsIn(m, m.meta.active) ELSE {}

\* GetEventsAfter: from the cursor's session on; from any, if that could not be read.
EventsAfter(m, c) ==
  {e \in UNION {EventsIn(m, s) : s \in
                  {s \in DOMAIN m.evts : c.session \in DOMAIN m.evts => s >= c.session}} :
     e.no > c.no}

\* A task follows the task before.
StartTask(w) ==
  /\ ~prompt[w].on
  /\ ReloadThread(w)
  /\ UNCHANGED agentVars

\* buildCLIManagedPrompt, once the chain exists in the worker's memory.
BuildPrompt(w) ==
  /\ Free(w) /\ task[w] = "agent" /\ ~prompt[w].on
  /\ prompt' = [prompt EXCEPT ![w] =
       [on |-> TRUE,
        events |-> IF cursor[w] = NoCursor THEN ActiveEvents(mem[w])
                                           ELSE EventsAfter(mem[w], cursor[w])]]
  /\ UNCHANGED <<vars, cursor, told, sealed, short>>

\* InvokeAgent returns a response.
AgentAnswers(w) ==
  /\ prompt[w].on
  /\ EnsureAgain(w)
  /\ told' = [told EXCEPT ![w] = @ \cup {e.msg : e \in prompt[w].events}]
  /\ UNCHANGED <<prompt, cursor, sealed, short>>

\* InvokeAgent fails, and the task with it (it comes back as another task).
AgentFails(w) ==
  /\ prompt[w].on
  /\ TaskFails(w)
  /\ prompt' = [prompt EXCEPT ![w] = NoPrompt]
  /\ UNCHANGED <<cursor, told, sealed, short>>

SealSession(w) ==
  /\ SealActiveSession(w)
  /\ sealed' = TRUE
  /\ UNCHANGED <<prompt, cursor, told, short>>

\* The session was read from a file cut short: the record counts more events.
ReadInPart(m, s) == Len(m.evts[s]) < m.sess[s].count

\* Mutant: the cursor moves to the newest event number there is.
MutUpdateCursor(w) ==
  /\ Free(w) /\ task[w] = "idle" /\ prompt[w].on
  /\ prompt' = [prompt EXCEPT ![w] = NoPrompt]
  /\ cursor' = [cursor EXCEPT ![w] = [session |-> mem[w].meta.active, no |-> mem[w].meta.total]]
  /\ LET s == mem[w].meta.active
     IN short' = [short EXCEPT ![w] = @ \/ (s \in DOMAIN mem[w].sess /\ ReadInPart(mem[w], s))]
  /\ UNCHANGED <<vars, told, sealed>>

\* The end of the task: the cursor moves to the end of the session that is active
\* now, as its record says; it stays if that session could not be read.
UpdateCursor(w) ==
  LET s == mem[w].meta.active
  IN /\ Free(w) /\ task[w] = "idle" /\ prompt[w].on
     /\ prompt' = [prompt EXCEPT ![w] = NoPrompt]
     /\ cursor' = IF s \in DOMAIN mem[w].sess
                  THEN [cursor EXCEPT ![w] = [session |-> s, no |-> mem[w].sess[s].end]]
                  ELSE cursor
     /\ short' = [short EXCEPT ![w] = @ \/ (s \in DOMAIN mem[w].sess /\ ReadInPart(mem[w], s))]
     /\ UNCHANGED <<vars, told, sealed>>

\* The steps that prompts and cursors have no part in.
ChainStep ==
  /\ \/ \E p \in Procs : \/ Truncate(p) \/ WritePart(p) \/ Store(p) \/ WriteFails(p)
                         \/ ReadSession(p) \/ EndLoad(p)
     \/ \E p \in Writers : GetOrCreateChain(p) \/ AppendEvent(p) \/ DeleteChain(p)
     \/ \E w \in Workers : EnsureChain(w) \/ CheckAndSeal(w) \/ SealRefused(w)
  /\ UNCHANGED agentVars

CursorsNext ==
  \/ ChainStep
  \/ \E w \in Workers : \/ StartTask(w) \/ BuildPrompt(w) \/ AgentAnswers(w) \/ AgentFails(w)
                        \/ SealSession(w) \/ UpdateCursor(w)

CursorsSpec == CursorsInit /\ [][CursorsNext]_<<vars, agentVars>>

-----------------------------------------------------------------------------
(* Correctness.                                                            *)

\* A cursor never passes an event that its agent was not told, as long as the tasks
\* that moved it had read all that the record of the session counts: whatever else
\* a reload finds half written, and whatever tasks fail, GetEventsAfter shows it
\* the next time.  (Until a session is sealed: the API server appends to it
\* nonetheless.)
CursorToldAll ==
  faults.deletes = 0 /\ ~sealed =>
    \A w \in Workers : ~short[w] =>
      \A e \in UNION {EventsIn(mem[Main], s) : s \in DOMAIN mem[Main].evts} :
        cursor[w] # NoCursor /\ e.no <= cursor[w].no => e.msg \in told[w]

\* Until a session is sealed a worker's copy of a session is in the order in
\* which it was sent, without a gap and without a repeat, whatever its reload and
\* the chains it creates over an unreadable meta.json cross.  (A worker that
\* seals writes that file too: its shorter copy can end up in front of the rest
\* of the API server's longer one.)
ReadsInOrder ==
  faults.deletes = 0 /\ ~sealed =>
    \A w \in Workers : \A s \in DOMAIN mem[w].evts :
      \A i, j \in DOMAIN mem[w].evts[s] :
        mem[w].evts[s][j].msg - mem[w].evts[s][i].msg = j - i
=============================================================================
