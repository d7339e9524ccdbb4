---------------------------- MODULE ChainStorage ----------------------------
(***************************************************************************)
(* The directory of one thread under data/session_chains, and the          *)
(* SessionChainManagers of the processes that share it: the API server,    *)
(* which appends and deletes, and the agent workers, which reload the      *)
(* thread before a task and may seal it after the task.  Every process has *)
(* its own copy of the chain and its own m.mu; nothing orders the          *)
(* processes among themselves.                                             *)
(*                                                                         *)
(* A method changes the memory first and then writes whole files one after *)
(* the other with os.WriteFile, which truncates and then writes.  A file   *)
(* that is missing or empty, a meta.json cut short and a session file cut  *)
(* within its frontmatter are Unreadable: loaders skip them alike.  A      *)
(* session file cut later is read: its record says what the whole file     *)
(* holds, its events are the first of them.                                *)
(***************************************************************************)
EXTENDS ChainData, FiniteSets, SequencesExt

CONSTANTS
  Writers,         \* processes that run the API server's calls
  Workers,         \* processes that run an agent worker's tasks
  Main,            \* the process whose memory is compared with SessionChain
  Unreadable,      \* content of a file that no loader accepts
  MaxDeletes,      \* bound: DeleteChain calls
  MaxCrashes,      \* bound: process crashes
  MaxWriteErrors   \* bound: os.WriteFile calls that fail

ASSUME UnreadableType == Unreadable \notin Meta \cup [rec : Record, evts : Seq(Event)]

Procs == Writers \cup Workers

VARIABLES
  mem,      \* per process: m.metas, m.sessions, m.events of the thread
  dir,      \* the directory of the thread exists
  disk,     \* meta: content of meta.json; md: content of S001.md, S002.md, ...
  writes,   \* per process: the files its method in progress has still to write;
            \* m.mu is held while there is one
  open,     \* per process: whether the first of them is truncated, or partly written
  loading,  \* per process: what a load from disk has read so far
  task,     \* per process: where its task (or its start) is
  sent,     \* messages handed to AppendEvent so far
  faults    \* deletes, crashes and write errors so far

vars == <<mem, dir, disk, writes, open, loading, task, sent, faults>>

None       == [meta |-> NoChain, sess |-> <<>>, evts |-> <<>>]
NotLoading == [on |-> FALSE, next |-> 0, got |-> None]
NoFiles    == [meta |-> Unreadable, md |-> [s \in 1..MaxSessions |-> Unreadable]]

Known(p) == mem[p].meta # NoChain
Free(p)  == writes[p] = <<>> /\ ~loading[p].on

Init ==
  /\ mem = [p \in Procs |-> None]
  /\ dir = FALSE
  /\ disk = NoFiles
  /\ writes = [p \in Procs |-> <<>>]
  /\ open = [p \in Procs |-> "no"]
  /\ loading = [p \in Procs |-> NotLoading]
  /\ task = [p \in Procs |-> "idle"]
  /\ sent = 0
  /\ faults = [deletes |-> 0, crashes |-> 0, errors |-> 0]

-----------------------------------------------------------------------------
(* Files.  meta.json is file 0, S00n.md is file n.                         *)

\* What GetOrCreateChain writes before it puts the chain in memory.
Fresh == [meta |-> FirstMeta, sess |-> Put(<<>>, 1, NewSession(0)), evts |-> Put(<<>>, 1, <<>>)]

\* The content p's method gives file f.
Image(p, f) ==
  LET m == IF Known(p) THEN mem[p] ELSE Fresh
  IN IF f = 0 THEN m.meta ELSE [rec |-> m.sess[f], evts |-> m.evts[f]]

FileOn(f)      == IF f = 0 THEN disk.meta ELSE disk.md[f]
WithFile(f, c) == IF f = 0 THEN [disk EXCEPT !.meta = c] ELSE [disk EXCEPT !.md[f] = c]

\* What file f holds once c is written from its start: a process that also had
\* it truncated may have filled it in between, and its longer content shows
\* behind the end of c: a broken meta.json, or further events.
Overlays(f, c) ==
  LET old == FileOn(f)
  IN IF old = Unreadable THEN {c}
     ELSE IF f = 0 THEN {c, Unreadable}
     ELSE {[c EXCEPT !.evts = @ \o SubSeq(old.evts, k, Len(old.evts))] :
             k \in (Len(c.evts) + 1)..(Len(old.evts) + 1)} \cup {c}

\* A write system call of another process is under way on file f.  Those on one
\* file wait for each other, and so does a truncation; a read does not.
Busy(p, f) == \E q \in Procs \ {p} : open[q] = "part" /\ Head(writes[q]) = f

\* os.WriteFile opens the file: it is empty from here on.
Truncate(p) ==
  /\ writes[p] # <<>> /\ open[p] = "no" /\ dir
  /\ ~Busy(p, Head(writes[p]))
  /\ open' = [open EXCEPT ![p] = "yes"]
  /\ disk' = WithFile(Head(writes[p]), Unreadable)
  /\ UNCHANGED <<mem, dir, writes, loading, task, sent, faults>>

\* A session file whose content is written up to its k-th event.
Cut(c, k) == [c EXCEPT !.evts = SubSeq(@, 1, k)]

\* A session file is there in part.
WritePart(p) ==
  LET f == Head(writes[p])
      c == Image(p, f)
  IN /\ writes[p] # <<>> /\ open[p] = "yes"
     /\ f # 0 /\ ~Busy(p, f)
     /\ open' = [open EXCEPT ![p] = "part"]
     /\ \E k \in 0..Len(c.evts) : \E d \in Overlays(f, Cut(c, k)) : disk' = WithFile(f, d)
     /\ UNCHANGED <<mem, dir, writes, loading, task, sent, faults>>

\* os.WriteFile returns.  After its last file GetOrCreateChain puts the chain
\* in memory; every other method did so before its first file.
Store(p) ==
  LET f == Head(writes[p])
  IN /\ writes[p] # <<>> /\ open[p] # "no"
     /\ ~Busy(p, f)
     /\ IF open[p] # "unlinked"
        THEN \E c \in Overlays(f, Image(p, f)) : disk' = WithFile(f, c)
        ELSE disk' = disk
     /\ open' = [open EXCEPT ![p] = "no"]
     /\ writes' = [writes EXCEPT ![p] = Tail(@)]
     /\ mem' = IF Len(writes[p]) = 1 /\ ~Known(p) THEN [mem EXCEPT ![p] = Fresh] ELSE mem
     /\ UNCHANGED <<dir, loading, task, sent, faults>>

\* Mutant: after an error the newest event leaves the memory, not the file.
MutWriteRollsBack(p) ==
  LET s == mem[p].meta.active
  IN /\ writes[p] # <<>>
     /\ faults.errors < MaxWriteErrors
     /\ faults' = [faults EXCEPT !.errors = @ + 1]
     /\ mem' = IF Known(p) /\ mem[p].evts[s] # <<>>
               THEN [mem EXCEPT ![p].evts[s] = Front(@)] ELSE mem
     /\ writes' = [writes EXCEPT ![p] = <<>>]
     /\ open' = [open EXCEPT ![p] = "no"]
     /\ UNCHANGED <<dir, disk, loading, task, sent>>

\* os.WriteFile fails, because the directory is gone or for another reason,
\* before or after the file was truncated, or in the middle: the method returns the error and
\* what it did to the memory stays.
WriteFails(p) ==
  /\ writes[p] # <<>>
  /\ \/ ~dir /\ open[p] = "no" /\ faults' = faults
     \/ /\ faults.errors < MaxWriteErrors
        /\ faults' = [faults EXCEPT !.errors = @ + 1]
  /\ writes' = [writes EXCEPT ![p] = <<>>]
  /\ open' = [open EXCEPT ![p] = "no"]
  /\ UNCHANGED <<mem, dir, disk, loading, task, sent>>

-----------------------------------------------------------------------------
(* The API server's calls.                                                 *)

Create(p) ==
  /\ ~Known(p)
  /\ dir' = TRUE
  /\ writes' = [writes EXCEPT ![p] = <<0, 1>>]

GetOrCreateChain(p) ==
  /\ Free(p) /\ task[p] # "start"
  /\ Create(p)
  /\ UNCHANGED <<mem, disk, open, loading, task, sent, faults>>

\* Mutant: the event goes to whichever session the map yields first.
MutAppendAny(p) ==
  LET m == mem[p]
      n == m.meta.total + 1
  IN \E s \in DOMAIN m.sess :
     /\ Free(p) /\ task[p] # "start"
     /\ sent < MaxMessages
     /\ sent' = sent + 1
     /\ mem' = [mem EXCEPT ![p] =
                  [meta |-> [m.meta EXCEPT !.total = n],
                   sess |-> [m.sess EXCEPT ![s] = WithEvent(@, n, EstimateTokens(sent + 1))],
                   evts |-> [m.evts EXCEPT ![s] = Append(@, [no |-> n, msg |-> sent + 1])]]]
     /\ writes' = [writes EXCEPT ![p] = <<s, 0>>]
     /\ UNCHANGED <<dir, disk, open, loading, task, faults>>

AppendEvent(p) ==
  LET m == mem[p]
      s == m.meta.active
      n == m.meta.total + 1
  IN /\ Free(p) /\ task[p] # "start"
     /\ sent < MaxMessages
     /\ s \in DOMAIN m.sess
     /\ m.sess[s].status = "active"
     /\ sent' = sent + 1
     /\ mem' = [mem EXCEPT ![p] =
                  [meta |-> [m.meta EXCEPT !.total = n],
                   sess |-> [m.sess EXCEPT ![s] = WithEvent(@, n, EstimateTokens(sent + 1))],
                   evts |-> [m.evts EXCEPT ![s] = Append(@, [no |-> n, msg |-> sent + 1])]]]
     /\ writes' = [writes EXCEPT ![p] = <<s, 0>>]
     /\ UNCHANGED <<dir, disk, open, loading, task, faults>>

\* Mutant: only the directory is deleted.
MutDeleteDirectory(p) ==
  /\ Free(p) /\ task[p] # "start"
  /\ faults.deletes < MaxDeletes
  /\ faults' = [faults EXCEPT !.deletes = @ + 1]
  /\ dir' = FALSE
  /\ disk' = NoFiles
  /\ open' = [q \in Procs |-> IF open[q] = "no" THEN "no" ELSE "unlinked"]
  /\ UNCHANGED <<mem, writes, loading, task, sent>>

\* os.RemoveAll is one step here.  A file another process has open is written
\* without effect.
DeleteChain(p) ==
  /\ Free(p) /\ task[p] # "start"
  /\ dir \/ Known(p)
  /\ faults.deletes < MaxDeletes
  /\ faults' = [faults EXCEPT !.deletes = @ + 1]
  /\ mem' = [mem EXCEPT ![p] = None]
  /\ dir' = FALSE
  /\ disk' = NoFiles
  /\ open' = [q \in Procs |-> IF open[q] = "no" THEN "no" ELSE "unlinked"]
  /\ UNCHANGED <<writes, loading, task, sent>>

-----------------------------------------------------------------------------
(* Reading the directory: loadFromDisk at the start of a process,          *)
(* ReloadThread at the start of a task.                                    *)

Begin == [on |-> TRUE, next |-> 1, got |-> [None EXCEPT !.meta = disk.meta]]

\* An unreadable meta.json leaves the memory as it is.
Load(p, from, then) ==
  /\ Free(p) /\ task[p] = from
  /\ IF disk.meta = Unreadable
     THEN loading' = loading /\ task' = [task EXCEPT ![p] = then]
     ELSE loading' = [loading EXCEPT ![p] = Begin] /\ task' = task
  /\ UNCHANGED <<mem, dir, disk, writes, open, sent, faults>>

LoadFromDisk(p) == Load(p, "start", "idle")
ReloadThread(p) == p \in Workers /\ Load(p, "idle", "ensure")

\* Mutant: the events read are added to those in memory.
MutReadAdds(p) ==
  LET l == loading[p]
      s == l.next
      old == IF s \in DOMAIN mem[p].evts THEN mem[p].evts[s] ELSE <<>>
  IN /\ l.on /\ s <= l.got.meta.count
     /\ loading' = [loading EXCEPT ![p] =
          [l EXCEPT !.next = s + 1,
                    !.got = IF disk.md[s] = Unreadable THEN l.got
                            ELSE [l.got EXCEPT !.sess = Put(@, s, disk.md[s].rec),
                                               !.evts = Put(@, s, old \o disk.md[s].evts)]]]
     /\ UNCHANGED <<mem, dir, disk, writes, open, task, sent, faults>>

\* Mutant: a session that cannot be read gets a record and no events.
MutReadHalf(p) ==
  LET l == loading[p]
      s == l.next
  IN /\ l.on /\ s <= l.got.meta.count
     /\ loading' = [loading EXCEPT ![p] =
          [l EXCEPT !.next = s + 1,
                    !.got = IF disk.md[s] = Unreadable
                            THEN [l.got EXCEPT !.sess = Put(@, s, NewSession(l.got.meta.total))]
                            ELSE [l.got EXCEPT !.sess = Put(@, s, disk.md[s].rec),
                                               !.evts = Put(@, s, disk.md[s].evts)]]]
     /\ UNCHANGED <<mem, dir, disk, writes, open, task, sent, faults>>

\* The sessions named by the meta are read one after the other; one that
\* cannot be read is left out.
ReadSession(p) ==
  LET l == loading[p]
      s == l.next
  IN /\ l.on /\ s <= l.got.meta.count
     /\ loading' = [loading EXCEPT ![p] =
          [l EXCEPT !.next = s + 1,
                    !.got = IF disk.md[s] = Unreadable THEN l.got
                            ELSE [l.got EXCEPT !.sess = Put(l.got.sess, s, disk.md[s].rec),
                                               !.evts = Put(l.got.evts, s, disk.md[s].evts)]]]
     /\ UNCHANGED <<mem, dir, disk, writes, open, task, sent, faults>>

EndLoad(p) ==
  /\ loading[p].on /\ loading[p].next > loading[p].got.meta.count
  /\ mem' = [mem EXCEPT ![p] = loading[p].got]
  /\ loading' = [loading EXCEPT ![p] = NotLoading]
  /\ task' = [task EXCEPT ![p] = IF @ = "start" THEN "idle" ELSE "ensure"]
  /\ UNCHANGED <<dir, disk, writes, open, sent, faults>>

-----------------------------------------------------------------------------
(* The rest of a worker's task.                                            *)

\* GetOrCreateChain before the prompt is built, and again after the agent ran.
Ensure(p, from, then) ==
  /\ Free(p) /\ task[p] = from
  /\ task' = [task EXCEPT ![p] = then]
  /\ \/ Known(p) /\ UNCHANGED <<dir, writes>>
     \/ Create(p)
  /\ UNCHANGED <<mem, disk, open, loading, sent, faults>>

EnsureChain(p)  == Ensure(p, "ensure", "agent")
EnsureAgain(p)  == Ensure(p, "agent", "check")

\* The agent's run, or the rest of the task, fails: nothing is checked or sealed.
TaskFails(p) ==
  /\ Free(p) /\ task[p] = "agent"
  /\ task' = [task EXCEPT ![p] = "idle"]
  /\ UNCHANGED <<mem, dir, disk, writes, open, loading, sent, faults>>

CheckAndSeal(p) ==
  LET s == mem[p].meta.active
  IN /\ Free(p) /\ task[p] = "check"
     /\ task' = [task EXCEPT ![p] = IF s \in DOMAIN mem[p].sess /\ Full(mem[p].sess[s])
                                    THEN "seal" ELSE "idle"]
     /\ UNCHANGED <<mem, dir, disk, writes, open, loading, sent, faults>>

\* The session to seal, and the one to open after it.
Old(p) == mem[p].meta.active
New(p) == mem[p].meta.count + 1

\* The memory changes; then come the files.
Seal(p, files) ==
  LET m == mem[p]
  IN /\ Free(p) /\ task[p] = "seal"
     /\ Old(p) \in DOMAIN m.sess /\ New(p) <= MaxSessions
     /\ task' = [task EXCEPT ![p] = "idle"]
     /\ mem' = [mem EXCEPT ![p] =
                  [meta |-> [m.meta EXCEPT !.count = New(p), !.active = New(p)],
                   sess |-> Put([m.sess EXCEPT ![Old(p)].status = "compressing"],
                                New(p), NewSession(m.meta.total)),
                   evts |-> Put(m.evts, New(p), <<>>)]]
     /\ writes' = [writes EXCEPT ![p] = files]
     /\ UNCHANGED <<dir, disk, open, loading, sent, faults>>

\* Mutant: meta.json is not written.
MutSealSkipsMeta(p) == Seal(p, <<Old(p), New(p)>>)

\* Mutant: meta.json is written first.
MutSealMetaFirst(p) == Seal(p, <<0, Old(p), New(p)>>)

SealActiveSession(p) == Seal(p, <<Old(p), New(p), 0>>)

\* The chain is gone, or MaxSessions is reached.
SealRefused(p) ==
  /\ Free(p) /\ task[p] = "seal"
  /\ mem[p].meta.active \notin DOMAIN mem[p].sess \/ mem[p].meta.count >= MaxSessions
  /\ task' = [task EXCEPT ![p] = "idle"]
  /\ UNCHANGED <<mem, dir, disk, writes, open, loading, sent, faults>>

-----------------------------------------------------------------------------
\* The process dies at any point and starts again.
Crash(p) ==
  /\ task[p] # "start"
  /\ faults.crashes < MaxCrashes
  /\ faults' = [faults EXCEPT !.crashes = @ + 1]
  /\ mem' = [mem EXCEPT ![p] = None]
  /\ writes' = [writes EXCEPT ![p] = <<>>]
  /\ open' = [open EXCEPT ![p] = "no"]
  /\ loading' = [loading EXCEPT ![p] = NotLoading]
  /\ task' = [task EXCEPT ![p] = "start"]
  /\ UNCHANGED <<dir, disk, sent>>

Next ==
  \/ \E p \in Procs : \/ Truncate(p) \/ WritePart(p) \/ Store(p) \/ WriteFails(p)
                      \/ LoadFromDisk(p) \/ ReadSession(p) \/ EndLoad(p) \/ Crash(p)
  \/ \E p \in Writers : GetOrCreateChain(p) \/ AppendEvent(p) \/ DeleteChain(p)
  \/ \E p \in Workers : \/ ReloadThread(p) \/ EnsureChain(p) \/ TaskFails(p) \/ EnsureAgain(p)
                        \/ CheckAndSeal(p) \/ SealActiveSession(p) \/ SealRefused(p)

Spec == Init /\ [][Next]_vars

-----------------------------------------------------------------------------
(* Properties.                                                             *)

EventsIn(m, s) == {m.evts[s][i] : i \in DOMAIN m.evts[s]}

\* Type invariant.  Sessions that could not be read are missing from the maps,
\* and always from both.
TypeOK ==
  /\ \A p \in Procs : /\ mem[p].meta \in Meta
                      /\ DOMAIN mem[p].sess = DOMAIN mem[p].evts
                      /\ DOMAIN mem[p].sess \subseteq 1..mem[p].meta.count
                      /\ \A s \in DOMAIN mem[p].sess : /\ mem[p].sess[s] \in Record
                                                       /\ mem[p].evts[s] \in Seq(Event)
  /\ dir \in BOOLEAN
  /\ disk.meta \in Meta \cup {Unreadable}
  /\ \A s \in 1..MaxSessions :
        disk.md[s] = Unreadable \/ disk.md[s] \in [rec : Record, evts : Seq(Event)]
  /\ writes \in [Procs -> Seq(0..MaxSessions)]
  /\ open \in [Procs -> {"no", "yes", "part", "unlinked"}]
  /\ \A p \in Procs : loading[p].on => writes[p] = <<>>
  /\ task \in [Procs -> {"start", "idle", "ensure", "agent", "check", "seal"}]
  /\ sent \in 0..MaxMessages

\* The files hold what p has in memory.
Saved(p) ==
  /\ disk.meta = mem[p].meta
  /\ \A s \in DOMAIN mem[p].sess :
        disk.md[s] = [rec |-> mem[p].sess[s], evts |-> mem[p].evts[s]]

\* What p would read after a death now, against what it has in memory: meta.json is
\* there and names no session that is not, every session it names is there, and no
\* event is missing but the newest.  Left out is the file that is open for writing.
Written(p, f) == writes[p] # <<>> /\ Head(writes[p]) = f /\ open[p] # "no"
Named(s)      == disk.meta = Unreadable \/ s <= disk.meta.count

Recoverable(p) ==
  LET evts == mem[p].evts
  IN /\ Written(p, 0) \/ disk.meta # Unreadable
     /\ \A s \in DOMAIN evts :
          /\ Named(s) \/ evts[s] = <<>>
          /\ Named(s) /\ ~Written(p, s) =>
               /\ disk.md[s] # Unreadable
               /\ \/ disk.md[s].evts = evts[s]
                  \/ /\ evts[s] # <<>> /\ Last(evts[s]).no = mem[p].meta.total
                     /\ disk.md[s].evts = Front(evts[s])

\* One process, until a write fails: a death between two methods costs nothing; one
\* at any other moment costs no session but the one whose file is being written (the
\* whole chain, if that is meta.json), and of the others no event but the newest
\* (write order of GetOrCreateChain, AppendEvent and SealActiveSession; loadFromDisk).
LossIsBounded ==
  faults.errors = 0 => \A p \in Procs : Known(p) =>
    /\ Recoverable(p)
    /\ Free(p) /\ task[p] # "start" => Saved(p)

\* One process: whatever was lost to crashes and to one failed write, what it has
\* in memory is in the order in which it was sent, within a session and from one
\* session to the next (AppendEvent, SealActiveSession, loadFromDisk).  More
\* failures can leave the file of an earlier life between those of this one.
AppendOrder ==
  Procs = {Main} /\ faults.errors <= 1 => \A s, t \in DOMAIN mem[Main].evts :
    \A i \in DOMAIN mem[Main].evts[s], j \in DOMAIN mem[Main].evts[t] :
      s < t \/ (s = t /\ i < j) => mem[Main].evts[s][i].msg < mem[Main].evts[t][j].msg

\* Without a crash or a delete a worker never reads an event that the API
\* server does not have in memory, or has under another number: however its
\* reload interleaves with the API server's writes, a prompt is built from
\* events that exist (ReloadThread, AppendEvent).
ReadsAreReal ==
  faults.crashes = 0 /\ faults.deletes = 0 =>
    \A p \in Procs : \A s \in DOMAIN mem[p].evts :
      \A i \in DOMAIN mem[p].evts[s] :
        /\ s \in DOMAIN mem[Main].evts
        /\ mem[p].evts[s][i] \in EventsIn(mem[Main], s)

\* An event goes to a session that is still active in its file, if the file can
\* be read at all.
AppendStep ==
  sent' # sent =>
    \A p \in Procs : mem'[p] # mem[p] =>
      LET f == disk.md[mem[p].meta.active]
      IN f = Unreadable \/ f.rec.status = "active"

\* A session that any process has sealed takes no new event (SPEC 2: Seal, TC-3.6).
AppendsToOpenSession == [][AppendStep]_vars

-----------------------------------------------------------------------------
(* The memory of process Main behaves as SessionChain says, where each     *)
(* method is one step.                                                     *)

SC == INSTANCE SessionChain WITH
        Agents <- {}, Compressors <- {}, Sealers <- {Main} \cap Workers,
        meta <- mem[Main].meta, sess <- mem[Main].sess, evts <- mem[Main].evts,
        sealing <- IF task[Main] = "seal" THEN {Main} ELSE {},
        cursors <- <<>>, jobs <- <<>>, views <- <<>>,
        deletes <- faults.deletes

\* The chain in the API server's memory is the chain of SessionChain: the files
\* it writes, and what other processes do to them, do not show.
ImplementsSessionChain == SC!Spec

\* So is the chain of a process that appends, reloads, seals and deletes on its
\* own, as long as it does not crash and its writes work: what it reloads is what
\* it knew.
ImplementsUntilCrash ==
  SC!Init /\ [][SC!Next \/ faults'.crashes + faults'.errors > 0]_(SC!vars)
=============================================================================
