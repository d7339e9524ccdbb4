---------------------------- MODULE SessionChain ----------------------------
(***************************************************************************)
(* The Session Chain of one thread (conversation), as the goroutines that  *)
(* share one SessionChainManager see it: every exported method holds m.mu, *)
(* so it is one step on the manager's maps.  A method that gives the lock  *)
(* up and takes it again (CheckAndSeal, CompressSession), or whose caller  *)
(* uses a result after the lock is gone (GetActiveSession followed by      *)
(* UpdateCursor), is a step per locked region.                             *)
(*                                                                         *)
(* The files under data/session_chains, crashes, failed writes and the     *)
(* other processes that use the same files are in ChainStorage, which      *)
(* implements this module.                                                 *)
(*                                                                         *)
(* Threads share nothing but the lock, so one thread is enough.  Sessions  *)
(* S001, S002, ... are named by their SeqNo.                               *)
(***************************************************************************)
EXTENDS ChainData

CONSTANTS
  Agents,             \* agents that keep an AgentCursor
  Sealers,            \* goroutines that call CheckAndSeal
  Compressors,        \* goroutines that call CompressSession
  MaxDeletes          \* bound: DeleteChain calls

ASSUME DeletesType == MaxDeletes \in Nat

VARIABLES
  meta,       \* m.metas[thread]; NoChain when the key is absent
  sess,       \* m.sessions[thread], by SeqNo
  evts,       \* m.events[thread], by SeqNo
  cursors,    \* m.cursors, by agent; NoCursor when the key is absent
  sealing,    \* callers of CheckAndSeal that saw a threshold passed and hold no lock
  jobs,       \* per caller of CompressSession: what it captured under the first lock
  views,      \* per agent: what GetActiveSession returned to executeTask, and the
              \* EndEvent it read through that
  sent,       \* messages handed to AppendEvent so far
  deletes     \* DeleteChain calls so far

vars == <<meta, sess, evts, cursors, sealing, jobs, views, sent, deletes>>

NoCursor == [sid |-> 0, no |-> 0, own |-> FALSE]
NoJob    == [sid |-> 0, seen |-> 0, own |-> FALSE]
NoView   == [sid |-> 0, no |-> 0, own |-> FALSE]

\* own: the session record the caller captured is still the one in m.sessions
\* (for a cursor: the chain it points into has not been deleted since).

Exists == meta.count > 0

Init ==
  /\ meta = NoChain
  /\ sess = <<>>
  /\ evts = <<>>
  /\ cursors = [a \in Agents |-> NoCursor]
  /\ sealing = {}
  /\ jobs = [c \in Compressors |-> NoJob]
  /\ views = [a \in Agents |-> NoView]
  /\ sent = 0
  /\ deletes = 0

-----------------------------------------------------------------------------
(* Life of the chain.                                                      *)

\* Mutant: the map of events is not created with the chain.
MutCreateNoEvents ==
  /\ ~Exists
  /\ meta' = FirstMeta
  /\ sess' = Put(<<>>, 1, NewSession(0))
  /\ UNCHANGED <<evts, cursors, sealing, jobs, views, sent, deletes>>

GetOrCreateChain ==
  /\ ~Exists
  /\ meta' = FirstMeta
  /\ sess' = Put(<<>>, 1, NewSession(0))
  /\ evts' = Put(<<>>, 1, <<>>)
  /\ UNCHANGED <<cursors, sealing, jobs, views, sent, deletes>>

\* The maps of sessions and events go, m.cursors stays; captured pointers now
\* point at records that no map holds.
DeleteChain ==
  /\ deletes < MaxDeletes
  /\ deletes' = deletes + 1
  /\ meta' = NoChain
  /\ sess' = <<>>
  /\ evts' = <<>>
  /\ cursors' = [a \in Agents |-> [cursors[a] EXCEPT !.own = FALSE]]
  /\ jobs' = [c \in Compressors |-> [jobs[c] EXCEPT !.own = FALSE]]
  /\ views' = [a \in Agents |-> [views[a] EXCEPT !.own = FALSE]]
  /\ UNCHANGED <<sealing, sent>>

\* Mutant: events are numbered within their session.
MutAppendLocalNumber ==
  LET s == meta.active
      n == sess[s].count + 1
  IN /\ sent < MaxMessages
     /\ s \in DOMAIN sess
     /\ sess[s].status = "active"
     /\ sent' = sent + 1
     /\ meta' = [meta EXCEPT !.total = meta.total + 1]
     /\ sess' = [sess EXCEPT ![s] = WithEvent(@, n, EstimateTokens(sent + 1))]
     /\ evts' = [evts EXCEPT ![s] = Append(@, [no |-> n, msg |-> sent + 1])]
     /\ UNCHANGED <<cursors, sealing, jobs, views, deletes>>

\* The active session refuses the event unless its status is active.
AppendEvent ==
  LET s == meta.active
      n == meta.total + 1
  IN /\ sent < MaxMessages
     /\ s \in DOMAIN sess
     /\ sess[s].status = "active"
     /\ sent' = sent + 1
     /\ meta' = [meta EXCEPT !.total = n]
     /\ sess' = [sess EXCEPT ![s] = WithEvent(@, n, EstimateTokens(sent + 1))]
     /\ evts' = [evts EXCEPT ![s] = Append(@, [no |-> n, msg |-> sent + 1])]
     /\ UNCHANGED <<cursors, sealing, jobs, views, deletes>>

-----------------------------------------------------------------------------
(* Sealing: the check and the seal are two locked regions.                 *)

CheckAndSeal(c) ==
  /\ c \notin sealing
  /\ meta.active \in DOMAIN sess
  /\ Full(sess[meta.active])
  /\ sealing' = sealing \cup {c}
  /\ UNCHANGED <<meta, sess, evts, cursors, jobs, views, sent, deletes>>

\* Mutant: the old session keeps its status.
MutSealKeepsActive(c) ==
  LET n == meta.count + 1
  IN /\ c \in sealing
     /\ meta.active \in DOMAIN sess
     /\ n <= MaxSessions
     /\ sealing' = sealing \ {c}
     /\ meta' = [meta EXCEPT !.count = n, !.active = n]
     /\ sess' = Put(sess, n, NewSession(meta.total))
     /\ evts' = Put(evts, n, <<>>)
     /\ UNCHANGED <<cursors, jobs, views, sent, deletes>>

\* Mutant: the caller seals again on the strength of one check.
MutSealTwice(c) ==
  LET n == meta.count + 1
  IN /\ c \in sealing
     /\ meta.active \in DOMAIN sess
     /\ n <= MaxSessions
     /\ meta' = [meta EXCEPT !.count = n, !.active = n]
     /\ sess' = Put([sess EXCEPT ![meta.active].status = "compressing"],
                    n, NewSession(meta.total))
     /\ evts' = Put(evts, n, <<>>)
     /\ UNCHANGED <<cursors, sealing, jobs, views, sent, deletes>>

\* SealActiveSession looks at neither the thresholds nor the status again.
SealActiveSession(c) ==
  LET s == meta.active
      n == meta.count + 1
  IN /\ c \in sealing
     /\ s \in DOMAIN sess
     /\ n <= MaxSessions
     /\ sealing' = sealing \ {c}
     /\ meta' = [meta EXCEPT !.count = n, !.active = n]
     /\ sess' = Put([sess EXCEPT ![s].status = "compressing"],
                    n, NewSession(meta.total))
     /\ evts' = Put(evts, n, <<>>)
     /\ UNCHANGED <<cursors, jobs, views, sent, deletes>>

\* The chain was deleted between the check and the seal, or MaxSessions is reached.
SealRefused(c) ==
  /\ c \in sealing
  /\ ~Exists \/ meta.count >= MaxSessions
  /\ sealing' = sealing \ {c}
  /\ UNCHANGED <<meta, sess, evts, cursors, jobs, views, sent, deletes>>

-----------------------------------------------------------------------------
(* Compression: CompressFn runs between two locked regions.                *)

\* Mutant: the status is not checked before the events are captured.
MutStartAny(c, s) ==
  /\ jobs[c] = NoJob
  /\ s \in DOMAIN sess
  /\ jobs' = [jobs EXCEPT ![c] = [sid |-> s, seen |-> Len(evts[s]), own |-> TRUE]]
  /\ UNCHANGED <<meta, sess, evts, cursors, sealing, views, sent, deletes>>

StartCompress(c, s) ==
  /\ jobs[c] = NoJob
  /\ s \in DOMAIN sess
  /\ sess[s].status = "compressing"
  /\ jobs' = [jobs EXCEPT ![c] = [sid |-> s, seen |-> Len(evts[s]), own |-> TRUE]]
  /\ UNCHANGED <<meta, sess, evts, cursors, sealing, views, sent, deletes>>

\* Mutant: a failed compression opens the session again.
MutFailReopens(c) ==
  /\ jobs[c] # NoJob
  /\ jobs' = [jobs EXCEPT ![c] = NoJob]
  /\ sess' = IF jobs[c].own THEN [sess EXCEPT ![jobs[c].sid].status = "active"] ELSE sess
  /\ UNCHANGED <<meta, evts, cursors, sealing, views, sent, deletes>>

\* CompressFn failed: the session stays compressing.
FailCompress(c) ==
  /\ jobs[c] # NoJob
  /\ jobs' = [jobs EXCEPT ![c] = NoJob]
  /\ UNCHANGED <<meta, sess, evts, cursors, sealing, views, sent, deletes>>

\* The captured record is written through its pointer, without looking it up
\* or checking its status again.
FinishCompress(c) ==
  LET s == jobs[c].sid
  IN /\ jobs[c] # NoJob
     /\ jobs' = [jobs EXCEPT ![c] = NoJob]
     /\ sess' = IF jobs[c].own
                THEN [sess EXCEPT ![s].status = "sealed", ![s].summary = TRUE]
                ELSE sess
     /\ UNCHANGED <<meta, evts, cursors, sealing, views, sent, deletes>>

-----------------------------------------------------------------------------
(* Cursors: executeTask asks for the active session, which is a pointer to *)
(* its record, reads EndEvent through it and calls UpdateCursor.           *)

GetActiveSession(a) ==
  /\ views[a] = NoView
  /\ meta.active \in DOMAIN sess
  /\ views' = [views EXCEPT ![a] = [sid |-> meta.active, no |-> sess[meta.active].end,
                                    own |-> TRUE]]
  /\ UNCHANGED <<meta, sess, evts, cursors, sealing, jobs, sent, deletes>>

\* EndEvent is read with no lock held, at any time before UpdateCursor.
ReadEndEvent(a) ==
  /\ views[a].own
  /\ views' = [views EXCEPT ![a].no = sess[views[a].sid].end]
  /\ UNCHANGED <<meta, sess, evts, cursors, sealing, jobs, sent, deletes>>

\* Mutant: the session is asked for again, the event number is not.
MutUpdateMixed(a) ==
  /\ views[a] # NoView
  /\ cursors' = [cursors EXCEPT ![a] = [views[a] EXCEPT !.sid = meta.active]]
  /\ views' = [views EXCEPT ![a] = NoView]
  /\ UNCHANGED <<meta, sess, evts, sealing, jobs, sent, deletes>>

UpdateCursor(a) ==
  /\ views[a] # NoView
  /\ cursors' = [cursors EXCEPT ![a] = views[a]]
  /\ views' = [views EXCEPT ![a] = NoView]
  /\ UNCHANGED <<meta, sess, evts, sealing, jobs, sent, deletes>>

Next ==
  \/ GetOrCreateChain
  \/ DeleteChain
  \/ AppendEvent
  \/ \E c \in Sealers : CheckAndSeal(c) \/ SealActiveSession(c) \/ SealRefused(c)
  \/ \E c \in Compressors : FailCompress(c) \/ FinishCompress(c)
  \/ \E c \in Compressors, s \in DOMAIN sess : StartCompress(c, s)
  \/ \E a \in Agents : GetActiveSession(a) \/ ReadEndEvent(a) \/ UpdateCursor(a)

Spec == Init /\ [][Next]_vars

-----------------------------------------------------------------------------
(* What the readers return.                                                *)

EventsOf(s) == {evts[s][i] : i \in DOMAIN evts[s]}

AllEvents == UNION {EventsOf(s) : s \in DOMAIN sess}

\* GetEventsAfter(s, n): the events numbered above n of session s and those
\* after it; of every session when the chain has no session s.
EventsAfter(s, n) ==
  LET from == IF s \in DOMAIN sess THEN s ELSE 1
  IN {e \in UNION {EventsOf(t) : t \in {u \in DOMAIN sess : u >= from}} : e.no > n}

-----------------------------------------------------------------------------
(* Properties.                                                             *)

Captured == [sid : Nat, no : Nat, own : BOOLEAN]

\* Type invariant: the chain is absent as a whole or its maps hold exactly the
\* sessions 1..SessionCount.
TypeOK ==
  /\ meta \in Meta
  /\ sess \in [1..meta.count -> Record]
  /\ evts \in [1..meta.count -> Seq(Event)]
  /\ cursors \in [Agents -> Captured]
  /\ sealing \subseteq Sealers
  /\ jobs \in [Compressors -> [sid : Nat, seen : Nat, own : BOOLEAN]]
  /\ views \in [Agents -> Captured]
  /\ sent \in Nat
  /\ deletes \in Nat

\* Each number from 1 to TotalEvents is carried by exactly one event of the
\* chain, whatever seals and appends interleave, and no event has another
\* number (AppendEvent, SealActiveSession: TC-1.2.3, no repeat and no gap).
NumberedOnce ==
  /\ \A s \in DOMAIN sess : \A i \in DOMAIN evts[s] : evts[s][i].no \in 1..meta.total
  /\ \A n \in 1..meta.total :
       \E s \in DOMAIN sess : \E i \in DOMAIN evts[s] :
          /\ evts[s][i].no = n
          /\ \A t \in DOMAIN sess : \A j \in DOMAIN evts[t] :
                evts[t][j].no = n => t = s /\ j = i

\* The session AppendEvent writes to is the newest one and the only active
\* one, so an append can be refused only while there is no chain, and no
\* compression can reach the session being written (SealActiveSession).
OneActive ==
  \A s \in DOMAIN sess :
    /\ sess[s].status = "active" <=> s = meta.active
    /\ s = meta.active <=> s = meta.count

\* A cursor loses nothing: although GetEventsAfter skips the sessions before
\* the cursor's, it returns every event numbered above the cursor, even when
\* seals and appends came between asking for the active session, reading its
\* EndEvent and storing both.
NothingSkipped ==
  \A a \in Agents : cursors[a].own =>
    EventsAfter(cursors[a].sid, cursors[a].no) = {e \in AllEvents : e.no > cursors[a].no}

\* While CompressFn runs with no lock held, the session it read stays what it
\* read, so the summary stored at the end covers every event of the session.
SummaryCoversSession ==
  \A c \in Compressors : jobs[c].own =>
    /\ jobs[c].sid \in DOMAIN sess
    /\ sess[jobs[c].sid].status # "active"
    /\ jobs[c].seen = Len(evts[jobs[c].sid])

\* A step that keeps the chain changes nothing of a session that is no longer
\* active but its status, which only moves from compressing to sealed, and its
\* summary, which is never taken back.
FrozenStep ==
  meta'.count > 0 =>
    \A s \in DOMAIN sess : sess[s].status # "active" =>
      /\ s \in DOMAIN sess'
      /\ evts'[s] = evts[s]
      /\ sess'[s] = sess[s] \/ sess'[s] = [sess[s] EXCEPT !.status = "sealed", !.summary = TRUE]

\* A session that is no longer active is never written again (SPEC 2: a sealed
\* session takes no new event; SealActiveSession, FinishCompress).
SealedFrozen == [][FrozenStep]_vars

\* With one goroutine that checks (a worker runs its tasks one at a time), a
\* session is sealed only when a threshold is really passed, although the
\* check and the seal are separate locked regions (CheckAndSeal).  A chain that
\* is deleted and created again between the two escapes this.
FullBeforeSeal ==
  deletes = 0 => \A s \in DOMAIN sess : sess[s].status # "active" => Full(sess[s])
=============================================================================
