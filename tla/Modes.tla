------------------------------- MODULE Modes --------------------------------
(***************************************************************************)
(* The locks of the API server around collaboration modes: requests of a   *)
(* session go through SessionManager (sm), the session (ctx), Orchestrator *)
(* (orch) and ModeRegistry (reg), each with a sync.RWMutex of its own.     *)
(*                                                                         *)
(* A goroutine is the list of what it still has to do.  A mutex of Go lets *)
(* no reader in while a writer waits, a reader that has it already not     *)
(* excepted.  The one mode that is registered is free_discussion; an       *)
(* instance of it is a number.                                             *)
(***************************************************************************)
EXTENDS Integers, FiniteSets, SequencesExt

CONSTANTS
  Sessions,     \* sessions
  Goroutines,   \* goroutines of the HTTP server
  MaxRequests   \* bound: requests

ASSUME SessionsType   == IsFiniteSet(Sessions) /\ Sessions \cap {"sm", "orch", "reg"} = {}
ASSUME GoroutinesType == "none" \notin Goroutines
ASSUME RequestsType   == MaxRequests \in Nat

VARIABLES
  todo,       \* per goroutine: the steps it has before it
  op,         \* per goroutine: its request
  writer,     \* per lock: the goroutine that holds it alone, or None
  announced,  \* per lock: the goroutine that waits to hold it alone, or None
  readers,    \* per lock and goroutine: how often it holds it shared
  cached,     \* ModeRegistry.modes: the instance of the mode, 0 if there is none
  got,        \* per goroutine: the instance that GetOrCreate returned
  ctxMode,    \* per session: SessionContext.Mode, 0 if there is no session
  orchMode,   \* per session: OrchestratorSession.Mode, 0 if there is none
  made,       \* instances made
  requests    \* requests so far

vars == <<todo, op, writer, announced, readers, cached, got, ctxMode, orchMode, made, requests>>

None == "none"
Locks == {"sm", "orch", "reg"} \cup Sessions     \* a session stands for its ctx.mu

Lock(l)    == [do |-> "lock", on |-> l]
RLock(l)   == [do |-> "rlock", on |-> l]
Unlock(l)  == [do |-> "unlock", on |-> l]
RUnlock(l) == [do |-> "runlock", on |-> l]
Do(what)   == [do |-> what]

Reading(l) == <<RLock(l), RUnlock(l)>>

Init ==
  /\ todo = [g \in Goroutines |-> <<>>]
  /\ op = [g \in Goroutines |-> [name |-> None]]
  /\ writer = [l \in Locks |-> None]
  /\ announced = [l \in Locks |-> None]
  /\ readers = [l \in Locks |-> [g \in Goroutines |-> 0]]
  /\ cached = 0 /\ made = 0 /\ requests = 0
  /\ got = [g \in Goroutines |-> 0]
  /\ ctxMode = [s \in Sessions |-> 0]
  /\ orchMode = [s \in Sessions |-> 0]

-----------------------------------------------------------------------------
(* What the requests do.                                                   *)

\* GetOrCreate: Get; then, if there is none, Create and the store ("look" decides).
GetOrCreate == <<RLock("reg"), Do("look")>>

\* Mutant: the lock is kept shared while the store asks for it.
MutMissing == Reading("reg") \o <<Lock("reg"), Do("store"), Unlock("reg"), RUnlock("reg")>>

Missing == <<RUnlock("reg")>> \o Reading("reg") \o <<Lock("reg"), Do("store"), Unlock("reg")>>

\* A handler looks its session up ("found"), the orchestrator its own ("known");
\* either ends the request when there is none.
LookUp == <<RLock("sm"), Do("found"), RUnlock("sm")>>

\* SaveSession (for a session that is gone it ends after the first lock)
Save(s) == Reading("sm") \o Reading(s)

\* Mutant: the mode is fetched before sm.mu is taken.
MutCreateSession(s) ==
  GetOrCreate \o <<Lock("sm"), Do("ctx"), Lock("orch")>> \o GetOrCreate
    \o <<Do("orch"), Unlock("orch"), Unlock("sm")>> \o Save(s) \o <<Lock("sm"), Unlock("sm")>>

\* SessionManager.CreateSession and, inside, Orchestrator.CreateSession
CreateSession(s) ==
  <<Lock("sm")>> \o GetOrCreate \o <<Do("ctx"), Lock("orch")>> \o GetOrCreate
    \o <<Do("orch"), Unlock("orch"), Unlock("sm")>> \o Save(s) \o <<Lock("sm"), Unlock("sm")>>

\* handleSwitchMode and, inside, Orchestrator.SwitchMode
SwitchMode(s) ==
  LookUp \o <<Lock("orch"), Do("known")>> \o GetOrCreate \o <<Do("orch"), Unlock("orch"), Lock(s)>>
    \o GetOrCreate \o <<Do("ctx"), Unlock(s), Lock(s), Unlock(s)>>

\* SendMessage and, inside, Orchestrator.HandleUserMessage (handleResult and
\* HandleAgentResponse take the same locks)
SendMessage(s) ==
  LookUp \o <<Lock(s), RLock("orch"), Do("known"), RUnlock("orch"), Lock("orch"), Unlock("orch"),
               Unlock(s)>>

\* DeleteSession, in both
DeleteSession(s) ==
  <<Lock("sm"), Do("found"), Lock("orch"), Do("forget"), Unlock("orch"), Unlock("sm")>>

\* ModeRegistry.ListModes calls Create for each mode with its own lock held.
ListModes(s) == <<RLock("reg")>> \o Reading("reg") \o <<RUnlock("reg")>>

\* A new session has a new id, other requests come for sessions there are, and one
\* for the modes for none in particular; "save" is a goroutine of AutoSaveSession.
\* (Idle goroutines are all the same.)
Sensible(name, s) ==
  /\ name = "create" => ctxMode[s] = 0 /\ \A h \in Goroutines : todo[h] # <<>> =>
                           op[h] # [name |-> "create", on |-> s]
  /\ name \in {"switch", "send", "save", "delete"} => ctxMode[s] # 0
  /\ name = "list" => s = CHOOSE r \in Sessions : TRUE

Idle == CHOOSE g \in Goroutines : todo[g] = <<>>

Request(g, name, s) ==
  /\ todo[g] = <<>> /\ g = Idle /\ requests < MaxRequests
  /\ Sensible(name, s)
  /\ todo' = [todo EXCEPT ![g] =
       CASE name = "create" -> CreateSession(s)
         [] name = "switch" -> SwitchMode(s)
         [] name = "send"   -> SendMessage(s)
         [] name = "save"   -> Save(s)
         [] name = "delete" -> DeleteSession(s)
         [] name = "list"   -> ListModes(s)]
  /\ op' = [op EXCEPT ![g] = [name |-> name, on |-> s]]
  /\ requests' = requests + 1
  /\ UNCHANGED <<writer, announced, readers, cached, got, ctxMode, orchMode, made>>

-----------------------------------------------------------------------------
(* The steps of a goroutine.                                               *)

Must(g, what) == todo[g] # <<>> /\ Head(todo[g]).do = what
Done(g)        == todo' = [todo EXCEPT ![g] = Tail(@)]
At(g)          == Head(todo[g]).on

\* RWMutex.Lock: one writer at a time announces itself, and waits for the readers.
Announce(g) ==
  /\ Must(g, "lock") /\ writer[At(g)] = None /\ announced[At(g)] = None
  /\ announced' = [announced EXCEPT ![At(g)] = g]
  /\ UNCHANGED <<todo, op, writer, readers, cached, got, ctxMode, orchMode, made, requests>>

Acquire(g) ==
  /\ Must(g, "lock") /\ announced[At(g)] = g
  /\ \A h \in Goroutines : readers[At(g)][h] = 0
  /\ writer' = [writer EXCEPT ![At(g)] = g]
  /\ announced' = [announced EXCEPT ![At(g)] = None]
  /\ Done(g)
  /\ UNCHANGED <<op, readers, cached, got, ctxMode, orchMode, made, requests>>

Release(g) ==
  /\ Must(g, "unlock")
  /\ writer' = [writer EXCEPT ![At(g)] = None]
  /\ Done(g)
  /\ UNCHANGED <<op, announced, readers, cached, got, ctxMode, orchMode, made, requests>>

Share(g) ==
  /\ Must(g, "rlock") /\ writer[At(g)] = None /\ announced[At(g)] = None
  /\ readers' = [readers EXCEPT ![At(g)][g] = @ + 1]
  /\ Done(g)
  /\ UNCHANGED <<op, writer, announced, cached, got, ctxMode, orchMode, made, requests>>

Unshare(g) ==
  /\ Must(g, "runlock")
  /\ readers' = [readers EXCEPT ![At(g)][g] = @ - 1]
  /\ Done(g)
  /\ UNCHANGED <<op, writer, announced, cached, got, ctxMode, orchMode, made, requests>>

\* GetOrCreate finds the instance, or will make one.
Look(g) ==
  /\ Must(g, "look")
  /\ todo' = [todo EXCEPT ![g] = (IF cached = 0 THEN Missing ELSE <<RUnlock("reg")>>) \o Tail(@)]
  /\ got' = [got EXCEPT ![g] = cached]
  /\ UNCHANGED <<op, writer, announced, readers, cached, ctxMode, orchMode, made, requests>>

\* It stores the instance it made.
Store(g) ==
  /\ Must(g, "store")
  /\ made' = made + 1
  /\ cached' = made + 1
  /\ got' = [got EXCEPT ![g] = made + 1]
  /\ Done(g)
  /\ UNCHANGED <<op, writer, announced, readers, ctxMode, orchMode, requests>>

\* Without a session the request ends, and what it holds is released.
Check(g) ==
  LET s == op[g].on
      gone == \/ Must(g, "found") /\ ctxMode[s] = 0
              \/ Must(g, "known") /\ orchMode[s] = 0
      held == {Unlock(l) : l \in {l \in Locks : writer[l] = g}}
                \cup {RUnlock(l) : l \in {l \in Locks : readers[l][g] > 0}}
  IN /\ Must(g, "found") \/ Must(g, "known")
     /\ todo' = [todo EXCEPT ![g] = IF gone THEN SetToSeq(held) ELSE Tail(@)]
     /\ UNCHANGED <<op, writer, announced, readers, cached, got, ctxMode, orchMode, made, requests>>

\* The instance becomes the session's, in the one map and in the other.
SetMode(g) ==
  LET s == op[g].on
  IN /\ \/ /\ Must(g, "ctx") /\ orchMode' = orchMode
           /\ ctxMode' = [ctxMode EXCEPT ![s] = IF op[g].name = "create" \/ @ # 0 THEN got[g] ELSE @]
        \/ /\ Must(g, "orch") /\ ctxMode' = ctxMode
           /\ orchMode' = [orchMode EXCEPT ![s] = got[g]]
     /\ Done(g)
     /\ UNCHANGED <<op, writer, announced, readers, cached, got, made, requests>>

Forget(g) ==
  /\ Must(g, "forget")
  /\ ctxMode' = [ctxMode EXCEPT ![op[g].on] = 0]
  /\ orchMode' = [orchMode EXCEPT ![op[g].on] = 0]
  /\ Done(g)
  /\ UNCHANGED <<op, writer, announced, readers, cached, got, made, requests>>

Step(g) ==
  \/ Announce(g) \/ Acquire(g) \/ Release(g) \/ Share(g) \/ Unshare(g)
  \/ Look(g) \/ Store(g) \/ Check(g) \/ SetMode(g) \/ Forget(g)

Names == {"create", "switch", "send", "save", "delete", "list"}

Next == \E g \in Goroutines : Step(g) \/ \E name \in Names, s \in Sessions : Request(g, name, s)

\* A goroutine that can go on does.
FairSpec == Init /\ [][Next]_vars /\ \A g \in Goroutines : WF_vars(Step(g))

-----------------------------------------------------------------------------
(* Correctness.                                                            *)

\* GetOrCreate looks, creates and stores under separate holds of the registry's
\* lock, so two calls could make an instance each.  The locks of its callers
\* prevent it: all sessions share the instance that the registry keeps.
OneInstance ==
  \A s \in Sessions : ctxMode[s] \in {0, cached} /\ orchMode[s] \in {0, cached}

\* ListModes holds the registry's lock and asks for it again, while the store of
\* another goroutine waits for it: neither can go on.
ListModesStuck ==
  \E g \in Goroutines :
    /\ op[g].name = "list" /\ readers["reg"][g] > 0
    /\ Must(g, "rlock") /\ announced["reg"] # None

\* Every request returns, unless ListModes meets the first creation of a mode:
\* no other order of these locks makes goroutines wait for each other.
RequestsReturn ==
  \A g \in Goroutines : todo[g] # <<>> ~> todo[g] = <<>> \/ ListModesStuck
=============================================================================
