----------------------------- MODULE Workspaces -----------------------------
(***************************************************************************)
(* Workspaces and their deployments (WorkspaceManager), in the setup of    *)
(* start-with-nginx.sh: nginx forwards to the API server on the production *)
(* port; a deployment builds and tests a workspace, starts it on the test  *)
(* port and, promoted, is what nginx forwards to, while whatever listens   *)
(* on the production port is killed.                                       *)
(*                                                                         *)
(* Every API server has a manager of its own, so the program that is       *)
(* deployed brings one too: managers are named by the port of their        *)
(* server.  They share Redis, the directories, the ports and nginx; their  *)
(* deployments live and die with them.  A manager's lock is held by one    *)
(* promotion at a time; every other operation is one region of the lock.   *)
(*                                                                         *)
(* Commands are what they do: a build may fail or hang, a started program  *)
(* come up at once, late or never, a health check ask another port than    *)
(* the one it is given.                                                    *)
(***************************************************************************)
EXTENDS Integers, Sequences, FiniteSets

CONSTANTS
  Dirs,          \* directories that workspaces are made of, at most one of each
  MaxDeploys,    \* bound: deployments
  MaxEdits,      \* bound: versions the agents write
  MaxFailures,   \* bound: commands, writes and calls to Redis that fail or hang
  MaxCrashes,    \* bound: services that die of their own
  MaxEvents      \* bound: edits, updates, failures and crashes together

ASSUME DirsType   == Dirs # {}
ASSUME BoundsType == {MaxDeploys, MaxEdits, MaxFailures, MaxCrashes, MaxEvents} \subseteq Nat

TestPort == 9002     \* NewWorkspaceManager; no code assigns them again
ProdPort == 9001
NoPort   == 0        \* in an nginx configuration that is empty or cut short

VARIABLES
  tree,      \* per workspace: version of the files in its directory
  built,     \* per workspace: version its binary was built from, 0 if none
  service,   \* per port: what listens there
  starting,  \* per port: programs that were started and may yet listen there
  nginx,     \* file: the port in the configuration; live: the port it forwards to
  redis,     \* per workspace: its saved record
  manager,   \* per port: the manager of the API server there
  counts     \* edits, deploys, updates, failures and crashes so far; astray: health
             \* checks that passed and had not asked the test port

vars == <<tree, built, service, starting, nginx, redis, manager, counts>>

Ports      == {TestPort, ProdPort}
Types      == {"self", "external"}
Nothing    == [type |-> "none"]
Checks     == {"none", "test", "other"}     \* health_check: "", with the test port, or another
Workspace  == [type : Types, test : BOOLEAN, start : BOOLEAN,   \* which commands are not ""
               check : Checks]
Service    == [type : Types, ws : Dirs, version : 0..MaxEdits + 1]
Statuses   == {"testing", "ready", "failed", "active"}
Steps      == {"build", "test", "start", "health", "hung", "report", "end"}
Deployment == [ws : Dirs, version : 1..MaxEdits + 1, status : Statuses, step : Steps,
               verdict : BOOLEAN, testPort : Ports, prodPort : Ports]

\* What a server that starts has: the saved workspaces, and no deployment.
\* records outlive a deletion, because a running deployment keeps the record.
NewManager ==
  [known |-> {w \in Dirs : redis[w] # Nothing}, records |-> redis,
   deployments |-> <<>>, lock |-> "free", promoted |-> 0]

\* What is left of the manager of a server that is gone.
NoManager == [known |-> {}, records |-> [w \in Dirs |-> Nothing], deployments |-> <<>>,
              lock |-> "free", promoted |-> 0]

\* The production server was started by hand and lists no workspace yet.
Init ==
  /\ tree = [w \in Dirs |-> 1]
  /\ built = [w \in Dirs |-> 0]
  /\ service \in {[p \in Ports |-> IF p = ProdPort THEN [type |-> "self", ws |-> w, version |-> 0]
                                ELSE Nothing] : w \in Dirs}
  /\ starting = [p \in Ports |-> {}]
  /\ nginx = [file |-> ProdPort, live |-> ProdPort]
  /\ redis = [w \in Dirs |-> Nothing]
  /\ manager = [p \in Ports |-> NoManager]
  /\ counts = [edits |-> 0, deploys |-> 0, updates |-> 0, failures |-> 0, crashes |-> 0,
               astray |-> 0]

Room(what, bound) == counts[what] < bound
Events            == counts.edits + counts.updates + counts.failures + counts.crashes
Count(what)       == /\ what \notin {"deploys", "astray"} => Events < MaxEvents
                     /\ counts' = [counts EXCEPT ![what] = @ + 1]
Fails             == Room("failures", MaxFailures) /\ Count("failures")
Works             == UNCHANGED counts

\* The server on port p runs, and its manager's lock is free.
Running(p) == service[p].type = "self"
Locks(p)   == Running(p) /\ manager[p].lock = "free"
Deployed(p) == DOMAIN manager[p].deployments

-----------------------------------------------------------------------------
(* Requests.                                                               *)

\* saveWorkspaceToRedis; an error is only logged.
Save(w, ws) ==
  \/ redis' = [redis EXCEPT ![w] = ws] /\ Works
  \/ redis' = redis /\ Fails

\* CreateWorkspace: an external workspace gets no start command and no health
\* check.  (Bound: a directory that a manager still remembers is not registered
\* again.)
CreateWorkspace(p, w, type) ==
  LET self == type = "self"
      ws   == [type |-> type, test |-> TRUE, start |-> self,
               check |-> IF self THEN "test" ELSE "none"]
  IN /\ Locks(p)
     /\ \A q \in Ports : manager[q].records[w] = Nothing
     /\ manager' = [manager EXCEPT ![p].known = @ \cup {w}, ![p].records[w] = ws]
     /\ Save(w, ws)
     /\ UNCHANGED <<tree, built, service, starting, nginx>>

\* UpdateWorkspace: a request sets a command or the health check, to "" among
\* others.  (One that sets several counts as several; the build command stays one
\* that builds.)
Settings(ws) ==
  {[ws EXCEPT !.test = ~@], [ws EXCEPT !.start = ~@]} \cup {[ws EXCEPT !.check = c] : c \in Checks}

UpdateWorkspace(p, w) ==
  /\ Locks(p) /\ w \in manager[p].known
  /\ \E ws \in Settings(manager[p].records[w]) \ {manager[p].records[w]} :
        /\ manager' = [manager EXCEPT ![p].records[w] = ws]
        /\ redis' \in {[redis EXCEPT ![w] = ws], redis}
  /\ Count("updates")
  /\ UNCHANGED <<tree, built, service, starting, nginx>>

\* DeleteWorkspace: its deployments stay, running ones too.
DeleteWorkspace(p, w) ==
  /\ Locks(p) /\ w \in manager[p].known
  /\ manager' = [manager EXCEPT ![p].known = @ \ {w}]
  /\ Save(w, Nothing)
  /\ UNCHANGED <<tree, built, service, starting, nginx>>

\* Mutant: the version is that of the last build, before there is any.
MutDeployToTest(p, w) ==
  /\ Locks(p) /\ w \in manager[p].known
  /\ Room("deploys", MaxDeploys) /\ Count("deploys")
  /\ manager' = [manager EXCEPT ![p].deployments =
       Append(@, [ws |-> w, version |-> built[w], status |-> "testing", step |-> "build",
                  verdict |-> FALSE, testPort |-> TestPort, prodPort |-> ProdPort])]
  /\ UNCHANGED <<tree, built, service, starting, nginx, redis>>

\* DeployToTest: the record, with the version of the directory at this moment
\* (an edit stands for a commit), and a goroutine that executes it.
DeployToTest(p, w) ==
  /\ Locks(p) /\ w \in manager[p].known
  /\ Room("deploys", MaxDeploys) /\ Count("deploys")
  /\ manager' = [manager EXCEPT ![p].deployments =
       Append(@, [ws |-> w, version |-> tree[w], status |-> "testing", step |-> "build",
                  verdict |-> FALSE, testPort |-> TestPort, prodPort |-> ProdPort])]
  /\ UNCHANGED <<tree, built, service, starting, nginx, redis>>

-----------------------------------------------------------------------------
(* executeTestDeployment of deployment d, without the lock but for its     *)
(* last step.                                                              *)

At(p, d, step) ==
  Running(p) /\ d \in Deployed(p) /\ manager[p].deployments[d].step = step

GoTo(p, d, step, verdict) ==
  manager' = [manager EXCEPT ![p].deployments[d] =
                [@ EXCEPT !.step = step, !.verdict = verdict]]

\* 1. runCommand(BuildCmd)
Build(p, d) ==
  LET w == manager[p].deployments[d].ws
  IN /\ At(p, d, "build")
     /\ \/ built' = [built EXCEPT ![w] = tree[w]] /\ GoTo(p, d, "test", FALSE) /\ Works
        \/ built' = built /\ GoTo(p, d, "report", FALSE) /\ Fails
     /\ UNCHANGED <<tree, service, starting, nginx, redis>>

\* 2. runCommand(TestCmd), unless it is ""
Test(p, d) ==
  /\ At(p, d, "test")
  /\ \/ GoTo(p, d, "start", FALSE) /\ Works
     \/ /\ manager[p].records[manager[p].deployments[d].ws].test
        /\ GoTo(p, d, "report", FALSE) /\ Fails
  /\ UNCHANGED <<tree, built, service, starting, nginx, redis>>

\* 3. startService: the shell cannot be started, or goes its way in the
\* background: whether the program comes up is not asked.  Nothing comes of an
\* empty command.
StartService(p, d) ==
  LET dep == manager[p].deployments[d]
      ws  == manager[p].records[dep.ws]
      new == [type |-> ws.type, ws |-> dep.ws, version |-> built[dep.ws]]
  IN /\ At(p, d, "start")
     /\ \/ /\ GoTo(p, d, "health", FALSE) /\ Works
           /\ starting' = IF ws.start THEN [starting EXCEPT ![dep.testPort] = @ \cup {new}]
                                      ELSE starting
        \/ GoTo(p, d, "report", FALSE) /\ Fails /\ starting' = starting
     /\ UNCHANGED <<tree, built, service, nginx, redis>>

\* Mutant: the exit status of curl is ignored.
MutHealthCheck(p, d) ==
  /\ At(p, d, "health")
  /\ GoTo(p, d, "report", TRUE)
  /\ UNCHANGED <<tree, built, service, starting, nginx, redis, counts>>

\* 4. healthCheck: it fails without a URL, or when what it asks does not answer.
\* Whatever is on the test port may answer.
HealthCheck(p, d) ==
  LET dep   == manager[p].deployments[d]
      check == manager[p].records[dep.ws].check
  IN /\ At(p, d, "health")
     /\ \/ GoTo(p, d, "report", FALSE) /\ Works
        \/ /\ check = "test" /\ service[dep.testPort] # Nothing
           /\ GoTo(p, d, "report", TRUE) /\ Works
        \/ check = "other" /\ GoTo(p, d, "report", TRUE) /\ Count("astray")
     /\ UNCHANGED <<tree, built, service, starting, nginx, redis>>

\* runCommand and curl have no timeout: a command may not return.
Hang(p, d) ==
  /\ At(p, d, "build") \/ At(p, d, "test") \/ At(p, d, "health")
  /\ GoTo(p, d, "hung", FALSE) /\ Fails
  /\ UNCHANGED <<tree, built, service, starting, nginx, redis>>

\* Mutant: the status of a failed step is not recorded.
MutUpdateStatus(p, d) ==
  /\ At(p, d, "report") /\ Locks(p)
  /\ manager' = [manager EXCEPT
       ![p].deployments[d].status = IF manager[p].deployments[d].verdict THEN "ready" ELSE @,
       ![p].deployments[d].step = "end"]
  /\ UNCHANGED <<tree, built, service, starting, nginx, redis, counts>>

\* updateDeploymentStatus
UpdateStatus(p, d) ==
  /\ At(p, d, "report") /\ Locks(p)
  /\ manager' = [manager EXCEPT ![p].deployments[d] =
       [@ EXCEPT !.status = IF manager[p].deployments[d].verdict THEN "ready" ELSE "failed",
                 !.step = "end"]]
  /\ UNCHANGED <<tree, built, service, starting, nginx, redis, counts>>

-----------------------------------------------------------------------------
(* PromoteToProduction of deployment d, with the lock held throughout.     *)

Promoting(p, phase) == Running(p) /\ manager[p].lock = phase
Promoted(p)         == manager[p].deployments[manager[p].promoted]

\* updateNginxConfig opens the file, which is empty from here on, or cannot.
Promote(p, d) ==
  /\ Locks(p) /\ d \in Deployed(p)
  /\ manager[p].deployments[d].status = "ready"
  /\ \/ /\ nginx' = [nginx EXCEPT !.file = NoPort]
        /\ manager' = [manager EXCEPT ![p].lock = "write", ![p].promoted = d] /\ Works
     \/ UNCHANGED <<nginx, manager>> /\ Fails
  /\ UNCHANGED <<tree, built, service, starting, redis>>

\* It writes the file; when that fails the promotion ends here, and the file
\* stays as it is.
WriteConfig(p) ==
  /\ Promoting(p, "write")
  /\ \/ /\ nginx' = [nginx EXCEPT !.file = Promoted(p).testPort]
        /\ manager' = [manager EXCEPT ![p].lock = "reload"] /\ Works
     \/ /\ nginx' = nginx
        /\ manager' = [manager EXCEPT ![p].lock = "free", ![p].promoted = 0] /\ Fails
  /\ UNCHANGED <<tree, built, service, starting, redis>>

\* reloadNginx, with the file as it is now; when it fails the promotion ends here,
\* and the file stays.
ReloadNginx(p) ==
  /\ Promoting(p, "reload")
  /\ \/ /\ nginx' = [nginx EXCEPT !.live = nginx.file]
        /\ manager' = [manager EXCEPT ![p].lock = "stop"] /\ Works
     \/ /\ nginx' = nginx
        /\ manager' = [manager EXCEPT ![p].lock = "free", ![p].promoted = 0] /\ Fails
  /\ UNCHANGED <<tree, built, service, starting, redis>>

\* stopService kills what listens on the old port: this very server, when it
\* is the one there.  (And who is connected to it: nginx starts its workers anew.)
StopService(p) ==
  LET old == Promoted(p).prodPort
  IN /\ Promoting(p, "stop")
     /\ service' = [service EXCEPT ![old] = Nothing]
     /\ manager' = [manager EXCEPT ![p].lock = "finish", ![old] = NoManager]
     /\ UNCHANGED <<tree, built, starting, nginx, redis, counts>>

\* Mutant: the deployment stays ready, so it can be promoted again.
MutFinishPromotion(p) ==
  LET d == manager[p].promoted
  IN /\ Promoting(p, "finish")
     /\ manager' = [manager EXCEPT
          ![p].lock = "free", ![p].promoted = 0,
          ![p].deployments[d].testPort = Promoted(p).prodPort,
          ![p].deployments[d].prodPort = Promoted(p).testPort]
     /\ UNCHANGED <<tree, built, service, starting, nginx, redis, counts>>

\* The ports change roles in this deployment's record, which is active now.
FinishPromotion(p) ==
  LET d == manager[p].promoted
  IN /\ Promoting(p, "finish")
     /\ manager' = [manager EXCEPT
          ![p].lock = "free", ![p].promoted = 0,
          ![p].deployments[d] = [@ EXCEPT !.status = "active",
                                          !.testPort = Promoted(p).prodPort,
                                          !.prodPort = Promoted(p).testPort]]
     /\ UNCHANGED <<tree, built, service, starting, nginx, redis, counts>>

-----------------------------------------------------------------------------
(* The world outside.                                                      *)

\* A program that was started listens on its port, if that is free, and a server
\* has a manager; or it exits, because the port is taken or for another reason
\* (there is no directory for its log, ...).
ComesUp(p, s) ==
  /\ s \in starting[p]
  /\ starting' = [starting EXCEPT ![p] = @ \ {s}]
  /\ \/ /\ service[p] = Nothing
        /\ service' = [service EXCEPT ![p] = s]
        /\ manager' = IF s.type = "self" THEN [manager EXCEPT ![p] = NewManager] ELSE manager
     \/ UNCHANGED <<service, manager>>
  /\ UNCHANGED <<tree, built, nginx, redis, counts>>

\* An agent changes the files of a workspace.
Edit(w) ==
  /\ tree' = [tree EXCEPT ![w] = @ + 1]
  /\ Room("edits", MaxEdits) /\ Count("edits")
  /\ UNCHANGED <<built, service, starting, nginx, redis, manager>>

\* A service dies of its own, and with it a manager and its goroutines.
ServiceDies(p) ==
  /\ service[p] # Nothing
  /\ service' = [service EXCEPT ![p] = Nothing]
  /\ manager' = [manager EXCEPT ![p] = NoManager]
  /\ Room("crashes", MaxCrashes) /\ Count("crashes")
  /\ UNCHANGED <<tree, built, starting, nginx, redis>>

\* nginx is restarted by other hands, and reads its file as it is.
NginxRestarts ==
  /\ nginx.live # nginx.file
  /\ nginx' = [nginx EXCEPT !.live = nginx.file]
  /\ UNCHANGED <<tree, built, service, starting, redis, manager, counts>>

Goroutine(p, d) ==
  Build(p, d) \/ Test(p, d) \/ StartService(p, d) \/ HealthCheck(p, d) \/ UpdateStatus(p, d)

Promotion(p) == WriteConfig(p) \/ ReloadNginx(p) \/ StopService(p) \/ FinishPromotion(p)

Next ==
  \/ \E p \in Ports, w \in Dirs :
       \/ UpdateWorkspace(p, w) \/ DeleteWorkspace(p, w) \/ DeployToTest(p, w)
       \/ \E type \in Types : CreateWorkspace(p, w, type)
  \/ \E p \in Ports, d \in 1..MaxDeploys : Goroutine(p, d) \/ Hang(p, d) \/ Promote(p, d)
  \/ \E p \in Ports : Promotion(p) \/ ServiceDies(p) \/ \E s \in starting[p] : ComesUp(p, s)
  \/ \E w \in Dirs : Edit(w)
  \/ NginxRestarts

Spec == Init /\ [][Next]_vars

\* Goroutines and promotions that can go on do: builds, tests and health checks
\* that do not hang end, and so do lsof, kill and nginx -s reload.
FairSpec ==
  /\ Spec
  /\ \A p \in Ports : WF_vars(Promotion(p))
  /\ \A p \in Ports, d \in 1..MaxDeploys : WF_vars(Goroutine(p, d))

-----------------------------------------------------------------------------
(* Correctness.                                                            *)

\* Type invariant.
TypeOK ==
  /\ tree \in [Dirs -> 1..MaxEdits + 1]
  /\ built \in [Dirs -> 0..MaxEdits + 1]
  /\ service \in [Ports -> Service \cup {Nothing}]
  /\ starting \in [Ports -> SUBSET Service]
  /\ nginx \in [file : Ports \cup {NoPort}, live : Ports \cup {NoPort}]
  /\ redis \in [Dirs -> Workspace \cup {Nothing}]
  /\ DOMAIN manager = Ports
  /\ \A p \in Ports :
       /\ manager[p].known \subseteq {w \in Dirs : manager[p].records[w] # Nothing}
       /\ manager[p].records \in [Dirs -> Workspace \cup {Nothing}]
       /\ manager[p].deployments \in Seq(Deployment)
       /\ manager[p].lock = "free" \/ manager[p].promoted \in Deployed(p)

\* No service died of its own, and no deployment got ready by a health check that
\* did not ask the test port.
Undisturbed == counts.crashes = 0 /\ counts.astray = 0

\* PromoteToProduction believes a health check of some time ago.  As long as no
\* service dies of its own and the checks ask the test port, what it believes is
\* still true when it uses it: something listens where a ready deployment was
\* started, and the promotions meanwhile have not killed it.
ReadyIsUp ==
  Undisturbed =>
    \A p \in Ports : Running(p) => \A d \in Deployed(p) :
      manager[p].deployments[d].status = "ready" =>
        service[manager[p].deployments[d].testPort] # Nothing

\* Promotions switch the traffic without an interruption, whichever servers run
\* them, wherever they stop: nginx forwards to a service, and would after a
\* restart too.  stopService, which kills by port, never hits the one that nginx
\* uses.  Left out is what a configuration that is empty, because its write is
\* under way or has failed, does to a nginx that reads it.
StaysUp ==
  Undisturbed =>
    \A port \in {nginx.live, nginx.file} : port # NoPort => service[port] # Nothing

\* executeTestDeployment and a promotion that holds the lock never leave a
\* deployment in testing, as long as its server lives, unless one of its commands
\* never returns.
DeploymentEnds ==
  \A p \in Ports, d \in 1..MaxDeploys :
    LET Testing == /\ Running(p) /\ d \in Deployed(p)
                   /\ manager[p].deployments[d].status = "testing"
    IN Testing ~> ~Testing \/ At(p, d, "hung")

\* docs/WORKSPACE_QUICKSTART.md: after a promotion the new code runs in
\* production.  PromoteToProduction marks a deployment active without knowing
\* which program listens on its port.
PromotedIsServed ==
  [][\A p \in Ports : \A d \in Deployed(p) \cap DOMAIN manager'[p].deployments :
       LET dep == manager[p].deployments[d]
           s   == service'[nginx'.live]
       IN (Undisturbed /\ dep.status = "ready" /\ manager'[p].deployments[d].status = "active") =>
            s # Nothing /\ s.ws = dep.ws /\ s.version >= dep.version]_vars
=============================================================================
