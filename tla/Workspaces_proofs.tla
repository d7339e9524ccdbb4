------------------------- MODULE Workspaces_proofs --------------------------
(***************************************************************************)
(* Proofs about Workspaces, for any directories and any bounds.            *)
(*                                                                         *)
(* A deployment has its ports as DeployToTest gave them until a promotion  *)
(* is finished, and one that may become ready found a service on the test  *)
(* port.  So every promotion that writes a configuration sends nginx to    *)
(* the test port, which nothing kills, and never back; a promotion stops   *)
(* the production port only when nginx has left it, in its file too.       *)
(***************************************************************************)
EXTENDS Workspaces, TLAPS, SequenceTheorems

LockStates == {"free", "write", "reload", "stop", "finish"}

Counts == [edits : Nat, deploys : Nat, updates : Nat, failures : Nat, crashes : Nat, astray : Nat]

Config == [file : Ports \cup {NoPort}, live : Ports \cup {NoPort}]

Manager == [known : SUBSET Dirs, records : [Dirs -> Workspace \cup {Nothing}],
            deployments : Seq(Deployment), lock : LockStates,
            promoted : Nat]

\* A deployment is ready or active only after its goroutine has ended, and has
\* its ports swapped only when it is active.
Sound(dep) ==
  /\ dep.step # "end" => dep.status = "testing"
  /\ dep.status # "active" => dep.testPort = TestPort /\ dep.prodPort = ProdPort

ManagerOK(m) ==
  /\ m \in Manager
  /\ \A w \in m.known : m.records[w] # Nothing
  /\ \A d \in DOMAIN m.deployments :
        Sound(m.deployments[d]) /\ m.records[m.deployments[d].ws] # Nothing
  /\ m.lock # "free" => /\ m.promoted \in DOMAIN m.deployments
                        /\ m.deployments[m.promoted].status = "ready"

StateType ==
  /\ counts \in Counts
  /\ counts.edits <= MaxEdits
  /\ tree \in [Dirs -> Nat] /\ \A w \in Dirs : 1 <= tree[w] /\ tree[w] <= counts.edits + 1
  /\ built \in [Dirs -> 0..MaxEdits + 1]
  /\ service \in [Ports -> Service \cup {Nothing}]
  /\ starting \in [Ports -> SUBSET Service]
  /\ nginx \in Config
  /\ redis \in [Dirs -> Workspace \cup {Nothing}]

Managers == manager = [p \in Ports |-> manager[p]] /\ \A p \in Ports : ManagerOK(manager[p])

\* A health check has found something on the test port.
Checked(dep) == dep.status = "ready" \/ (dep.step = "report" /\ dep.verdict)

Proven == \A p \in Ports : \A d \in Deployed(p) :
            Checked(manager[p].deployments[d]) => service[TestPort] # Nothing

\* nginx leaves the production port, the file first, and does not return.
Switched ==
  /\ nginx.live # NoPort => service[nginx.live] # Nothing
  /\ nginx.file # NoPort => service[nginx.file] # Nothing
  /\ nginx.live # ProdPort => nginx.file # ProdPort
  /\ \A p \in Ports : /\ manager[p].lock # "free" => nginx.file # ProdPort
                      /\ manager[p].lock \in {"stop", "finish"} => nginx.live # ProdPort

TInv == StateType /\ Managers
UpInv == Undisturbed => Proven /\ Switched

USE DEF Ports, Deployed, LockStates, Counts, Config

-----------------------------------------------------------------------------
(* Managers.                                                               *)

LEMMA NotNothing == Nothing \notin Workspace /\ Nothing \notin Service
BY DEF Nothing, Workspace, Service, Types

LEMMA NoManagerOK == ManagerOK(NoManager)
<1>1. NoManager \in Manager
  BY DEF NoManager, Manager
<1> QED BY <1>1 DEF NoManager, ManagerOK

LEMMA NewManagerOK == ASSUME redis \in [Dirs -> Workspace \cup {Nothing}] PROVE ManagerOK(NewManager)
<1>1. NewManager \in Manager
  BY DEF NewManager, Manager
<1> QED BY <1>1 DEF NewManager, ManagerOK

LEMMA DeploymentType ==
  ASSUME NEW m, ManagerOK(m), NEW d \in DOMAIN m.deployments
  PROVE  /\ m.deployments[d] \in Deployment /\ Sound(m.deployments[d]) /\ d \in Nat
         /\ m.deployments[d].ws \in Dirs /\ m.records[m.deployments[d].ws] \in Workspace
<1>1. m.deployments \in Seq(Deployment)
  BY DEF ManagerOK, Manager
<1>2. d \in 1..Len(m.deployments) /\ Len(m.deployments) \in Nat
  BY <1>1, LenProperties
<1>3. m.deployments[d] \in Deployment /\ d \in Nat
  BY <1>1, <1>2, ElementOfSeq
<1>4. m.deployments[d].ws \in Dirs
  BY <1>3 DEF Deployment
<1> QED BY <1>3, <1>4 DEF ManagerOK, Manager

\* A deployment of a manager changes.
Changed(m, d, e, lock, k) ==
  [m EXCEPT !.deployments = [m.deployments EXCEPT ![d] = e], !.lock = lock, !.promoted = k]

LEMMA ChangedOK ==
  ASSUME NEW m, ManagerOK(m), NEW d \in DOMAIN m.deployments, NEW e \in Deployment, Sound(e),
         e.ws = m.deployments[d].ws,
         NEW lock \in LockStates, NEW k \in Nat,
         lock # "free" => k \in DOMAIN m.deployments /\ m.deployments[k].status = "ready" /\ k # d
  PROVE  LET n == Changed(m, d, e, lock, k)
         IN /\ ManagerOK(n) /\ DOMAIN n.deployments = DOMAIN m.deployments
            /\ n.deployments[d] = e /\ n.lock = lock
            /\ \A i \in DOMAIN m.deployments : i # d => n.deployments[i] = m.deployments[i]
<1> DEFINE q == [m.deployments EXCEPT ![d] = e]
           n == [m EXCEPT !.deployments = q, !.lock = lock, !.promoted = k]
<1>1. /\ m.deployments \in Seq(Deployment) /\ d \in 1..Len(m.deployments)
      /\ DOMAIN q = DOMAIN m.deployments
  BY LenProperties DEF ManagerOK, Manager
<1>2. q \in Seq(Deployment) /\ q[d] = e /\ \A i \in DOMAIN m.deployments : i # d => q[i] = m.deployments[i]
  BY <1>1, ExceptSeq
<1> HIDE DEF q
<1>3. /\ n \in Manager /\ n.deployments = q /\ n.known = m.known /\ n.records = m.records
      /\ n.lock = lock /\ n.promoted = k
  BY <1>2 DEF ManagerOK, Manager
<1>4. ManagerOK(n)
  BY <1>1, <1>2, <1>3 DEF ManagerOK
<1>5. n = Changed(m, d, e, lock, k)
  BY DEF Changed, q
<1> HIDE DEF n
<1> QED BY <1>1, <1>2, <1>3, <1>4, <1>5

LEMMA ChangedDeployment ==
  ASSUME NEW m \in Manager, NEW d, NEW e
  PROVE  Changed(m, d, e, m.lock, m.promoted)
           = [m EXCEPT !.deployments = [m.deployments EXCEPT ![d] = e]]
BY DEF Changed, Manager

LEMMA OneManager ==
  ASSUME Managers, NEW p \in Ports, NEW m, ManagerOK(m), manager' = [manager EXCEPT ![p] = m]
  PROVE  /\ Managers' /\ manager'[p] = m
         /\ \A q \in Ports : q # p => manager'[q] = manager[q]
BY DEF Managers

\* Deployment d of p, and p's lock, are all that changes in the managers.
DeploymentOnly(p, d) ==
  /\ Managers'
  /\ DOMAIN manager'[p].deployments = Deployed(p)
  /\ manager'[p].deployments[d].ws = manager[p].deployments[d].ws
  /\ \A i \in Deployed(p) : i # d => manager'[p].deployments[i] = manager[p].deployments[i]
  /\ \A q \in Ports : q # p => manager'[q] = manager[q]

\* A goroutine goes on to another step.
LEMMA GoToOK ==
  ASSUME Managers, NEW p \in Ports, NEW d \in Deployed(p), manager[p].deployments[d].step # "end",
         NEW s \in Steps, s # "end", NEW v \in BOOLEAN, GoTo(p, d, s, v)
  PROVE  /\ DeploymentOnly(p, d) /\ manager'[p].lock = manager[p].lock
         /\ manager'[p].deployments[d].status = "testing"
         /\ manager'[p].deployments[d].step = s /\ manager'[p].deployments[d].verdict = v
<1> DEFINE m == manager[p]
           dep == m.deployments[d]
           e == [dep EXCEPT !.step = s, !.verdict = v]
           n == Changed(m, d, e, m.lock, m.promoted)
<1>1. ManagerOK(m) /\ d \in DOMAIN m.deployments /\ m \in Manager
  BY DEF Managers, ManagerOK
<1>2. m.deployments \in Seq(Deployment) /\ dep \in Deployment /\ Sound(dep) /\ dep.status = "testing"
  BY <1>1, DeploymentType DEF ManagerOK, Manager, Sound
<1>3. /\ e \in Deployment /\ e.ws = dep.ws /\ e.status = "testing" /\ e.step = s /\ e.verdict = v
      /\ e.testPort = dep.testPort /\ e.prodPort = dep.prodPort
  BY <1>2 DEF Deployment
<1>4. Sound(e)
  BY <1>2, <1>3 DEF Sound
<1>5. m.lock \in LockStates /\ m.promoted \in Nat
      /\ (m.lock # "free" => /\ m.promoted \in DOMAIN m.deployments
                             /\ m.deployments[m.promoted].status = "ready" /\ m.promoted # d)
  BY <1>1, <1>2 DEF ManagerOK, Manager
<1>6. manager' = [manager EXCEPT ![p] = n]
  <2>1. manager = [q \in Ports |-> manager[q]]
    BY DEF Managers
  <2>2. n = [m EXCEPT !.deployments = [m.deployments EXCEPT ![d] = e]]
    BY <1>1, ChangedDeployment
  <2> QED BY <1>1, <1>2, <2>1, <2>2 DEF GoTo
<1> HIDE DEF e
<1>7. /\ ManagerOK(n) /\ DOMAIN n.deployments = DOMAIN m.deployments
      /\ n.deployments[d] = e /\ n.lock = m.lock
      /\ \A i \in DOMAIN m.deployments : i # d => n.deployments[i] = m.deployments[i]
  <2>1. e \in Deployment /\ e.ws = m.deployments[d].ws
    BY <1>3
  <2>2. m.lock # "free" => /\ m.promoted \in DOMAIN m.deployments
                           /\ m.deployments[m.promoted].status = "ready" /\ m.promoted # d
    BY <1>5
  <2> HIDE DEF m, dep
  <2> QED BY ONLY <1>1, <1>4, <1>5, <2>1, <2>2, ChangedOK
<1> HIDE DEF n, m
<1>8. Managers' /\ manager'[p] = n /\ \A q \in Ports : q # p => manager'[q] = manager[q]
  BY <1>6, <1>7, OneManager DEF m
<1> QED BY <1>3, <1>7, <1>8 DEF DeploymentOnly, m

\* Nothing goes down and no promotion takes a step.
LEMMA UpSame ==
  ASSUME Proven, Switched, UNCHANGED nginx, nginx \in Config,
         \A q \in Ports : service[q] # Nothing => service'[q] # Nothing,
         \A p \in Ports : manager'[p].lock = manager[p].lock \/ manager'[p].lock = "free",
         \A p \in Ports : \A d \in DOMAIN manager'[p].deployments :
           Checked(manager'[p].deployments[d]) =>
             \/ service'[TestPort] # Nothing
             \/ d \in Deployed(p) /\ Checked(manager[p].deployments[d])
  PROVE  Proven' /\ Switched'
<1>1. Proven'
  BY DEF Proven, Deployed
<1>2. Switched'
  BY DEF Switched
<1> QED BY <1>1, <1>2

-----------------------------------------------------------------------------
(* Requests.                                                               *)

\* Steps that count something other than edits and crashes, or nothing.
LEMMA CountOK ==
  ASSUME StateType, Count("deploys") \/ Count("updates") \/ Count("failures") \/ Works
  PROVE  /\ counts' \in Counts
         /\ counts'.edits = counts.edits /\ Undisturbed' = Undisturbed
BY DEF StateType, Count, Works, Undisturbed

LEMMA RequestOK ==
  ASSUME StateType, UNCHANGED <<tree, built, service, starting, nginx>>,
         redis' \in [Dirs -> Workspace \cup {Nothing}],
         Count("deploys") \/ Count("updates") \/ Count("failures") \/ Works
  PROVE  StateType'
BY CountOK DEF StateType

\* A manager's deployments and lock stay.
LEMMA RequestUp ==
  ASSUME StateType, UpInv, UNCHANGED <<service, nginx>>, Undisturbed' = Undisturbed,
         \A p \in Ports : /\ manager'[p].lock = manager[p].lock
                          /\ manager'[p].deployments = manager[p].deployments
  PROVE  UpInv'
<1>1. nginx \in Config
  BY DEF StateType
<1> QED BY <1>1, UpSame DEF UpInv

LEMMA SaveOK ==
  ASSUME StateType, NEW w \in Dirs, NEW ws \in Workspace \cup {Nothing}, Save(w, ws)
  PROVE  /\ redis' \in [Dirs -> Workspace \cup {Nothing}]
         /\ Count("failures") \/ Works
BY DEF Save, Fails, StateType

\* The list of workspaces and their records change: records in use are kept.
LEMMA ListOK ==
  ASSUME NEW m, ManagerOK(m), NEW known \in SUBSET Dirs, NEW r \in [Dirs -> Workspace \cup {Nothing}],
         \A w \in known : r[w] # Nothing,
         \A w \in Dirs : m.records[w] # Nothing => r[w] # Nothing
  PROVE  LET n == [m EXCEPT !.known = known, !.records = r]
         IN ManagerOK(n) /\ n.deployments = m.deployments /\ n.lock = m.lock
<1> DEFINE n == [m EXCEPT !.known = known, !.records = r]
<1>1. /\ n \in Manager /\ n.deployments = m.deployments /\ n.known = known /\ n.records = r
      /\ n.lock = m.lock /\ n.promoted = m.promoted
  BY DEF ManagerOK, Manager
<1>2. \A d \in DOMAIN m.deployments : m.deployments[d].ws \in Dirs
  BY DeploymentType
<1> HIDE DEF n
<1>3. ManagerOK(n)
  BY <1>1, <1>2 DEF ManagerOK
<1> QED BY <1>1, <1>3 DEF n

LEMMA CreateOK ==
  ASSUME TInv, UpInv, NEW p \in Ports, NEW w \in Dirs, NEW type \in Types, CreateWorkspace(p, w, type)
  PROVE  TInv' /\ UpInv'
<1> DEFINE ws == [type |-> type, test |-> TRUE, start |-> type = "self",
                  check |-> IF type = "self" THEN "test" ELSE "none"]
           m == manager[p]
           known == m.known \cup {w}
           r == [m.records EXCEPT ![w] = ws]
           n == [m EXCEPT !.known = known, !.records = r]
<1>1. ws \in Workspace /\ ws # Nothing
  <2>1. ws \in Workspace
    BY DEF Workspace, Checks
  <2> QED BY <2>1, NotNothing
<1>2. ManagerOK(m) /\ manager = [q \in Ports |-> manager[q]]
  BY DEF TInv, Managers
<1>3. manager' = [manager EXCEPT ![p] = n] /\ Save(w, ws) /\ UNCHANGED <<tree, built, service, starting, nginx>>
  BY <1>2 DEF CreateWorkspace
<1> HIDE DEF ws
<1>4. /\ known \in SUBSET Dirs /\ r \in [Dirs -> Workspace \cup {Nothing}]
      /\ \A v \in known : r[v] # Nothing
      /\ \A v \in Dirs : m.records[v] # Nothing => r[v] # Nothing
  BY <1>1, <1>2 DEF ManagerOK, Manager
<1> HIDE DEF m, known, r
<1>5. ManagerOK(n) /\ n.deployments = m.deployments /\ n.lock = m.lock
  BY <1>2, <1>4, ListOK
<1> HIDE DEF n
<1>6. /\ Managers' /\ manager'[p] = n /\ \A q \in Ports : q # p => manager'[q] = manager[q]
  BY <1>3, <1>5, OneManager DEF TInv
<1>7. StateType' /\ Undisturbed' = Undisturbed
  BY <1>1, <1>3, SaveOK, RequestOK, CountOK DEF TInv
<1> QED BY <1>3, <1>5, <1>6, <1>7, RequestUp DEF TInv, m

LEMMA UpdateOK ==
  ASSUME TInv, UpInv, NEW p \in Ports, NEW w \in Dirs, UpdateWorkspace(p, w)
  PROVE  TInv' /\ UpInv'
<1>0. PICK ws \in Settings(manager[p].records[w]) :
        /\ manager' = [manager EXCEPT ![p].records[w] = ws]
        /\ redis' \in {[redis EXCEPT ![w] = ws], redis}
  BY DEF UpdateWorkspace
<1> DEFINE m == manager[p]
           known == m.known
           r == [m.records EXCEPT ![w] = ws]
           n == [m EXCEPT !.known = known, !.records = r]
<1>1. ManagerOK(m) /\ manager = [q \in Ports |-> manager[q]] /\ w \in m.known
  BY DEF TInv, Managers, UpdateWorkspace
<1>2. ws \in Workspace /\ ws # Nothing
  <2>1. m.records[w] \in Workspace
    BY <1>1 DEF ManagerOK, Manager
  <2>2. ws \in Workspace
    BY <1>0, <2>1 DEF Workspace, Settings, Checks
  <2> QED BY <2>2, NotNothing
<1>3. /\ manager' = [manager EXCEPT ![p] = n] /\ UNCHANGED <<tree, built, service, starting, nginx>>
      /\ redis' \in {[redis EXCEPT ![w] = ws], redis} /\ Count("updates")
  <2>1. n = [m EXCEPT !.records = r]
    BY <1>1 DEF ManagerOK, Manager
  <2> QED BY <1>0, <1>1, <2>1 DEF UpdateWorkspace
<1>4. /\ known \in SUBSET Dirs /\ r \in [Dirs -> Workspace \cup {Nothing}]
      /\ \A v \in known : r[v] # Nothing
      /\ \A v \in Dirs : m.records[v] # Nothing => r[v] # Nothing
  BY <1>1, <1>2 DEF ManagerOK, Manager
<1> HIDE DEF m, known, r
<1>5. ManagerOK(n) /\ n.deployments = m.deployments /\ n.lock = m.lock
  BY <1>1, <1>4, ListOK
<1> HIDE DEF n
<1>6. /\ Managers' /\ manager'[p] = n /\ \A q \in Ports : q # p => manager'[q] = manager[q]
  BY <1>3, <1>5, OneManager DEF TInv
<1>7. redis' \in [Dirs -> Workspace \cup {Nothing}]
  BY <1>2, <1>3 DEF TInv, StateType
<1>8. StateType' /\ Undisturbed' = Undisturbed
  BY <1>3, <1>7, RequestOK, CountOK DEF TInv
<1> QED BY <1>3, <1>5, <1>6, <1>8, RequestUp DEF TInv, m

LEMMA DeleteOK ==
  ASSUME TInv, UpInv, NEW p \in Ports, NEW w \in Dirs, DeleteWorkspace(p, w) PROVE TInv' /\ UpInv'
<1> DEFINE m == manager[p]
           known == m.known \ {w}
           r == m.records
           n == [m EXCEPT !.known = known, !.records = r]
<1>1. ManagerOK(m) /\ manager = [q \in Ports |-> manager[q]]
  BY DEF TInv, Managers
<1>2. manager' = [manager EXCEPT ![p] = n] /\ Save(w, Nothing) /\ UNCHANGED <<tree, built, service, starting, nginx>>
  <2>1. n = [m EXCEPT !.known = known]
    BY <1>1 DEF ManagerOK, Manager
  <2> QED BY <1>1, <2>1 DEF DeleteWorkspace
<1>3. /\ known \in SUBSET Dirs /\ r \in [Dirs -> Workspace \cup {Nothing}]
      /\ \A v \in known : r[v] # Nothing
      /\ \A v \in Dirs : m.records[v] # Nothing => r[v] # Nothing
  BY <1>1 DEF ManagerOK, Manager
<1> HIDE DEF m, known, r
<1>4. ManagerOK(n) /\ n.deployments = m.deployments /\ n.lock = m.lock
  BY <1>1, <1>3, ListOK
<1> HIDE DEF n
<1>5. /\ Managers' /\ manager'[p] = n /\ \A q \in Ports : q # p => manager'[q] = manager[q]
  BY <1>2, <1>4, OneManager DEF TInv
<1>6. StateType' /\ Undisturbed' = Undisturbed
  BY <1>2, SaveOK, RequestOK, CountOK DEF TInv
<1> QED BY <1>2, <1>4, <1>5, <1>6, RequestUp DEF TInv, m

LEMMA DeployOK ==
  ASSUME TInv, UpInv, NEW p \in Ports, NEW w \in Dirs, DeployToTest(p, w) PROVE TInv' /\ UpInv'
<1> DEFINE m == manager[p]
           dep == [ws |-> w, version |-> tree[w], status |-> "testing", step |-> "build",
                   verdict |-> FALSE, testPort |-> TestPort, prodPort |-> ProdPort]
           q == Append(m.deployments, dep)
           n == [m EXCEPT !.deployments = q]
<1>1. ManagerOK(m) /\ manager = [v \in Ports |-> manager[v]] /\ w \in m.known
  BY DEF TInv, Managers, DeployToTest
<1>2. dep \in Deployment /\ Sound(dep) /\ ~Checked(dep)
  <2>1. tree[w] \in 1..MaxEdits + 1
    BY BoundsType DEF TInv, StateType
  <2> QED BY <2>1 DEF Deployment, Statuses, Steps, Sound, Checked
<1>3. /\ manager' = [manager EXCEPT ![p] = n] /\ UNCHANGED <<tree, built, service, starting, nginx, redis>>
      /\ Count("deploys") /\ dep.ws = w
  BY <1>1 DEF DeployToTest
<1> HIDE DEF dep
<1>4. /\ q \in Seq(Deployment) /\ DOMAIN q = DOMAIN m.deployments \cup {Len(m.deployments) + 1}
      /\ q[Len(m.deployments) + 1] = dep
      /\ \A d \in DOMAIN m.deployments : q[d] = m.deployments[d]
  <2>1. m.deployments \in Seq(Deployment)
    BY <1>1 DEF ManagerOK, Manager
  <2>2. /\ q \in Seq(Deployment) /\ Len(q) = Len(m.deployments) + 1
        /\ \A i \in 1..Len(m.deployments) : q[i] = m.deployments[i]
        /\ q[Len(m.deployments) + 1] = dep
    BY <1>2, <2>1, AppendProperties
  <2> HIDE DEF q, m
  <2>3. /\ DOMAIN m.deployments = 1..Len(m.deployments) /\ Len(m.deployments) \in Nat
        /\ DOMAIN q = 1..Len(q)
    BY <2>1, <2>2, LenProperties
  <2>4. DOMAIN q = DOMAIN m.deployments \cup {Len(m.deployments) + 1}
    BY <2>2, <2>3
  <2> QED BY <2>2, <2>3, <2>4
<1> HIDE DEF q
<1>5. n \in Manager /\ n.deployments = q /\ n.lock = m.lock
      /\ n.known = m.known /\ n.records = m.records /\ n.promoted = m.promoted
  BY <1>1, <1>4 DEF ManagerOK, Manager
<1>6. m.records[w] # Nothing
  BY <1>1 DEF ManagerOK
<1> HIDE DEF n
<1>7. ManagerOK(n)
  <2>1. \A d \in DOMAIN q : Sound(q[d]) /\ m.records[q[d].ws] # Nothing
    BY <1>1, <1>2, <1>3, <1>4, <1>6 DEF ManagerOK
  <2>2. m.lock # "free" => m.promoted \in DOMAIN q /\ q[m.promoted].status = "ready"
    BY <1>1, <1>4 DEF ManagerOK
  <2> QED BY <1>1, <1>5, <2>1, <2>2 DEF ManagerOK
<1> HIDE DEF m
<1>8. /\ Managers' /\ manager'[p] = n /\ \A v \in Ports : v # p => manager'[v] = manager[v]
  BY <1>3, <1>7, OneManager DEF TInv
<1>9. StateType' /\ Undisturbed' = Undisturbed
  BY <1>3, RequestOK, CountOK DEF TInv, StateType
<1>10. \A v \in Ports : /\ manager'[v].lock = manager[v].lock
                        /\ \A d \in DOMAIN manager'[v].deployments :
                             Checked(manager'[v].deployments[d]) =>
                               d \in Deployed(v) /\ Checked(manager[v].deployments[d])
  BY <1>2, <1>4, <1>5, <1>8 DEF m
<1>11. nginx \in Config
  BY DEF TInv, StateType
<1>12. UpInv'
  BY <1>3, <1>9, <1>10, <1>11, UpSame DEF UpInv
<1> QED BY <1>8, <1>9, <1>12 DEF TInv

-----------------------------------------------------------------------------
(* Goroutines.                                                             *)

\* Deployment d of p takes a step that leaves the services and nginx alone.
LEMMA DeploymentUp ==
  ASSUME TInv, UpInv, NEW p \in Ports, NEW d \in Deployed(p), DeploymentOnly(p, d),
         manager'[p].lock = manager[p].lock \/ manager'[p].lock = "free",
         UNCHANGED <<service, nginx>>, Undisturbed' = Undisturbed,
         Checked(manager'[p].deployments[d]) =>
           service[TestPort] # Nothing \/ Checked(manager[p].deployments[d])
  PROVE  UpInv'
<1>1. nginx \in Config
  BY DEF TInv, StateType
<1>2. \A v \in Ports : manager'[v].lock = manager[v].lock \/ manager'[v].lock = "free"
  BY DEF DeploymentOnly
<1>3. ASSUME NEW v \in Ports, NEW i \in DOMAIN manager'[v].deployments,
             Checked(manager'[v].deployments[i])
      PROVE  service[TestPort] # Nothing \/ (i \in Deployed(v) /\ Checked(manager[v].deployments[i]))
  BY <1>3 DEF DeploymentOnly
<1> QED BY <1>1, <1>2, <1>3, UpSame DEF UpInv

LEMMA BuildOK ==
  ASSUME TInv, UpInv, NEW p \in Ports, NEW d \in Nat, Build(p, d) PROVE TInv' /\ UpInv'
<1>1. d \in Deployed(p) /\ manager[p].deployments[d].step # "end" /\ manager[p].deployments[d].ws \in Dirs
  BY DeploymentType DEF Build, At, TInv, Managers
<1>2. PICK s \in {"test", "report"} : GoTo(p, d, s, FALSE)
  BY DEF Build
<1>3. /\ DeploymentOnly(p, d) /\ manager'[p].lock = manager[p].lock
      /\ manager'[p].deployments[d].status = "testing" /\ manager'[p].deployments[d].verdict = FALSE
  BY <1>1, <1>2, GoToOK DEF Steps, TInv
<1>4. UNCHANGED <<tree, service, starting, nginx, redis>> /\ (Works \/ Count("failures"))
  BY DEF Build, Fails
<1>5. built' \in [Dirs -> 0..MaxEdits + 1]
  <2>1. \A w \in Dirs : tree[w] \in 0..MaxEdits + 1
    BY BoundsType DEF TInv, StateType
  <2> QED BY <1>1, <2>1 DEF Build, TInv, StateType
<1>6. StateType' /\ Undisturbed' = Undisturbed
  BY <1>4, <1>5, CountOK DEF TInv, StateType
<1>7. ~Checked(manager'[p].deployments[d])
  BY <1>3 DEF Checked
<1> QED BY <1>1, <1>3, <1>4, <1>6, <1>7, DeploymentUp DEF TInv, DeploymentOnly

LEMMA TestOK ==
  ASSUME TInv, UpInv, NEW p \in Ports, NEW d \in Nat, Test(p, d) PROVE TInv' /\ UpInv'
<1>1. d \in Deployed(p) /\ manager[p].deployments[d].step # "end"
  BY DEF Test, At
<1>2. PICK s \in {"start", "report"} : GoTo(p, d, s, FALSE)
  BY DEF Test
<1>3. /\ DeploymentOnly(p, d) /\ manager'[p].lock = manager[p].lock
      /\ manager'[p].deployments[d].status = "testing" /\ manager'[p].deployments[d].verdict = FALSE
  BY <1>1, <1>2, GoToOK DEF Steps, TInv
<1>4. UNCHANGED <<tree, built, service, starting, nginx, redis>> /\ (Works \/ Count("failures"))
  BY DEF Test, Fails
<1>5. StateType' /\ Undisturbed' = Undisturbed
  BY <1>4, RequestOK, CountOK DEF TInv, StateType
<1>6. ~Checked(manager'[p].deployments[d])
  BY <1>3 DEF Checked
<1> QED BY <1>1, <1>3, <1>4, <1>5, <1>6, DeploymentUp DEF TInv, DeploymentOnly

LEMMA HealthOK ==
  ASSUME TInv, UpInv, NEW p \in Ports, NEW d \in Nat, HealthCheck(p, d) PROVE TInv' /\ UpInv'
<1> DEFINE dep == manager[p].deployments[d]
<1>1. d \in Deployed(p) /\ dep.step # "end" /\ dep.testPort = TestPort
  <2>1. d \in Deployed(p) /\ dep.step = "health"
    BY DEF HealthCheck, At
  <2>2. Sound(dep)
    BY <2>1, DeploymentType DEF TInv, Managers
  <2> QED BY <2>1, <2>2 DEF Sound
<1>2. PICK v \in BOOLEAN : /\ GoTo(p, d, "report", v)
                           /\ \/ Works /\ (v => service[TestPort] # Nothing)
                              \/ Count("astray")
  BY <1>1 DEF HealthCheck
<1>3. UNCHANGED <<tree, built, service, starting, nginx, redis>>
  BY DEF HealthCheck
<1>4. /\ DeploymentOnly(p, d) /\ manager'[p].lock = manager[p].lock
      /\ manager'[p].deployments[d].status = "testing" /\ manager'[p].deployments[d].verdict = v
  BY <1>1, <1>2, GoToOK DEF Steps, TInv
<1>5. CASE Count("astray")
  <2>1. /\ counts' \in Counts /\ counts'.edits = counts.edits
        /\ counts'.astray = counts.astray + 1 /\ counts.astray \in Nat
    BY <1>5 DEF TInv, StateType, Count
  <2>2. StateType' /\ ~Undisturbed'
    BY <1>3, <2>1 DEF TInv, StateType, Undisturbed
  <2> QED BY <1>4, <2>2 DEF TInv, UpInv, DeploymentOnly
<1>6. CASE Works /\ (v => service[TestPort] # Nothing)
  <2>1. StateType' /\ Undisturbed' = Undisturbed
    BY <1>3, <1>6 DEF TInv, StateType, Works, Undisturbed
  <2>2. Checked(manager'[p].deployments[d]) => service[TestPort] # Nothing
    BY <1>4, <1>6 DEF Checked
  <2> QED BY <1>1, <1>3, <1>4, <2>1, <2>2, DeploymentUp DEF TInv, DeploymentOnly
<1> QED BY <1>2, <1>5, <1>6

LEMMA HangOK ==
  ASSUME TInv, UpInv, NEW p \in Ports, NEW d \in Nat, Hang(p, d) PROVE TInv' /\ UpInv'
<1>1. /\ d \in Deployed(p) /\ manager[p].deployments[d].step # "end" /\ GoTo(p, d, "hung", FALSE)
      /\ Count("failures") /\ UNCHANGED <<tree, built, service, starting, nginx, redis>>
  BY DEF Hang, At, Fails
<1>2. /\ DeploymentOnly(p, d) /\ manager'[p].lock = manager[p].lock
      /\ manager'[p].deployments[d].status = "testing" /\ manager'[p].deployments[d].verdict = FALSE
  BY <1>1, GoToOK DEF Steps, TInv
<1>3. StateType' /\ Undisturbed' = Undisturbed
  BY <1>1, RequestOK, CountOK DEF TInv, StateType
<1>4. ~Checked(manager'[p].deployments[d])
  BY <1>2 DEF Checked
<1> QED BY <1>1, <1>2, <1>3, <1>4, DeploymentUp DEF TInv, DeploymentOnly

LEMMA StartOK ==
  ASSUME TInv, UpInv, NEW p \in Ports, NEW d \in Nat, StartService(p, d) PROVE TInv' /\ UpInv'
<1> DEFINE dep == manager[p].deployments[d]
           ws == manager[p].records[dep.ws]
           new == [type |-> ws.type, ws |-> dep.ws, version |-> built[dep.ws]]
<1>1. d \in Deployed(p) /\ dep.step # "end" /\ ManagerOK(manager[p])
  BY DEF StartService, At, TInv, Managers
<1>2. ws \in Workspace /\ dep.ws \in Dirs /\ dep.testPort \in Ports
  BY <1>1, DeploymentType DEF Deployment
<1>3. new \in Service
  <2>1. built[dep.ws] \in 0..MaxEdits + 1
    BY <1>2 DEF TInv, StateType
  <2> QED BY <1>2, <2>1 DEF Service, Workspace
<1>4. PICK s \in {"health", "report"} : GoTo(p, d, s, FALSE)
  BY DEF StartService
<1>5. /\ UNCHANGED <<tree, built, service, nginx, redis>> /\ (Works \/ Count("failures"))
      /\ starting' \in {starting, [starting EXCEPT ![dep.testPort] = @ \cup {new}]}
  BY DEF StartService, Fails
<1> HIDE DEF new
<1>6. starting' \in [Ports -> SUBSET Service]
  BY <1>2, <1>3, <1>5 DEF TInv, StateType
<1>7. /\ DeploymentOnly(p, d) /\ manager'[p].lock = manager[p].lock
      /\ manager'[p].deployments[d].status = "testing" /\ manager'[p].deployments[d].verdict = FALSE
  BY <1>1, <1>4, GoToOK DEF Steps, TInv
<1>8. StateType' /\ Undisturbed' = Undisturbed
  BY <1>5, <1>6, CountOK DEF TInv, StateType
<1>9. ~Checked(manager'[p].deployments[d])
  BY <1>7 DEF Checked
<1> QED BY <1>1, <1>5, <1>7, <1>8, <1>9, DeploymentUp DEF TInv, DeploymentOnly

\* A program that comes up takes a port that was empty, and brings a manager that
\* has no deployment.
LEMMA ComesUpOK ==
  ASSUME TInv, UpInv, NEW p \in Ports, NEW s \in starting[p], ComesUp(p, s) PROVE TInv' /\ UpInv'
<1>1. /\ s \in Service /\ service \in [Ports -> Service \cup {Nothing}]
      /\ manager = [q \in Ports |-> manager[q]] /\ \A q \in Ports : ManagerOK(manager[q])
      /\ UNCHANGED <<tree, built, nginx, redis, counts>>
  BY DEF ComesUp, TInv, StateType, Managers
<1>2. PICK sv, m : /\ service' = [service EXCEPT ![p] = sv] /\ manager' = [manager EXCEPT ![p] = m]
                   /\ sv = service[p] \/ (service[p] = Nothing /\ sv = s)
                   /\ m \in {manager[p], NewManager}
  <2>1. service = [service EXCEPT ![p] = service[p]] /\ manager = [manager EXCEPT ![p] = manager[p]]
    BY <1>1
  <2> QED BY <2>1 DEF ComesUp
<1>3. /\ ManagerOK(NewManager) /\ NewManager.lock = "free" /\ DOMAIN NewManager.deployments = {}
  BY NewManagerOK DEF TInv, StateType, NewManager
<1>4. /\ service' \in [Ports -> Service \cup {Nothing}]
      /\ \A q \in Ports : service[q] # Nothing => service'[q] # Nothing
  BY <1>1, <1>2, NotNothing
<1>5. /\ Managers' /\ manager'[p] = m /\ \A q \in Ports : q # p => manager'[q] = manager[q]
  BY <1>1, <1>2, <1>3, OneManager DEF TInv
<1>6. starting' \in [Ports -> SUBSET Service]
  BY DEF ComesUp, TInv, StateType
<1>7. StateType' /\ Undisturbed' = Undisturbed
  BY <1>1, <1>4, <1>6 DEF TInv, StateType, Undisturbed
<1>8. \A q \in Ports : manager'[q].lock = manager[q].lock \/ manager'[q].lock = "free"
  BY <1>2, <1>3, <1>5
<1>9. \A q \in Ports : \A i \in DOMAIN manager'[q].deployments :
        i \in Deployed(q) /\ manager'[q].deployments[i] = manager[q].deployments[i]
  BY <1>2, <1>3, <1>5
<1>10. UpInv'
  BY <1>1, <1>4, <1>7, <1>8, <1>9, UpSame DEF UpInv, TInv, StateType
<1> QED BY <1>5, <1>7, <1>10 DEF TInv

\* What a manager becomes when its deployment d and its lock change.
LEMMA LockOK ==
  ASSUME Managers, NEW p \in Ports, NEW d \in Deployed(p), NEW e \in Deployment, Sound(e),
         e.ws = manager[p].deployments[d].ws,
         NEW lock \in LockStates, NEW k \in Nat,
         lock # "free" => /\ k \in Deployed(p) /\ k # d
                          /\ manager[p].deployments[k].status = "ready",
         manager' = [manager EXCEPT ![p] = Changed(manager[p], d, e, lock, k)]
  PROVE  DeploymentOnly(p, d) /\ manager'[p].deployments[d] = e /\ manager'[p].lock = lock
<1> DEFINE m == manager[p]
           n == Changed(m, d, e, lock, k)
<1>1. ManagerOK(m)
  BY DEF Managers
<1>2. /\ ManagerOK(n) /\ DOMAIN n.deployments = DOMAIN m.deployments
      /\ n.deployments[d] = e /\ n.lock = lock
      /\ \A i \in DOMAIN m.deployments : i # d => n.deployments[i] = m.deployments[i]
  <2> HIDE DEF m
  <2> QED BY <1>1, ChangedOK DEF m
<1>3. manager' = [manager EXCEPT ![p] = n]
  OBVIOUS
<1> HIDE DEF n
<1>4. Managers' /\ manager'[p] = n /\ \A q \in Ports : q # p => manager'[q] = manager[q]
  BY <1>2, <1>3, OneManager
<1> QED BY <1>2, <1>4 DEF DeploymentOnly

LEMMA StatusOK ==
  ASSUME TInv, UpInv, NEW p \in Ports, NEW d \in Nat, UpdateStatus(p, d) PROVE TInv' /\ UpInv'
<1> DEFINE m == manager[p]
           dep == m.deployments[d]
           st == IF dep.verdict THEN "ready" ELSE "failed"
           e == [dep EXCEPT !.status = st, !.step = "end"]
<1>1. /\ d \in Deployed(p) /\ dep.step = "report" /\ m.lock = "free" /\ ManagerOK(m)
      /\ manager = [q \in Ports |-> manager[q]]
  BY DEF UpdateStatus, At, Locks, TInv, Managers
<1>2. dep \in Deployment /\ Sound(dep) /\ dep.status = "testing"
  BY <1>1, DeploymentType DEF Sound
<1>3. /\ e \in Deployment /\ e.ws = dep.ws /\ e.status = st /\ e.step = "end"
      /\ e.testPort = dep.testPort /\ e.prodPort = dep.prodPort
  BY <1>2 DEF Deployment, Statuses, Steps
<1>4. Sound(e)
  BY <1>2, <1>3 DEF Sound
<1>5. manager' = [manager EXCEPT ![p] = Changed(m, d, e, "free", m.promoted)]
  <2>1. Changed(m, d, e, "free", m.promoted) = [m EXCEPT !.deployments = [m.deployments EXCEPT ![d] = e]]
    BY <1>1, ChangedDeployment DEF ManagerOK
  <2> QED BY <1>1, <1>2, <2>1 DEF UpdateStatus
<1>6. UNCHANGED <<tree, built, service, starting, nginx, redis, counts>> /\ m.promoted \in Nat
  BY <1>1 DEF UpdateStatus, ManagerOK, Manager
<1>7. Checked(e) => Checked(dep)
  BY <1>1, <1>2, <1>3 DEF Checked
<1> HIDE DEF e
<1>8. DeploymentOnly(p, d) /\ manager'[p].deployments[d] = e /\ manager'[p].lock = "free"
  BY <1>1, <1>3, <1>4, <1>5, <1>6, LockOK DEF TInv
<1>9. StateType' /\ Undisturbed' = Undisturbed
  BY <1>6 DEF TInv, StateType, Undisturbed
<1> QED BY <1>1, <1>6, <1>7, <1>8, <1>9, DeploymentUp DEF TInv, DeploymentOnly

-----------------------------------------------------------------------------
(* Promotions.                                                             *)

\* The lock of a manager changes.
Locked(m, lock, k) == [m EXCEPT !.lock = lock, !.promoted = k]

LEMMA LockedOK ==
  ASSUME NEW m, ManagerOK(m), NEW lock \in LockStates, NEW k \in Nat,
         lock # "free" => k \in DOMAIN m.deployments /\ m.deployments[k].status = "ready"
  PROVE  LET n == Locked(m, lock, k)
         IN ManagerOK(n) /\ n.deployments = m.deployments /\ n.lock = lock
<1> DEFINE n == Locked(m, lock, k)
<1>1. /\ n \in Manager /\ n.deployments = m.deployments /\ n.known = m.known /\ n.records = m.records
      /\ n.lock = lock /\ n.promoted = k
  BY DEF ManagerOK, Manager, Locked
<1> HIDE DEF n
<1>2. ManagerOK(n)
  BY <1>1 DEF ManagerOK
<1> QED BY <1>1, <1>2 DEF n

\* The promoted deployment is ready, so it has its ports still.
LEMMA PromotedOK ==
  ASSUME TInv, NEW p \in Ports, manager[p].lock # "free"
  PROVE  /\ ManagerOK(manager[p]) /\ manager[p].promoted \in Deployed(p) /\ manager[p].promoted \in Nat
         /\ Promoted(p) \in Deployment /\ Promoted(p).status = "ready" /\ Promoted(p).step = "end"
         /\ Promoted(p).testPort = TestPort /\ Promoted(p).prodPort = ProdPort
<1>1. ManagerOK(manager[p])
  BY DEF TInv, Managers
<1>2. manager[p].promoted \in DOMAIN manager[p].deployments /\ Promoted(p).status = "ready"
  BY <1>1 DEF ManagerOK, Promoted
<1>3. Promoted(p) \in Deployment /\ Sound(Promoted(p)) /\ manager[p].promoted \in Nat
  BY <1>1, <1>2, DeploymentType DEF Promoted
<1> QED BY <1>1, <1>2, <1>3 DEF Sound

LEMMA PromoteOK ==
  ASSUME TInv, UpInv, NEW p \in Ports, NEW d \in Nat, Promote(p, d) PROVE TInv' /\ UpInv'
<1> DEFINE n == [manager[p] EXCEPT !.lock = "write", !.promoted = d]
<1>1. /\ d \in Deployed(p) /\ manager[p].deployments[d].status = "ready" /\ ManagerOK(manager[p])
      /\ manager = [q \in Ports |-> manager[q]] /\ UNCHANGED <<tree, built, service, starting, redis>>
      /\ nginx \in Config
  <2>1. ManagerOK(manager[p]) /\ manager = [q \in Ports |-> manager[q]] /\ nginx \in Config
    BY DEF TInv, Managers, StateType
  <2>2. /\ d \in Deployed(p) /\ manager[p].deployments[d].status = "ready"
        /\ UNCHANGED <<tree, built, service, starting, redis>>
    BY DEF Promote
  <2> QED BY <2>1, <2>2
<1>2. CASE UNCHANGED <<nginx, manager>> /\ Count("failures")
  <2>1. StateType' /\ Undisturbed' = Undisturbed
    BY <1>1, <1>2, CountOK DEF TInv, StateType
  <2> QED BY <1>1, <1>2, <2>1, RequestUp DEF TInv, Managers
<1>3. CASE manager' = [manager EXCEPT ![p] = n] /\ nginx' = [nginx EXCEPT !.file = NoPort] /\ Works
  <2>1. ManagerOK(n) /\ n.deployments = manager[p].deployments /\ n.lock = "write"
    <3>1. PICK m : m = manager[p]
      OBVIOUS
    <3>2. ManagerOK(m) /\ d \in DOMAIN m.deployments /\ m.deployments[d].status = "ready"
      BY <1>1, <3>1
    <3>3. n = Locked(m, "write", d)
      BY <3>1 DEF Locked
    <3> HIDE DEF n
    <3> QED BY <3>1, <3>2, <3>3, LockedOK
  <2> HIDE DEF n
  <2>2. Managers' /\ manager'[p] = n /\ \A q \in Ports : q # p => manager'[q] = manager[q]
    BY <1>3, <2>1, OneManager DEF TInv
  <2>3. StateType' /\ Undisturbed' = Undisturbed
    BY <1>1, <1>3 DEF TInv, StateType, Works, Undisturbed
  <2>4. nginx'.file = NoPort /\ nginx'.live = nginx.live
    BY <1>1, <1>3
  <2>5. ASSUME Proven, Switched PROVE Proven' /\ Switched'
    <3>1. Proven'
      BY <1>1, <2>1, <2>2, <2>5 DEF Proven
    <3>2. Switched'
      BY <1>1, <2>1, <2>2, <2>4, <2>5 DEF Switched, NoPort, ProdPort
    <3> QED BY <3>1, <3>2
  <2> QED BY <2>2, <2>3, <2>5 DEF TInv, UpInv
<1>4. \/ UNCHANGED <<nginx, manager>> /\ Count("failures")
      \/ manager' = [manager EXCEPT ![p] = n] /\ nginx' = [nginx EXCEPT !.file = NoPort] /\ Works
  BY <1>1 DEF Promote, Fails
<1> QED BY <1>2, <1>3, <1>4

LEMMA LockStep ==
  ASSUME Managers, NEW p \in Ports, NEW m, m = manager[p], ManagerOK(m),
         NEW lock \in LockStates, NEW k \in Nat,
         lock # "free" => k \in DOMAIN m.deployments /\ m.deployments[k].status = "ready",
         NEW n, n = Locked(m, lock, k), manager' = [manager EXCEPT ![p] = n]
  PROVE  /\ Managers' /\ manager'[p].lock = lock
         /\ manager'[p].deployments = manager[p].deployments
         /\ \A q \in Ports : q # p => manager'[q] = manager[q]
<1>1. ManagerOK(n) /\ n.deployments = m.deployments /\ n.lock = lock
  BY LockedOK
<1>2. Managers' /\ manager'[p] = n /\ \A q \in Ports : q # p => manager'[q] = manager[q]
  BY <1>1, OneManager
<1> QED BY <1>1, <1>2

\* The lock goes on, or is free again.
Moves(p, lock) ==
  \/ manager' = [manager EXCEPT ![p].lock = lock]
  \/ lock = "free" /\ manager' = [manager EXCEPT ![p].lock = "free", ![p].promoted = 0]

\* A step of a promotion that leaves the services alone.
LEMMA PromotionMoves ==
  ASSUME TInv, NEW p \in Ports, manager[p].lock # "free", NEW lock \in LockStates, Moves(p, lock)
  PROVE  /\ Managers' /\ manager'[p].lock = lock
         /\ manager'[p].deployments = manager[p].deployments
         /\ \A q \in Ports : q # p => manager'[q] = manager[q]
<1>1. PICK m : m = manager[p]
  OBVIOUS
<1>2. manager = [q \in Ports |-> manager[q]] /\ Managers
  BY DEF TInv, Managers
<1>3. /\ ManagerOK(m) /\ m.promoted \in Nat
      /\ m.promoted \in DOMAIN m.deployments /\ m.deployments[m.promoted].status = "ready"
  BY <1>1, PromotedOK DEF Promoted
<1>4. PICK k \in Nat : /\ manager' = [manager EXCEPT ![p] = Locked(m, lock, k)]
                       /\ lock # "free" => k = m.promoted
  <2>1. CASE manager' = [manager EXCEPT ![p].lock = lock]
    <3>1. Locked(m, lock, m.promoted) = [m EXCEPT !.lock = lock]
      BY <1>3 DEF ManagerOK, Manager, Locked
    <3> QED BY <1>1, <1>2, <1>3, <2>1, <3>1
  <2>2. CASE lock = "free" /\ manager' = [manager EXCEPT ![p].lock = "free", ![p].promoted = 0]
    BY <1>1, <1>2, <2>2 DEF Locked
  <2> QED BY <2>1, <2>2 DEF Moves
<1>5. lock # "free" => k \in DOMAIN m.deployments /\ m.deployments[k].status = "ready"
  BY <1>3, <1>4
<1> QED BY <1>1, <1>2, <1>3, <1>4, <1>5, LockStep

LEMMA WriteConfigOK == ASSUME TInv, UpInv, NEW p \in Ports, WriteConfig(p) PROVE TInv' /\ UpInv'
<1>1. /\ manager[p].lock = "write" /\ UNCHANGED <<tree, built, service, starting, redis>>
      /\ nginx \in Config /\ Managers
  BY DEF WriteConfig, Promoting, TInv, StateType
<1>2. /\ ManagerOK(manager[p]) /\ manager[p].promoted \in Deployed(p) /\ manager[p].promoted \in Nat
      /\ manager[p].deployments[manager[p].promoted].status = "ready" /\ Promoted(p).testPort = TestPort
  BY <1>1, PromotedOK DEF Promoted
<1>3. \/ /\ nginx' = [nginx EXCEPT !.file = TestPort] /\ Works
         /\ manager' = [manager EXCEPT ![p].lock = "reload"]
      \/ /\ nginx' = nginx /\ Count("failures")
         /\ manager' = [manager EXCEPT ![p].lock = "free", ![p].promoted = 0]
  BY <1>2 DEF WriteConfig, Fails
<1>4. PICK lock \in {"reload", "free"} :
        /\ Moves(p, lock)
        /\ nginx' \in {nginx, [nginx EXCEPT !.file = TestPort]} /\ (Works \/ Count("failures"))
  BY <1>3 DEF Moves
<1>5. /\ Managers' /\ manager'[p].lock = lock
      /\ manager'[p].deployments = manager[p].deployments
      /\ \A q \in Ports : q # p => manager'[q] = manager[q]
  BY <1>1, <1>4, PromotionMoves
<1>6. StateType' /\ Undisturbed' = Undisturbed
  <2>1. nginx' \in Config
    BY <1>1, <1>4
  <2> QED BY <1>1, <1>4, <2>1, CountOK DEF TInv, StateType
<1>7. ASSUME Proven, Switched PROVE Proven' /\ Switched'
  <2>1. Proven'
    BY <1>1, <1>5, <1>7 DEF Proven
  <2>2. service[TestPort] # Nothing
    BY <1>2, <1>7 DEF Proven, Checked
  <2>3. nginx'.live = nginx.live /\ nginx'.file \in {nginx.file, TestPort}
    BY <1>1, <1>4
  <2>4. nginx.file # ProdPort
    BY <1>1, <1>7 DEF Switched
  <2>5. Switched'
    BY <1>1, <1>5, <1>7, <2>2, <2>3, <2>4 DEF Switched, TestPort, ProdPort
  <2> QED BY <2>1, <2>5
<1> QED BY <1>5, <1>6, <1>7 DEF TInv, UpInv

LEMMA ReloadOK == ASSUME TInv, UpInv, NEW p \in Ports, ReloadNginx(p) PROVE TInv' /\ UpInv'
<1>1. /\ manager[p].lock = "reload" /\ UNCHANGED <<tree, built, service, starting, redis>>
      /\ nginx \in Config /\ Managers
  BY DEF ReloadNginx, Promoting, TInv, StateType
<1>3. PICK lock \in {"stop", "free"} :
        /\ Moves(p, lock)
        /\ \/ nginx' = [nginx EXCEPT !.live = nginx.file]
           \/ lock = "free" /\ nginx' = nginx
        /\ Works \/ Count("failures")
  BY DEF ReloadNginx, Fails, Moves
<1>4. /\ Managers' /\ manager'[p].lock = lock
      /\ manager'[p].deployments = manager[p].deployments
      /\ \A q \in Ports : q # p => manager'[q] = manager[q]
  BY <1>1, <1>3, PromotionMoves
<1>5. StateType' /\ Undisturbed' = Undisturbed
  <2>1. nginx' \in Config
    BY <1>1, <1>3
  <2> QED BY <1>1, <1>3, <2>1, CountOK DEF TInv, StateType
<1>6. ASSUME Proven, Switched PROVE Proven' /\ Switched'
  <2>1. Proven'
    BY <1>1, <1>4, <1>6 DEF Proven
  <2>2. /\ nginx'.file = nginx.file /\ nginx'.live \in {nginx.live, nginx.file}
        /\ lock = "stop" => nginx'.live = nginx.file
    BY <1>1, <1>3
  <2>3. nginx.file # ProdPort
    BY <1>1, <1>6 DEF Switched
  <2>4. \A port \in {nginx'.live, nginx'.file} : port # NoPort => service'[port] # Nothing
    BY <1>1, <1>6, <2>2 DEF Switched
  <2>5. \A q \in Ports : manager'[q].lock \in {"stop", "finish"} => nginx'.live # ProdPort
    BY <1>4, <1>6, <2>2, <2>3 DEF Switched
  <2> QED BY <2>1, <2>2, <2>3, <2>4, <2>5 DEF Switched
<1> QED BY <1>4, <1>5, <1>6 DEF TInv, UpInv

LEMMA StopOK == ASSUME TInv, UpInv, NEW p \in Ports, StopService(p) PROVE TInv' /\ UpInv'
<1> DEFINE m == [manager[p] EXCEPT !.lock = "finish", !.promoted = manager[p].promoted]
           n == IF p = ProdPort THEN NoManager ELSE m
<1>1. /\ manager[p].lock = "stop" /\ UNCHANGED <<tree, built, starting, nginx, redis, counts>>
      /\ manager = [q \in Ports |-> manager[q]] /\ \A q \in Ports : ManagerOK(manager[q])
      /\ service \in [Ports -> Service \cup {Nothing}] /\ nginx \in Config
  BY DEF StopService, Promoting, TInv, Managers, StateType
<1>2. /\ manager[p].promoted \in Nat /\ manager[p].promoted \in Deployed(p)
      /\ manager[p].deployments[manager[p].promoted].status = "ready" /\ Promoted(p).prodPort = ProdPort
  BY <1>1, PromotedOK DEF Promoted
<1>3. ManagerOK(m) /\ m.deployments = manager[p].deployments /\ m.lock = "finish"
  <2>1. PICK v : v = manager[p]
    OBVIOUS
  <2>2. ManagerOK(v) /\ v.promoted \in DOMAIN v.deployments /\ v.promoted \in Nat
        /\ v.deployments[v.promoted].status = "ready"
    BY <1>1, <1>2, <2>1
  <2>3. m = Locked(v, "finish", v.promoted)
    BY <2>1 DEF Locked
  <2> HIDE DEF m
  <2> QED BY <2>1, <2>2, <2>3, LockedOK
<1>4. /\ service' = [service EXCEPT ![ProdPort] = Nothing]
      /\ manager' = [manager EXCEPT ![p] = m, ![ProdPort] = NoManager]
  <2>1. m = [manager[p] EXCEPT !.lock = "finish"]
    BY <1>1 DEF ManagerOK, Manager
  <2>2. /\ service' = [service EXCEPT ![ProdPort] = Nothing]
        /\ manager' = [manager EXCEPT ![p].lock = "finish", ![ProdPort] = NoManager]
    BY <1>2 DEF StopService
  <2> HIDE DEF m
  <2> QED BY <1>1, <2>1, <2>2
<1> HIDE DEF m
<1>5. manager' = [q \in Ports |-> IF q = ProdPort THEN NoManager ELSE IF q = p THEN m ELSE manager[q]]
  BY <1>1, <1>4
<1>6. Managers'
  BY <1>1, <1>3, <1>5, NoManagerOK DEF Managers
<1>7. /\ service' \in [Ports -> Service \cup {Nothing}] /\ service'[TestPort] = service[TestPort]
  BY <1>1, <1>4 DEF TestPort, ProdPort
<1>8. StateType'
  BY <1>1, <1>7 DEF TInv, StateType
<1>9. UpInv'
  <2> SUFFICES ASSUME Undisturbed PROVE Proven' /\ Switched'
    BY <1>1 DEF UpInv, Undisturbed
  <2>1. Proven /\ Switched
    BY DEF UpInv
  <2>2. DOMAIN NoManager.deployments = {} /\ NoManager.lock = "free"
    BY DEF NoManager
  <2>3. Proven'
    BY <1>3, <1>5, <1>7, <2>1, <2>2 DEF Proven
  <2>4. nginx.file # ProdPort /\ nginx.live # ProdPort
    BY <1>1, <2>1 DEF Switched
  <2>5. nginx.file \in {NoPort, TestPort} /\ nginx.live \in {NoPort, TestPort}
    BY <1>1, <2>4
  <2>6. Switched'
    BY <1>1, <1>7, <2>1, <2>4, <2>5 DEF Switched
  <2> QED BY <2>3, <2>6
<1> QED BY <1>6, <1>8, <1>9 DEF TInv

LEMMA FinishOK == ASSUME TInv, UpInv, NEW p \in Ports, FinishPromotion(p) PROVE TInv' /\ UpInv'
<1> DEFINE m == manager[p]
           d == m.promoted
           dep == m.deployments[d]
           e == [dep EXCEPT !.status = "active", !.testPort = dep.prodPort, !.prodPort = dep.testPort]
<1>1. /\ m.lock = "finish" /\ UNCHANGED <<tree, built, service, starting, nginx, redis, counts>>
      /\ manager = [q \in Ports |-> manager[q]] /\ m \in Manager
  BY DEF FinishPromotion, Promoting, TInv, Managers, ManagerOK
<1>2. /\ d \in Deployed(p) /\ dep \in Deployment /\ dep.status = "ready" /\ dep.step = "end"
  BY <1>1, PromotedOK DEF Promoted
<1>3. /\ e \in Deployment /\ e.ws = dep.ws /\ e.status = "active" /\ e.step = "end"
  BY <1>2 DEF Deployment, Statuses
<1>4. Sound(e) /\ ~Checked(e)
  BY <1>3 DEF Sound, Checked
<1>5. manager' = [manager EXCEPT ![p] = Changed(m, d, e, "free", 0)]
  BY <1>1, <1>2 DEF FinishPromotion, Promoted, Changed, Manager
<1> HIDE DEF e
<1>6. DeploymentOnly(p, d) /\ manager'[p].deployments[d] = e /\ manager'[p].lock = "free"
  <2> HIDE DEF d, dep
  <2> QED BY <1>2, <1>3, <1>4, <1>5, LockOK DEF TInv, dep
<1>7. StateType' /\ Undisturbed' = Undisturbed
  BY <1>1 DEF TInv, StateType, Undisturbed
<1> QED BY <1>1, <1>2, <1>4, <1>6, <1>7, DeploymentUp DEF TInv, DeploymentOnly

-----------------------------------------------------------------------------
(* The world outside, and every step.                                      *)

LEMMA EditOK == ASSUME TInv, UpInv, NEW w \in Dirs, Edit(w) PROVE TInv' /\ UpInv'
<1>1. /\ counts' = [counts EXCEPT !["edits"] = @ + 1] /\ counts.edits < MaxEdits
      /\ tree' = [tree EXCEPT ![w] = @ + 1] /\ UNCHANGED <<built, service, starting, nginx, redis, manager>>
  BY DEF Edit, Room, Count
<1>2. /\ counts' \in Counts
      /\ counts'.edits = counts.edits + 1 /\ Undisturbed' = Undisturbed
  BY <1>1 DEF TInv, StateType, Undisturbed
<1>3. counts'.edits <= MaxEdits
  BY <1>1, <1>2, BoundsType DEF TInv, StateType
<1>4. tree' \in [Dirs -> Nat] /\ \A v \in Dirs : 1 <= tree'[v] /\ tree'[v] <= counts'.edits + 1
  BY <1>1, <1>2 DEF TInv, StateType
<1>5. StateType'
  BY <1>1, <1>2, <1>3, <1>4 DEF TInv, StateType
<1>6. UpInv'
  BY <1>1, <1>2, RequestUp DEF TInv
<1> QED BY <1>1, <1>5, <1>6 DEF TInv, Managers

\* What nginx forwards to may die then: the theorems are about no such crash.
LEMMA DiesOK == ASSUME TInv, UpInv, NEW p \in Ports, ServiceDies(p) PROVE TInv' /\ UpInv'
<1>1. /\ counts' = [counts EXCEPT !["crashes"] = @ + 1] /\ UNCHANGED <<tree, built, starting, nginx, redis>>
      /\ service' = [service EXCEPT ![p] = Nothing] /\ manager' = [manager EXCEPT ![p] = NoManager]
  BY DEF ServiceDies, Count
<1>2. /\ counts' \in Counts
      /\ counts'.edits = counts.edits /\ counts'.crashes = counts.crashes + 1 /\ counts.crashes \in Nat
  BY <1>1 DEF TInv, StateType
<1>3. service' \in [Ports -> Service \cup {Nothing}]
  BY <1>1 DEF TInv, StateType
<1>4. StateType'
  BY <1>1, <1>2, <1>3 DEF TInv, StateType
<1>5. Managers'
  BY <1>1, NoManagerOK, OneManager DEF TInv
<1>6. ~Undisturbed'
  BY <1>2 DEF Undisturbed
<1> QED BY <1>4, <1>5, <1>6 DEF TInv, UpInv

LEMMA RestartsOK == ASSUME TInv, UpInv, NginxRestarts PROVE TInv' /\ UpInv'
<1>1. /\ nginx' = [nginx EXCEPT !.live = nginx.file] /\ nginx \in Config
      /\ nginx.live # nginx.file /\ UNCHANGED <<tree, built, service, starting, redis, manager, counts>>
  BY DEF NginxRestarts, TInv, StateType
<1>2. nginx' \in Config /\ nginx'.live = nginx.file /\ nginx'.file = nginx.file
  BY <1>1
<1>3. StateType' /\ Managers'
  BY <1>1, <1>2 DEF TInv, StateType, Managers
<1>4. ASSUME Proven, Switched PROVE Proven' /\ Switched'
  <2>1. Proven'
    BY <1>1, <1>4 DEF Proven
  <2>2. nginx.file = ProdPort => nginx.live = ProdPort
    BY <1>4 DEF Switched
  <2>3. Switched'
    BY <1>1, <1>2, <1>4, <2>2 DEF Switched
  <2> QED BY <2>1, <2>3
<1>5. UpInv'
  BY <1>1, <1>4 DEF UpInv, Undisturbed
<1> QED BY <1>3, <1>5 DEF TInv

LEMMA InitOK == Init => TInv /\ UpInv
<1> SUFFICES ASSUME Init PROVE TInv /\ UpInv
  OBVIOUS
<1>1. Managers
  BY NoManagerOK DEF Init, Managers
<1>2. PICK w \in Dirs : service = [p \in Ports |-> IF p = ProdPort
                                                THEN [type |-> "self", ws |-> w, version |-> 0] ELSE Nothing]
  BY DEF Init
<1>3. [type |-> "self", ws |-> w, version |-> 0] \in Service
  BY BoundsType DEF Service, Types
<1>4. service \in [Ports -> Service \cup {Nothing}] /\ service[ProdPort] # Nothing
  BY <1>2, <1>3, NotNothing
<1>5. StateType
  BY <1>4, BoundsType DEF Init, StateType
<1>6. \A p \in Ports : Deployed(p) = {} /\ manager[p].lock = "free"
  BY DEF Init, NoManager
<1>7. nginx.file = ProdPort /\ nginx.live = ProdPort
  BY DEF Init
<1>8. Proven /\ Switched
  BY <1>4, <1>6, <1>7 DEF Proven, Switched, TestPort, ProdPort
<1> QED BY <1>1, <1>5, <1>8 DEF TInv, UpInv

LEMMA StepOK == TInv /\ UpInv /\ [Next]_vars => TInv' /\ UpInv'
<1> SUFFICES ASSUME TInv, UpInv, [Next]_vars PROVE TInv' /\ UpInv'
  OBVIOUS
<1>1. CASE UNCHANGED vars
  BY <1>1 DEF vars, TInv, UpInv, StateType, Managers, Proven, Switched, Undisturbed
<1>2. CASE \E p \in Ports, w \in Dirs :
             \/ UpdateWorkspace(p, w) \/ DeleteWorkspace(p, w) \/ DeployToTest(p, w)
             \/ \E type \in Types : CreateWorkspace(p, w, type)
  BY <1>2, DeleteOK, DeployOK, CreateOK, UpdateOK
<1>3. CASE \E p \in Ports, d \in 1..MaxDeploys : Goroutine(p, d) \/ Hang(p, d) \/ Promote(p, d)
  <2>1. PICK p \in Ports, d \in Nat : Goroutine(p, d) \/ Hang(p, d) \/ Promote(p, d)
    BY <1>3, BoundsType
  <2> QED BY <2>1, BuildOK, TestOK, StartOK, HealthOK, HangOK, StatusOK, PromoteOK DEF Goroutine
<1>4. CASE \E p \in Ports : Promotion(p) \/ ServiceDies(p) \/ \E s \in starting[p] : ComesUp(p, s)
  BY <1>4, WriteConfigOK, ReloadOK, StopOK, FinishOK, DiesOK, ComesUpOK DEF Promotion
<1>5. CASE \E w \in Dirs : Edit(w)
  BY <1>5, EditOK
<1>6. CASE NginxRestarts
  BY <1>6, RestartsOK
<1> QED BY <1>1, <1>2, <1>3, <1>4, <1>5, <1>6 DEF Next

THEOREM Invariance == Spec => [](TInv /\ UpInv)
BY InitOK, StepOK, PTL DEF Spec

-----------------------------------------------------------------------------
(* Theorems.                                                               *)

\* Every part of the state has its type; what a manager's list and a promotion
\* that holds the lock refer to is there.
THEOREM TypeCorrect == Spec => []TypeOK
<1>1. TInv => TypeOK
  <2> SUFFICES ASSUME TInv PROVE TypeOK
    OBVIOUS
  <2>1. tree \in [Dirs -> 1..MaxEdits + 1]
    <3>1. \A w \in Dirs : tree[w] \in 1..MaxEdits + 1
      BY BoundsType DEF TInv, StateType
    <3> QED BY <3>1 DEF TInv, StateType
  <2>2. DOMAIN manager = Ports
    BY DEF TInv, Managers
  <2>3. ASSUME NEW p \in Ports
        PROVE  /\ manager[p].known \subseteq {w \in Dirs : manager[p].records[w] # Nothing}
               /\ manager[p].records \in [Dirs -> Workspace \cup {Nothing}]
               /\ manager[p].deployments \in Seq(Deployment)
               /\ manager[p].lock = "free" \/ manager[p].promoted \in Deployed(p)
    <3>1. ManagerOK(manager[p])
      BY DEF TInv, Managers
    <3> QED BY <3>1 DEF ManagerOK, Manager
  <2> QED BY <2>1, <2>2, <2>3 DEF TypeOK, TInv, StateType
<1> QED BY <1>1, Invariance, PTL

\* What PromoteToProduction believes of a health check in the past is true: as
\* long as no service dies of its own and health checks ask the test port, a
\* ready deployment has a service on the port it was started on, whatever fails,
\* hangs, comes up late or is promoted meanwhile.
THEOREM ReadyStaysUp == Spec => []ReadyIsUp
<1>1. TInv /\ UpInv => ReadyIsUp
  <2> SUFFICES ASSUME TInv, UpInv, Undisturbed, NEW p \in Ports, NEW d \in Deployed(p),
                      manager[p].deployments[d].status = "ready"
               PROVE  service[manager[p].deployments[d].testPort] # Nothing
    BY DEF ReadyIsUp
  <2>1. manager[p].deployments[d].testPort = TestPort
    BY DeploymentType DEF TInv, Managers, Sound
  <2> QED BY <2>1 DEF UpInv, Proven, Checked
<1> QED BY <1>1, Invariance, PTL

\* Promotions, by whichever server and wherever they stop, never interrupt the
\* traffic: nginx forwards to a service, and would after a restart, as long as no
\* service dies of its own, health checks ask the test port, and nginx does not
\* read a configuration whose write is under way or has failed.
THEOREM TrafficStaysUp == Spec => []StaysUp
<1>1. UpInv => StaysUp
  BY DEF UpInv, Switched, StaysUp
<1> QED BY <1>1, Invariance, PTL
=============================================================================
