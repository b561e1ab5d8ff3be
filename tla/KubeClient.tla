----------------------------- MODULE KubeClient -----------------------------
(***************************************************************************)
(* internal/kubeclient: UpgradeRolling, UpgradeRecreate and                *)
(* ApplyCanaryPatch as sequences of calls to the Kubernetes API server, by *)
(* several pollers and rollback handlers at once, for the services of one  *)
(* namespace. RollbackToTag and ApplyStablePatch are UpgradeRolling.       *)
(*                                                                         *)
(* The API server is external: reads and writes of one object are atomic,  *)
(* a create fails if the object exists, an update fails if the copy is     *)
(* stale or the object invalid.                                            *)
(***************************************************************************)
EXTENDS Naturals

CONSTANTS
  Caller,       \* rollout calls; a caller's image is named by the caller
  Service,      \* services with deployments in the namespace
  Task,         \* what a call may be asked to do
  InitObject,   \* deployments that may exist when the first call begins
  Nothing,      \* no such object, no such copy
  Foreign,      \* the image of a deployment that MAMS did not create
  Faults,       \* TRUE if a call to the API server may fail
  MaxMeddling   \* bound on the steps of others: controllers, operators

Track == {"stable", "canary"}
DeploymentName == Service \X Track
Strategy == {"RollingUpdate", "Recreate"}

\* A deployment: the image of its container "app" (hasApp: is there one), the
\* strategy, its rollingUpdate parameters, and the resourceVersion.
Object ==
  [image : Caller \cup {Foreign}, hasApp : BOOLEAN, strategy : Strategy,
   params : BOOLEAN, rv : Nat]

ASSUME TaskAssumption ==
  Task \subseteq [service : Service, kind : {"rolling", "recreate", "canary"}]
\* What the API server holds at first is valid, has its defaults filled in, and is
\* older than what it will hold.
ASSUME ObjectAssumption ==
  \A o \in InitObject :
    o = Nothing \/ (o \in Object /\ o.rv <= 1 /\ (o.params <=> o.strategy = "RollingUpdate"))
ASSUME NothingAssumption == Nothing \notin Object \cup Caller \cup {Foreign}
ASSUME BoundAssumption == Faults \in BOOLEAN /\ MaxMeddling \in Nat

VARIABLES
  task,     \* task[c]: fixed
  pc,       \* pc[c]: the next API call of c
  stableCopy, canaryCopy, \* the deployments as c read them
  ns,       \* does the namespace exist
  secret,   \* does the image pull secret exist
  object,   \* object[s, t]: the deployments
  revision, \* the API server's revision, the source of resourceVersions
  faults,   \* has any call to the API server failed by itself
  meddled   \* steps taken by others

callerVars == <<task, pc, stableCopy, canaryCopy>>
clusterVars == <<ns, secret, object, revision>>
vars == <<callerVars, clusterVars, faults, meddled>>

Stage ==
  {"idle", "getNamespace", "createNamespace", "getStable", "getCanary", "getSecret",
   "createSecret", "create", "createCanary", "update", "ok", "error"}

TypeOK ==
  /\ task \in [Caller -> Task]
  /\ pc \in [Caller -> Stage]
  /\ stableCopy \in [Caller -> Object \cup {Nothing}]
  /\ canaryCopy \in [Caller -> Object \cup {Nothing}]
  /\ ns \in BOOLEAN /\ secret \in BOOLEAN
  /\ object \in [DeploymentName -> Object \cup {Nothing}]
  /\ revision \in Nat
  /\ faults \in BOOLEAN
  /\ meddled \in 0..MaxMeddling

\* Any deployments may be there, with or without namespace secrets, but none
\* without the namespace.
Init ==
  /\ task \in [Caller -> Task]
  /\ pc = [c \in Caller |-> "idle"]
  /\ stableCopy = [c \in Caller |-> Nothing]
  /\ canaryCopy = [c \in Caller |-> Nothing]
  /\ ns \in BOOLEAN
  /\ secret = FALSE
  /\ object \in [DeploymentName -> InitObject]
  /\ ~ns => \A d \in DeploymentName : object[d] = Nothing
  /\ revision = 1
  /\ faults = FALSE
  /\ meddled = 0
-----------------------------------------------------------------------------
IsCanary(c) == task[c].kind = "canary"

\* The deployment a call is to write.
Target(c) == <<task[c].service, IF IsCanary(c) THEN "canary" ELSE "stable">>
Stable(c) == object[<<task[c].service, "stable">>]

Goto(c, stage) == pc' = [pc EXCEPT ![c] = stage]

\* A call that fails by itself: an error the code only hands up.
CallFails(c) ==
  /\ Faults
  /\ pc[c] \notin {"idle", "getCanary", "ok", "error"}
  /\ Goto(c, "error")
  /\ faults' = TRUE
  /\ UNCHANGED <<task, stableCopy, canaryCopy, clusterVars, meddled>>

\* A write is acknowledged, or it is made and the answer is lost.
Acknowledged(c, stage) ==
  \/ Goto(c, stage) /\ UNCHANGED faults
  \/ Faults /\ Goto(c, "error") /\ faults' = TRUE

Begin(c) ==
  /\ pc[c] = "idle"
  /\ Goto(c, "getNamespace")
  /\ UNCHANGED <<task, stableCopy, canaryCopy, clusterVars, faults, meddled>>

\* ensureNamespace
CreatesUnseen == "createNamespace"
AfterGetNamespace == IF ns THEN "getStable" ELSE "createNamespace"

GetNamespace(c) ==
  /\ pc[c] = "getNamespace"
  /\ Goto(c, AfterGetNamespace)
  /\ UNCHANGED <<task, stableCopy, canaryCopy, clusterVars, faults, meddled>>

\* Losing the race for the namespace is an error.
CreateNamespace(c) ==
  /\ pc[c] = "createNamespace"
  /\ \/ ~ns /\ ns' = TRUE /\ Acknowledged(c, "getStable")
     \/ ns /\ Goto(c, "error") /\ UNCHANGED <<ns, faults>>
  /\ UNCHANGED <<task, stableCopy, canaryCopy, secret, object, revision, meddled>>

\* Where the answer to the first Get of a deployment leads.
AfterGetStable(c, found) ==
  IF found = Nothing
    THEN IF IsCanary(c) THEN "error" ELSE "getSecret"
  ELSE IF IsCanary(c) THEN "getCanary"
  ELSE IF found.hasApp THEN "update" ELSE "error"

GetStable(c) ==
  /\ pc[c] = "getStable"
  /\ stableCopy' = [stableCopy EXCEPT ![c] = Stable(c)]
  /\ Goto(c, AfterGetStable(c, Stable(c)))
  /\ UNCHANGED <<task, canaryCopy, clusterVars, faults, meddled>>

\* Any error of this Get, not only NotFound, is taken for "no canary yet".
GetCanary(c) ==
  LET createIt == IF stableCopy[c].hasApp THEN "createCanary" ELSE "error"
      found == object[Target(c)]
  IN  /\ pc[c] = "getCanary"
      /\ \/ /\ canaryCopy' = [canaryCopy EXCEPT ![c] = found]
            /\ Goto(c, IF found = Nothing THEN createIt
                       ELSE IF found.hasApp THEN "update" ELSE "error")
            /\ UNCHANGED faults
         \/ /\ Faults /\ faults' = TRUE
            /\ Goto(c, createIt)
            /\ UNCHANGED canaryCopy
      /\ UNCHANGED <<task, stableCopy, clusterVars, meddled>>

\* ensureImagePullSecret, part of createDeployment: here losing the race is
\* no error.
GetSecret(c) ==
  /\ pc[c] = "getSecret"
  /\ Goto(c, IF secret THEN "create" ELSE "createSecret")
  /\ UNCHANGED <<task, stableCopy, canaryCopy, clusterVars, faults, meddled>>

CreateSecret(c) ==
  /\ pc[c] = "createSecret"
  /\ secret' = TRUE
  /\ Acknowledged(c, "create")
  /\ UNCHANGED <<task, stableCopy, canaryCopy, ns, object, revision, meddled>>

\* A write of a deployment takes the next revision as its resourceVersion.
Put(d, o) ==
  /\ revision' = revision + 1
  /\ object' = [object EXCEPT ![d] = [o EXCEPT !.rv = revision']]

\* The API server fills in the rollingUpdate parameters of a rolling strategy.
ImageLeftOut(c, strategy) ==
  [image |-> Nothing, hasApp |-> TRUE, strategy |-> strategy,
   params |-> strategy = "RollingUpdate", rv |-> 0]
NewObject(c, strategy) ==
  [image |-> c, hasApp |-> TRUE, strategy |-> strategy,
   params |-> strategy = "RollingUpdate", rv |-> 0]

CreateDeployment(c) ==
  LET strategy == IF task[c].kind = "recreate" THEN "Recreate" ELSE "RollingUpdate"
  IN  /\ pc[c] = "create"
      /\ \/ /\ object[Target(c)] = Nothing
            /\ Put(Target(c), NewObject(c, strategy))
            /\ Acknowledged(c, "ok")
         \/ /\ object[Target(c)] # Nothing
            /\ Goto(c, "error")
            /\ UNCHANGED <<object, revision, faults>>
      /\ UNCHANGED <<task, stableCopy, canaryCopy, ns, secret, meddled>>

\* A canary is a copy of the stable deployment as read, with its own image.
StableImageKept(c) == stableCopy[c]
CanaryOf(c) == [stableCopy[c] EXCEPT !.image = c]

CreateCanary(c) ==
  /\ pc[c] = "createCanary"
  /\ \/ /\ object[Target(c)] = Nothing
        /\ Put(Target(c), CanaryOf(c))
        /\ Acknowledged(c, "ok")
     \/ /\ object[Target(c)] # Nothing
        /\ Goto(c, "error")
        /\ UNCHANGED <<object, revision, faults>>
  /\ UNCHANGED <<task, stableCopy, canaryCopy, ns, secret, meddled>>

\* The copy an update sends back: only UpgradeRecreate sets the strategy, the
\* API server having put one into every copy that UpgradeRolling reads.
ReadCopy(c) == IF IsCanary(c) THEN canaryCopy[c] ELSE stableCopy[c]
Edited(c) ==
  [ReadCopy(c) EXCEPT
     !.image = c,
     !.strategy = IF task[c].kind = "recreate" THEN "Recreate" ELSE @]

\* What the API server refuses: a stale copy, and a Recreate strategy that
\* still carries rollingUpdate parameters.
VersionNotSent(c) == object[Target(c)] # Nothing
UpToDate(c) == object[Target(c)] # Nothing /\ object[Target(c)].rv = ReadCopy(c).rv
Valid(o) == o.strategy = "Recreate" => ~o.params

Update(c) ==
  LET accepted == UpToDate(c) /\ Valid(Edited(c))
  IN  /\ pc[c] = "update"
      /\ \/ /\ accepted
            /\ Put(Target(c), Edited(c))
            /\ Acknowledged(c, "ok")
         \/ /\ ~accepted
            /\ Goto(c, "error")
            /\ UNCHANGED <<object, revision, faults>>
      /\ UNCHANGED <<task, stableCopy, canaryCopy, ns, secret, meddled>>

\* The deployment controller writes the status of a deployment, which gives it
\* a new resourceVersion.
ControllerTouches(d) ==
  /\ meddled < MaxMeddling /\ meddled' = meddled + 1
  /\ object[d] # Nothing
  /\ Put(d, object[d])
  /\ UNCHANGED <<callerVars, ns, secret, faults>>

\* Somebody deletes a deployment.
OperatorDeletes(d) ==
  /\ meddled < MaxMeddling /\ meddled' = meddled + 1
  /\ object[d] # Nothing
  /\ object' = [object EXCEPT ![d] = Nothing]
  /\ UNCHANGED <<callerVars, ns, secret, revision, faults>>

Next ==
  \/ \E c \in Caller :
       \/ Begin(c) \/ CallFails(c)
       \/ GetNamespace(c) \/ CreateNamespace(c)
       \/ GetStable(c) \/ GetCanary(c)
       \/ GetSecret(c) \/ CreateSecret(c)
       \/ CreateDeployment(c) \/ CreateCanary(c) \/ Update(c)
  \/ \E d \in DeploymentName : ControllerTouches(d) \/ OperatorDeletes(d)

Spec == Init /\ [][Next]_vars
-----------------------------------------------------------------------------
(* Properties.                                                              *)

Ended(c) == pc[c] \in {"ok", "error"}

\* The atomic rollout the release engine relies on: read, decide and write are
\* spread over up to six API calls, raced by other callers, the deployment
\* controller and operators, and yet a call writes at most once, only the
\* deployment it is about, and answers "ok" only after it wrote.
CurrentImage ==
  [d \in DeploymentName |-> IF object[d] = Nothing THEN Nothing ELSE object[d].image]
Answer ==
  [c \in Caller |-> IF pc[c] = "idle" THEN "idle"
                    ELSE IF Ended(c) THEN pc[c] ELSE "running"]

Rollout == INSTANCE KubeRollout
             WITH Deployment <- DeploymentName, target <- [c \in Caller |-> Target(c)],
                  image <- CurrentImage, answer <- Answer

ImplementsRollout == Rollout!RolloutSpec

\* No lost update: whatever an update overwrites is what its caller read, to
\* the last field, however many writes, deletions and re-creations came between.
UpdatesWhatItRead ==
  [][\A c \in Caller :
       (pc[c] = "update" /\ object'[Target(c)] # object[Target(c)] /\ pc'[c] # pc[c])
         => object[Target(c)] = ReadCopy(c)]_vars

\* Concurrent rolling deploys do not all fail: when nobody meddles, no call
\* fails by itself and every deployment can be edited, losing a race (for the
\* namespace, a deployment, a fresh copy) means that another call has won it,
\* and one call at least gets through. Canaries are left out: one that finds no
\* stable deployment gives up after it has won the namespace from a first deploy.
SomeoneSucceeds ==
  ( /\ ~faults /\ meddled = 0
    /\ \A c \in Caller : Ended(c) /\ ~IsCanary(c) /\ (Stable(c) # Nothing => Stable(c).hasApp)
    /\ \E c \in Caller : task[c].kind = "rolling" )
  => \E c \in Caller : pc[c] = "ok"

-----------------------------------------------------------------------------
(* What the documents say and the code does not do.                         *)

\* tor.md:463: deploys work for rolling, recreate and canary. A recreate that
\* nothing disturbs should be carried out.
RecreateWorks ==
  \A c \in Caller : (task[c].kind = "recreate" /\ pc[c] = "error") => faults \/ meddled > 0

\* tor.md:162-165 lists the strategies a deploy may choose from, and client_test.go
\* 102-131 expects a recreate to turn a standing deployment into a Recreate one; its
\* fake API server does not look at rollingUpdate. The code does neither: a rolling
\* deploy sends the strategy back as it read it (client.go 139), and a recreate that
\* would change it is refused (175). This states that divergence in full, as a limit
\* and not as a promise: as long as a deployment stands, no deploy changes its strategy.
StrategyStuck ==
  [][\A d \in DeploymentName :
       (object[d] # Nothing /\ object'[d] # Nothing)
         => object'[d].strategy = object[d].strategy]_vars
=============================================================================
