------------------------------ MODULE Releases ------------------------------
(***************************************************************************)
(* The release engine of MAMS: the HTTP handlers Deploy, Rollback and      *)
(* UpdateFromCI, the background poller that every deploy starts, the       *)
(* releases and services tables they write, and, as far as they are seen   *)
(* from here, GitHub Actions and the Kubernetes cluster.                   *)
(*                                                                         *)
(* Every call to Postgres, GitHub or Kubernetes is a step of its own, so   *)
(* requests, pollers and callbacks interleave between any two calls, and   *)
(* the process may stop there.                                             *)
(***************************************************************************)
EXTENDS Naturals

CONSTANTS
  Request,      \* deploy and rollback requests; a request names the row it creates
  Service,      \* services; each has a repository of its own
  Env,          \* environment names a request may carry
  Tag, Branch,  \* git refs
  Empty,        \* the empty string: an optional field that was left out
  DefaultBranch,\* default_branch of every service
  Input,        \* the request bodies that may arrive
  CallSlot,     \* concurrently running UpdateFromCI handlers
  Reports,      \* kinds of release that anybody reports results of to UpdateFromCI
  MayConflict,  \* may two reports of one release under way contradict each other?
  Faulty,       \* external systems whose calls may fail: "db", "github", "kube"
  MaxCrashes,   \* bound on the number of restarts of the server
  NoImage,      \* a deployment that does not exist
  NoRun,        \* "no workflow run judged yet"
  NoVersion     \* services.version before any release

Kind == {"deploy", "rollback"}

\* What the CHECK constraints of the releases table admit.
DbEnv == {"dev", "staging", "prod"}
DbStrategy == {"rolling", "recreate", "canary", "rollback"}
Terminal == {"success", "failed"}
Status == {"pending", "in_progress"} \cup Terminal

Body ==
  [kind : Kind, service : Service, git_tag : Tag \cup {Empty},
   branch : Branch \cup {Empty}, environment : Env \cup {Empty},
   strategy : DbStrategy \cup {Empty}]

ASSUME InputAssumption == Input \subseteq Body
ASSUME RefAssumption ==
  /\ DefaultBranch \in Branch
  /\ Tag \cap Branch = {}
  /\ Empty \notin Tag \cup Branch \cup Env
ASSUME EnvAssumption == {"dev", "prod"} \subseteq Env
ASSUME ReportsAssumption == Reports \subseteq Kind /\ MayConflict \in BOOLEAN
ASSUME CrashAssumption == MaxCrashes \in Nat

\* An image is named by the workflow run that built it (docker.io/...:HeadSHA)
\* or by a git tag (registry/owner/repo:gitTag).
RunImage == {"run"} \X Request
TagImage == {"tag"} \X Tag
Image == RunImage \cup TagImage \cup {NoImage}

ASSUME FreshAssumption ==
  NoRun \notin Request /\ NoVersion \notin Tag /\ NoImage \notin RunImage \cup TagImage

VARIABLES
  body,     \* body[r]: the body request r arrives with; never changes
  pc,       \* pc[r]: the next call of the handler serving request r
  gate,     \* gate[s]: does s meet its minimum test coverage
  status,   \* status[r]: releases.status of the row r creates
  version,  \* version[s]: services.version
  cluster,  \* cluster[s, e]: images of the stable and the canary deployment
  poll,     \* poll[r]: where the poller of deploy r stands
  judged,   \* judged[r]: the workflow run whose conclusion that poller read
  call,     \* call[h]: an UpdateFromCI handler between two of its calls
  run,      \* run[r]: the workflow run that r dispatched
  older,    \* older[r]: the runs GitHub listed before that of r
  crashes,  \* restarts so far
  applied   \* history: releases whose own rollout call reached the cluster

dbVars == <<status, version>>
githubVars == <<run, older>>
kubeVars == <<cluster, applied>>
pollVars == <<poll, judged>>
vars == <<body, pc, gate, dbVars, kubeVars, pollVars, call, githubVars, crashes>>
-----------------------------------------------------------------------------
(* The row a body becomes: the defaults that Deploy and Rollback fill in.   *)

IsDeploy(r) == body[r].kind = "deploy"

OrElse(field, default) == IF field = Empty THEN default ELSE field

DeployRow(b) ==
  [b EXCEPT !.branch = IF b.git_tag = Empty THEN OrElse(@, DefaultBranch) ELSE @,
            !.environment = OrElse(@, "dev"),
            !.strategy = OrElse(@, "rolling")]

RollbackRow(b) ==
  [b EXCEPT !.branch = Empty,
            !.environment = OrElse(@, "prod"),
            !.strategy = "rollback"]

Row(r) == IF IsDeploy(r) THEN DeployRow(body[r]) ELSE RollbackRow(body[r])

\* The checks of Deploy on the request alone; the branch is the one sent, not
\* the default one.
DeployAllowed(b) ==
  LET env == DeployRow(b).environment
  IN  /\ env = "prod" => b.git_tag # Empty
      /\ env \in {"dev", "staging"} => b.branch # Empty

RollbackAllowed(b) == b.git_tag # Empty

RowAdmitted(row) == row.environment \in DbEnv /\ row.strategy \in DbStrategy

\* The ref a workflow is started on, and the ref its poller asks about.
DispatchRef(r) == OrElse(Row(r).branch, Row(r).git_tag)
PollRef(r) == OrElse(Row(r).git_tag, Row(r).branch)

Place(r) == <<Row(r).service, Row(r).environment>>

\* How a call to an external system may end: `took' says whether it had its
\* effect there, `ok' whether the caller got a success back.
Outcome(system) ==
  {[took |-> TRUE, ok |-> TRUE]} \cup
  IF system \in Faulty
    THEN {[took |-> FALSE, ok |-> FALSE], [took |-> TRUE, ok |-> FALSE]}
    ELSE {}
-----------------------------------------------------------------------------
IdleCall == [at |-> "idle", release |-> NoRun, result |-> "failed"]
Call ==
  [at : {"idle", "update", "version"}, release : Request \cup {NoRun}, result : Terminal]

TypeOK ==
  /\ body \in [Request -> Input]
  /\ pc \in [Request -> {"idle", "kube", "create", "dispatch", "mark", "done"}]
  /\ gate \in [Service -> BOOLEAN]
  /\ status \in [Request -> Status \cup {"none"}]
  /\ version \in [Service -> Tag \cup {NoVersion}]
  /\ cluster \in [Service \X Env -> [stable : Image, canary : Image]]
  /\ poll \in [Request -> {"off", "polling", "apply", "succeed", "fail", "ended"}]
  /\ judged \in [Request -> Request \cup {NoRun}]
  /\ call \in [CallSlot -> Call]
  /\ run \in [Request -> {"none", "queued", "running", "success", "failure"}]
  /\ older \in [Request -> SUBSET Request]
  /\ crashes \in 0..MaxCrashes
  /\ applied \subseteq Request

Init ==
  /\ body \in [Request -> Input]
  /\ pc = [r \in Request |-> "idle"]
  /\ gate = [s \in Service |-> TRUE]
  /\ status = [r \in Request |-> "none"]
  /\ version = [s \in Service |-> NoVersion]
  /\ cluster = [p \in Service \X Env |-> [stable |-> NoImage, canary |-> NoImage]]
  /\ poll = [r \in Request |-> "off"]
  /\ judged = [r \in Request |-> NoRun]
  /\ call = [h \in CallSlot |-> IdleCall]
  /\ run = [r \in Request |-> "none"]
  /\ older = [r \in Request |-> {}]
  /\ crashes = 0
  /\ applied = {}
-----------------------------------------------------------------------------
(* The handlers Deploy and Rollback.                                        *)

\* Any early return: no such service, another organization's service, a body
\* that does not decode or fails a check, a database that does not answer.
Reject(r) ==
  /\ pc[r] = "idle"
  /\ pc' = [pc EXCEPT ![r] = "done"]
  /\ UNCHANGED <<body, gate, dbVars, kubeVars, pollVars, call, githubVars, crashes>>

AcceptDeploy(r) ==
  /\ pc[r] = "idle"
  /\ IsDeploy(r) /\ DeployAllowed(body[r])
  /\ gate[body[r].service]
  /\ pc' = [pc EXCEPT ![r] = "create"]
  /\ UNCHANGED <<body, gate, dbVars, kubeVars, pollVars, call, githubVars, crashes>>

AcceptRollback(r) ==
  /\ pc[r] = "idle"
  /\ ~IsDeploy(r) /\ RollbackAllowed(body[r])
  /\ pc' = [pc EXCEPT ![r] = "kube"]
  /\ UNCHANGED <<body, gate, dbVars, kubeVars, pollVars, call, githubVars, crashes>>

\* Rollback touches the cluster first: the tag's image goes to the stable
\* deployment before a row exists.
ApplyKubeRollback(r) ==
  /\ pc[r] = "kube"
  /\ \E o \in Outcome("kube") :
       /\ cluster' = IF o.took
                       THEN [cluster EXCEPT ![Place(r)].stable = <<"tag", Row(r).git_tag>>]
                       ELSE cluster
       /\ applied' = IF o.took THEN applied \cup {r} ELSE applied
       /\ pc' = [pc EXCEPT ![r] = IF o.ok THEN "create" ELSE "done"]
  /\ UNCHANGED <<body, gate, dbVars, pollVars, call, githubVars, crashes>>

\* The INSERT; a row outside the CHECK constraints is an error like any other.
CreatePending(r) ==
  /\ pc[r] = "create"
  /\ \/ /\ RowAdmitted(Row(r))
        /\ \E o \in Outcome("db") :
             /\ status' = IF o.took THEN [status EXCEPT ![r] = "pending"] ELSE status
             /\ pc' = [pc EXCEPT ![r] = IF o.ok THEN "dispatch" ELSE "done"]
     \/ /\ ~RowAdmitted(Row(r))
        /\ pc' = [pc EXCEPT ![r] = "done"]
        /\ UNCHANGED status
  /\ UNCHANGED <<body, gate, version, kubeVars, pollVars, call, githubVars, crashes>>

\* A failed dispatch leaves the row pending; GitHub may have started the
\* workflow all the same.
DispatchWorkflow(r) ==
  /\ pc[r] = "dispatch"
  /\ \E o \in Outcome("github") :
       /\ run' = IF o.took THEN [run EXCEPT ![r] = "queued"] ELSE run
       /\ pc' = [pc EXCEPT ![r] = IF o.ok THEN "mark" ELSE "done"]
  /\ UNCHANGED <<body, gate, dbVars, kubeVars, pollVars, call, older, crashes>>

\* Only a deploy starts a poller, and only when the update was acknowledged.
RollbackPollsToo(r, o) == o.ok
StartsPoller(r, o) == o.ok /\ IsDeploy(r)

MarkInProgress(r) ==
  /\ pc[r] = "mark"
  /\ \E o \in Outcome("db") :
       /\ status' = IF o.took THEN [status EXCEPT ![r] = "in_progress"] ELSE status
       /\ poll' = IF StartsPoller(r, o) THEN [poll EXCEPT ![r] = "polling"] ELSE poll
  /\ pc' = [pc EXCEPT ![r] = "done"]
  /\ UNCHANGED <<body, gate, version, kubeVars, judged, call, githubVars, crashes>>
-----------------------------------------------------------------------------
(* The poller: waitForWorkflowAndDeploy.                                    *)

Listed(x) == run[x] \in {"running", "success", "failure"}

\* The answer of GetLatestWorkflowRun: the newest run of the repository on
\* that ref, whichever release dispatched it.
IsLatestRun(x, service, ref) ==
  LET onRef(y) == Listed(y) /\ Row(y).service = service /\ DispatchRef(y) = ref
  IN  onRef(x) /\ \A y \in Request : onRef(y) => y \in older[x] \cup {x}

\* Where the conclusion of a completed run takes the poller.
AnyConclusionApplies(x) == "apply"
AfterRun(x) == IF run[x] = "success" THEN "apply" ELSE "fail"

\* A tick that finds a completed run. A tick that finds none, an unfinished
\* one or an error changes nothing.
PollCompletedRun(r) ==
  /\ poll[r] = "polling"
  /\ \E x \in Request :
       /\ IsLatestRun(x, Row(r).service, PollRef(r))
       /\ run[x] \in {"success", "failure"}
       /\ judged' = [judged EXCEPT ![r] = x]
       /\ poll' = [poll EXCEPT ![r] = AfterRun(x)]
  /\ UNCHANGED <<body, pc, gate, dbVars, kubeVars, call, githubVars, crashes>>

\* The ten minutes are over, whatever GitHub has answered so far.
TimesOutOnAnyRun(r) ==
  poll[r] = "polling" /\ \E x \in Request : IsLatestRun(x, Row(r).service, PollRef(r))
TimesOut(r) == poll[r] = "polling"

PollTimeout(r) ==
  /\ TimesOut(r)
  /\ poll' = [poll EXCEPT ![r] = "fail"]
  /\ UNCHANGED <<body, pc, gate, dbVars, kubeVars, judged, call, githubVars, crashes>>

\* Where the outcome of the rollout takes the poller.
RolloutErrorIgnored(o) == "succeed"
RolloutErrorReturns(o) == IF o.ok THEN "succeed" ELSE "ended"
AfterRollout(o) == IF o.ok THEN "succeed" ELSE "fail"

\* ApplyCanaryPatch gives up without a stable deployment to copy.
MayRollOut(r) == Row(r).strategy = "canary" => cluster[Place(r)].stable # NoImage

\* deployToK8s with the image of the judged run. A canary needs a stable
\* deployment beside it; every other strategy writes the stable deployment.
DeployToK8s(r) ==
  LET image == <<"run", judged[r]>>
  IN  /\ poll[r] = "apply"
      /\ \/ /\ MayRollOut(r)
            /\ \E o \in Outcome("kube") :
                 /\ cluster' =
                      IF ~o.took THEN cluster
                      ELSE IF Row(r).strategy = "canary"
                        THEN [cluster EXCEPT ![Place(r)].canary = image]
                        ELSE [cluster EXCEPT ![Place(r)].stable = image]
                 /\ applied' = IF o.took THEN applied \cup {r} ELSE applied
                 /\ poll' = [poll EXCEPT ![r] = AfterRollout(o)]
         \/ /\ ~MayRollOut(r)
            /\ poll' = [poll EXCEPT ![r] = "fail"]
            /\ UNCHANGED kubeVars
      /\ UNCHANGED <<body, pc, gate, dbVars, judged, call, githubVars, crashes>>

\* The poller's last call writes the result whatever the row holds by now, and
\* an error is ignored. It never touches services.version.
RecordResult(r) ==
  /\ poll[r] \in {"succeed", "fail"}
  /\ \E o \in Outcome("db") :
       status' = IF o.took
                   THEN [status EXCEPT ![r] = IF poll[r] = "succeed" THEN "success" ELSE "failed"]
                   ELSE status
  /\ poll' = [poll EXCEPT ![r] = "ended"]
  /\ UNCHANGED <<body, pc, gate, version, kubeVars, judged, call, githubVars, crashes>>
-----------------------------------------------------------------------------
(* UpdateFromCI and MarkResult: three calls, nothing holds them together.   *)

\* MarkResult takes two results, and those only for a row in progress.
AnyTarget(result) == TRUE
ValidTarget(result) == result \in Terminal
AnyRowTakesResult(r) == status[r] # "none"
TakesResult(r) == status[r] = "in_progress"

\* What may be sent to the route: any status, at any time, before the run has ended
\* too. A run of TLC or a theorem may suppose less of the senders.
Sent(r, result) ==
  /\ body[r].kind \in Reports
  /\ MayConflict \/ \A h \in CallSlot : call[h].release = r => call[h].result = result

\* A report arrives, any number of times, and GetByID finds the row in
\* progress. In every other state the report is refused and nothing changes.
ReceiveReport(h, r, result) ==
  /\ call[h].at = "idle"
  /\ Sent(r, result)
  /\ ValidTarget(result) /\ TakesResult(r)
  /\ call' = [call EXCEPT ![h] = [at |-> "update", release |-> r, result |-> result]]
  /\ UNCHANGED <<body, pc, gate, dbVars, kubeVars, pollVars, githubVars, crashes>>

\* The second write of MarkResult is made only for a successful tagged release.
FailureBumpsToo(c) == Row(c.release).git_tag # Empty
BumpsVersion(c) == c.result = "success" /\ Row(c.release).git_tag # Empty

\* UpdateStatus does not look at the status it replaces.
StoreReport(h) ==
  /\ call[h].at = "update"
  /\ \E o \in Outcome("db") :
       /\ status' = IF o.took THEN [status EXCEPT ![call[h].release] = call[h].result] ELSE status
       /\ call' = [call EXCEPT ![h] =
                     IF o.ok /\ BumpsVersion(call[h])
                       THEN [@ EXCEPT !.at = "version"]
                       ELSE IdleCall]
  /\ UNCHANGED <<body, pc, gate, version, kubeVars, pollVars, githubVars, crashes>>

UpdateServiceVersion(h) ==
  /\ call[h].at = "version"
  /\ LET row == Row(call[h].release)
     IN  \E o \in Outcome("db") :
           version' = IF o.took THEN [version EXCEPT ![row.service] = row.git_tag] ELSE version
  /\ call' = [call EXCEPT ![h] = IdleCall]
  /\ UNCHANGED <<body, pc, gate, status, kubeVars, pollVars, githubVars, crashes>>
-----------------------------------------------------------------------------
(* The environment: GitHub, the settings of a service, the process.         *)

RunListed(r) ==
  /\ run[r] = "queued"
  /\ run' = [run EXCEPT ![r] = "running"]
  /\ older' = [older EXCEPT ![r] = {y \in Request : Listed(y)}]
  /\ UNCHANGED <<body, pc, gate, dbVars, kubeVars, pollVars, call, crashes>>

RunEnds(r) ==
  /\ run[r] = "running"
  /\ \E conclusion \in {"success", "failure"} : run' = [run EXCEPT ![r] = conclusion]
  /\ UNCHANGED <<body, pc, gate, dbVars, kubeVars, pollVars, call, older, crashes>>

\* The service's coverage, its threshold or the switch of the check changes.
CoverageChange(s) ==
  /\ gate' = [gate EXCEPT ![s] = ~@]
  /\ UNCHANGED <<body, pc, dbVars, kubeVars, pollVars, call, githubVars, crashes>>

\* The server stops and starts again: requests in flight, pollers and callback
\* handlers are gone, and nothing at startup looks for unfinished releases.
Restart ==
  /\ crashes < MaxCrashes
  /\ crashes' = crashes + 1
  /\ pc' = [r \in Request |-> IF pc[r] = "idle" THEN "idle" ELSE "done"]
  /\ poll' = [r \in Request |-> IF poll[r] = "off" THEN "off" ELSE "ended"]
  /\ call' = [h \in CallSlot |-> IdleCall]
  /\ UNCHANGED <<body, gate, dbVars, kubeVars, judged, githubVars>>
-----------------------------------------------------------------------------
HandlerCall(r) ==
  \/ ApplyKubeRollback(r) \/ CreatePending(r) \/ DispatchWorkflow(r) \/ MarkInProgress(r)

PollTick(r) == PollCompletedRun(r) \/ PollTimeout(r)

Next ==
  \/ \E r \in Request :
       \/ Reject(r) \/ AcceptDeploy(r) \/ AcceptRollback(r)
       \/ HandlerCall(r)
       \/ PollTick(r) \/ DeployToK8s(r) \/ RecordResult(r)
       \/ RunListed(r) \/ RunEnds(r)
  \/ \E h \in CallSlot :
       \/ \E r \in Request, result \in Status : ReceiveReport(h, r, result)
       \/ StoreReport(h) \/ UpdateServiceVersion(h)
  \/ \E s \in Service : CoverageChange(s)
  \/ Restart

Spec == Init /\ [][Next]_vars

\* A goroutine that can run does, every call is answered, with a success or an
\* error, and the ten-minute timer fires. Nothing is assumed of GitHub's runs,
\* of their reports or of users.
Fairness ==
  /\ \A r \in Request :
       /\ WF_vars(HandlerCall(r))
       /\ WF_vars(PollTick(r))
       /\ WF_vars(DeployToK8s(r))
       /\ WF_vars(RecordResult(r))
  /\ \A h \in CallSlot : WF_vars(StoreReport(h)) /\ WF_vars(UpdateServiceVersion(h))

FairSpec == Spec /\ Fairness
-----------------------------------------------------------------------------
(* Safety.                                                                  *)

\* A release shown as success has been rolled out: the poller and the rollback
\* handler reach the cluster before anything writes "success" (handler.go 340,
\* 555-560), whatever fails, overtakes or restarts in between.
SuccessMeansApplied ==
  \A r \in Request : status[r] = "success" => r \in applied

\* The answer of RollbackCandidates: the tags of a service's successful releases.
RollbackCandidates(s) ==
  {Row(r).git_tag : r \in {x \in Request : /\ Row(x).service = s
                                          /\ status[x] = "success"
                                          /\ Row(x).git_tag # Empty}}

\* What a service shows as its version can be rolled back to, although MarkResult
\* writes the two tables in separate statements and the server may stop between
\* them (handler.go 63-76, 124-166).
VersionIsReleased ==
  \A s \in Service : version[s] # NoVersion => version[s] \in RollbackCandidates(s)

\* An image built by a workflow run is in the cluster only if that run ended in
\* success, even when a poller judged a run it did not dispatch.
ImageFromGreenRun ==
  \A p \in Service \X Env : \A x \in Request :
    <<"run", x>> \in {cluster[p].stable, cluster[p].canary} => run[x] = "success"

\* The image a release rolls out, and that its poller took it from a green run of
\* the service's own repository, on the ref it asked about.
ImageOf(r) == IF IsDeploy(r) THEN <<"run", judged[r]>> ELSE <<"tag", Row(r).git_tag>>
BuiltFor(r) ==
  LET x == judged[r]
  IN  /\ x \in Request /\ run[x] = "success"
      /\ Row(x).service = Row(r).service /\ DispatchRef(x) = PollRef(r)

\* What runs in the cluster some release of that service and environment put
\* there, a canary beside and everything else over the stable deployment; a tag a
\* rollback, the image of a run a deploy that was for this service and ref, though
\* the poller may have taken another release's run for its own
\* (githubclient/client.go 223, handler.go 553-558).
ImageIsExplained ==
  \A p \in Service \X Env : \A d \in {"stable", "canary"} :
    cluster[p][d] # NoImage =>
      \E r \in applied :
        /\ Place(r) = p
        /\ d = "canary" <=> Row(r).strategy = "canary"
        /\ cluster[p][d] = ImageOf(r)
        /\ IsDeploy(r) => BuiltFor(r)

\* No release is rolled out twice: a call that reported an error may have reached
\* the cluster, and it is not made again (handler.go 340, 555-560).
RolledOutOnce ==
  [][\A r \in Request : ApplyKubeRollback(r) \/ DeployToK8s(r) => r \notin applied]_vars

\* While a poller is at work its row is in progress, so the result it writes
\* without looking replaces no other result. It rests on deploy workflows not
\* reporting: their inputs carry no mams_callback_url (handler.go 254-267).
PollerOwnsRow ==
  \A r \in Request :
    poll[r] \in {"polling", "apply", "succeed", "fail"} => status[r] = "in_progress"

\* A deploy that is shown as in progress while nobody works on it: no poller was
\* started, its last write failed, or a restart ended it.
Abandoned(r) ==
  IsDeploy(r) /\ status[r] = "in_progress" /\ poll[r] \in {"off", "ended"}

\* A release whose handler is over while its row is pending: the dispatch failed or
\* seemed to, the call that marks the row was lost, or the server restarted.
Stranded(r) == status[r] = "pending" /\ pc[r] = "done"

\* Only a failing database or a restart abandons a deploy.
AbandonedByFault ==
  \A r \in Request : Abandoned(r) => "db" \in Faulty \/ crashes > 0

\* A result, once written, stays: no later call, poller, callback or restart
\* replaces it by the other result.
ResultIsFinal ==
  [][\A r \in Request : status[r] \in Terminal => status'[r] = status[r]]_vars

\* A finished release never looks unfinished again, even when deploy workflows
\* report back and race with the poller for the result.
NoReopening ==
  [][\A r \in Request : status[r] \in Terminal => status'[r] \in Terminal]_vars

\* Whoever reports what, services.version comes from a release that has its result,
\* although the version is written some steps after the check that the row was in
\* progress, and pollers and other callbacks write the row meanwhile
\* (handler.go 59-71, 557, 560).
VersionFromFinished ==
  \A s \in Service : version[s] # NoVersion =>
    \E r \in Request :
      Row(r).service = s /\ Row(r).git_tag = version[s] /\ status[r] \in Terminal

-----------------------------------------------------------------------------
(* What the safety properties rest on: how far a request, its row, its       *)
(* poller and its reports may have come relative to one another.            *)

RequestStage ==
  \A r \in Request :
    /\ pc[r] \in {"idle", "kube", "create"} => status[r] = "none"
    /\ pc[r] \in {"dispatch", "mark"} => status[r] = "pending"
    /\ pc[r] \in {"idle", "kube", "create", "dispatch"} => run[r] = "none"
    /\ pc[r] = "kube" => body[r].git_tag # Empty
    /\ poll[r] # "off" => pc[r] = "done" /\ IsDeploy(r)
    /\ poll[r] = "apply" => judged[r] \in Request /\ run[judged[r]] = "success"

CallStage ==
  \A h \in CallSlot : call[h].at # "idle" =>
    LET r == call[h].release
    IN  /\ r \in Request
        /\ body[r].kind \in Reports
        /\ status[r] \in {"in_progress"} \cup Terminal
        /\ call[h].at = "version" => call[h].result = "success" /\ body[r].git_tag # Empty

StageInv == TypeOK /\ RequestStage /\ CallStage

\* A row of a rollback, and the go-ahead of a poller, come after the rollout.
RolloutFirst ==
  \A r \in Request :
    /\ (~IsDeploy(r) /\ (pc[r] = "create" \/ status[r] # "none")) => r \in applied
    /\ poll[r] = "succeed" => r \in applied

\* A report under way agrees with the result its row has or will get, and with
\* every other report of that row under way.
CallAgrees ==
  \A h \in CallSlot :
    /\ call[h].at # "idle" => status[call[h].release] \in {"in_progress", call[h].result}
    /\ call[h].at = "version" => status[call[h].release] = "success"
    /\ \A g \in CallSlot :
         call[h].at # "idle" /\ call[g].release = call[h].release
           => call[g].result = call[h].result

\* The inductive invariants of the result a release gets when only results of
\* rollbacks are reported: that it is truthful, whatever the reports say, and, if
\* reports under way do not contradict each other, that it is final.
AppliedInv == StageInv /\ PollerOwnsRow /\ RolloutFirst /\ SuccessMeansApplied

ResultInv == AppliedInv /\ CallAgrees /\ VersionIsReleased

-----------------------------------------------------------------------------
(* The abstract specification.                                              *)

LedgerRow == [r \in Request |-> [service |-> Row(r).service, git_tag |-> Row(r).git_tag]]

Ledger == INSTANCE ReleaseLedger WITH Release <- Request, row <- LedgerRow

\* Postgres as handlers, pollers and callbacks leave it is a release ledger:
\* each row is opened, started and finished once, in that order, and a version
\* is published only from a finished, successful row.
ImplementsLedger == Ledger!LedgerSpec

-----------------------------------------------------------------------------
(* Liveness.                                                                *)

\* A deploy that is polled gets a result, unless the server restarts first: GitHub
\* may answer with errors or never run the workflow, Kubernetes may refuse, the
\* ten-minute timer ends the wait, and callbacks may race with the poller
\* (handler.go 533-569). Calls that never return are excluded by Fairness.
DeploysSettle ==
  \A r \in Request, n \in 0..MaxCrashes :
    (poll[r] = "polling" /\ crashes = n)
      ~> (status[r] \in Terminal \/ crashes > n)
=============================================================================
