--------------------------- MODULE ReleasesProofs ---------------------------
(* Proofs about Releases, for every set of requests, services, refs and     *)
(* request bodies, every kind of fault and any number of restarts.          *)
EXTENDS Releases, TLAPS

(***************************************************************************)
(* Rows.                                                                   *)
(***************************************************************************)

\* The row of a request has a service, an environment and a tag of the right
\* kind, and names a place in the cluster.
LEMMA RowType ==
  ASSUME TypeOK, NEW r \in Request
  PROVE  /\ Row(r).service \in Service
         /\ Row(r).environment \in Env
         /\ Row(r).git_tag \in Tag \cup {Empty}
         /\ Place(r) \in Service \X Env
<1>1. body[r] \in Body
  BY InputAssumption DEF TypeOK
<1>2. /\ DeployRow(body[r]).service \in Service
      /\ DeployRow(body[r]).environment \in Env
      /\ DeployRow(body[r]).git_tag \in Tag \cup {Empty}
  BY <1>1, EnvAssumption DEF DeployRow, OrElse, Body
<1>3. /\ RollbackRow(body[r]).service \in Service
      /\ RollbackRow(body[r]).environment \in Env
      /\ RollbackRow(body[r]).git_tag \in Tag \cup {Empty}
  BY <1>1, EnvAssumption DEF RollbackRow, OrElse, Body
<1> QED
  BY <1>2, <1>3 DEF Row, Place

\* A rollback that was accepted names a tag; a row keeps the tag of its body.
LEMMA RowTag ==
  ASSUME TypeOK, NEW r \in Request
  PROVE  Row(r).git_tag = body[r].git_tag
<1>1. body[r] \in Body
  BY InputAssumption DEF TypeOK
<1> QED
  BY <1>1 DEF Row, DeployRow, RollbackRow, Body

\* The row of a request depends on its body alone.
LEMMA RowFixed ==
  ASSUME UNCHANGED body
  PROVE  \A q \in Request : Row(q)' = Row(q)
BY DEF Row, IsDeploy

(***************************************************************************)
(* Calls to external systems.                                              *)
(***************************************************************************)

\* A call that is acknowledged has had its effect.
LEMMA OkMeansTook ==
  ASSUME NEW system, NEW o \in Outcome(system), o.ok
  PROVE  o.took
BY DEF Outcome

\* A rollout of an image leaves a well-typed cluster.
LEMMA RolloutType ==
  ASSUME NEW c \in [Service \X Env -> [stable : Image, canary : Image]],
         NEW p \in Service \X Env, NEW i \in Image
  PROVE  /\ [c EXCEPT ![p].stable = i] \in [Service \X Env -> [stable : Image, canary : Image]]
         /\ [c EXCEPT ![p].canary = i] \in [Service \X Env -> [stable : Image, canary : Image]]
<1>1. c[p] \in [stable : Image, canary : Image]
  OBVIOUS
<1>2. /\ [c[p] EXCEPT !.stable = i] \in [stable : Image, canary : Image]
      /\ [c[p] EXCEPT !.canary = i] \in [stable : Image, canary : Image]
  BY <1>1
<1> QED
  BY <1>2

(***************************************************************************)
(* How far requests, pollers and reports have come.                        *)
(***************************************************************************)

\* The initial states are in the invariant.
LEMMA InitStage == Init => StageInv
BY CrashAssumption
   DEF Init, StageInv, TypeOK, RequestStage, CallStage, IdleCall, Call, Image, Terminal

\* The handlers, from the arrival of a request to its answer.
LEMMA RequestKeepsStage ==
  ASSUME StageInv, NEW r \in Request,
         \/ Reject(r) \/ AcceptDeploy(r) \/ AcceptRollback(r)
         \/ HandlerCall(r)
  PROVE  StageInv'
<1> USE DEF dbVars, kubeVars, pollVars, githubVars
<1>t. TypeOK
  BY DEF StageInv
<1>r. RequestStage
  BY DEF StageInv
<1>c. CallStage
  BY DEF StageInv
<1>1. CASE Reject(r)
  <2>1. TypeOK'
    BY <1>t, <1>1 DEF TypeOK, Reject
  <2>2. RequestStage'
    BY <1>t, <1>r, <1>1 DEF TypeOK, RequestStage, IsDeploy, Reject
  <2>3. CallStage'
    BY <1>t, <1>c, <1>1 DEF TypeOK, CallStage, Reject
  <2> QED
    BY <2>1, <2>2, <2>3 DEF StageInv
<1>2. CASE AcceptDeploy(r)
  <2>1. TypeOK'
    BY <1>t, <1>2 DEF TypeOK, AcceptDeploy
  <2>2. RequestStage'
    BY <1>t, <1>r, <1>2 DEF TypeOK, RequestStage, IsDeploy, AcceptDeploy
  <2>3. CallStage'
    BY <1>t, <1>c, <1>2 DEF TypeOK, CallStage, AcceptDeploy
  <2> QED
    BY <2>1, <2>2, <2>3 DEF StageInv
<1>3. CASE AcceptRollback(r)
  <2>1. TypeOK'
    BY <1>t, <1>3 DEF TypeOK, AcceptRollback, RollbackAllowed
  <2>2. RequestStage'
    BY <1>t, <1>r, <1>3 DEF TypeOK, RequestStage, IsDeploy, AcceptRollback, RollbackAllowed
  <2>3. CallStage'
    BY <1>t, <1>c, <1>3 DEF TypeOK, CallStage, AcceptRollback, RollbackAllowed
  <2> QED
    BY <2>1, <2>2, <2>3 DEF StageInv
<1>4. CASE ApplyKubeRollback(r)
  <2>a. body[r].git_tag # Empty
    BY <1>r, <1>4 DEF RequestStage, ApplyKubeRollback
  <2>b. <<"tag", Row(r).git_tag>> \in Image /\ Place(r) \in Service \X Env
    BY <1>t, <2>a, RowType, RowTag DEF Image, TagImage
  <2>c. \/ cluster' = cluster
        \/ cluster' = [cluster EXCEPT ![Place(r)].stable = <<"tag", Row(r).git_tag>>]
    BY <1>4 DEF ApplyKubeRollback
  <2>e. cluster \in [Service \X Env -> [stable : Image, canary : Image]]
    BY <1>t DEF TypeOK
  <2>d. cluster' \in [Service \X Env -> [stable : Image, canary : Image]]
    <3> DEFINE p == Place(r)
               image == <<"tag", Row(r).git_tag>>
    <3>1. p \in Service \X Env /\ image \in Image
      BY <2>b
    <3>2. cluster' = cluster \/ cluster' = [cluster EXCEPT ![p].stable = image]
      BY <2>c
    <3> HIDE DEF p, image
    <3> QED
      BY <3>1, <3>2, <2>e, RolloutType
  <2>f. /\ UNCHANGED <<body, gate, status, version, poll, judged, call, run, older, crashes>>
        /\ applied' = applied \/ applied' = applied \cup {r}
        /\ \/ pc' = [pc EXCEPT ![r] = "create"]
           \/ pc' = [pc EXCEPT ![r] = "done"]
    BY <1>4 DEF ApplyKubeRollback
  <2>1. TypeOK'
    BY <1>t, <2>d, <2>f DEF TypeOK
  <2>2. RequestStage'
    BY <1>t, <1>r, <1>4 DEF TypeOK, RequestStage, IsDeploy, ApplyKubeRollback
  <2>3. CallStage'
    BY <1>t, <1>c, <1>4 DEF TypeOK, CallStage, ApplyKubeRollback
  <2> QED
    BY <2>1, <2>2, <2>3 DEF StageInv
<1>5. CASE CreatePending(r)
  <2>a. /\ pc[r] = "create"
        /\ UNCHANGED <<body, gate, version, cluster, applied, poll, judged, call,
                       run, older, crashes>>
    BY <1>5 DEF CreatePending
  <2>b. \/ /\ status' = [status EXCEPT ![r] = "pending"]
           /\ \/ pc' = [pc EXCEPT ![r] = "dispatch"]
              \/ pc' = [pc EXCEPT ![r] = "done"]
        \/ /\ status' = status
           /\ pc' = [pc EXCEPT ![r] = "done"]
    BY <1>5, OkMeansTook DEF CreatePending
  <2>1. TypeOK'
    BY <1>t, <2>a, <2>b DEF TypeOK, Status
  <2>2. RequestStage'
    BY <1>t, <1>r, <2>a, <2>b DEF TypeOK, RequestStage, IsDeploy
  <2>3. CallStage'
    <3>1. status[r] = "none" /\ (status' = status \/ status' = [status EXCEPT ![r] = "pending"])
      BY <1>r, <2>a, <2>b DEF RequestStage
    <3>2. \A h \in CallSlot : call[h].at # "idle" => call[h].release # r
      BY <1>c, <3>1 DEF CallStage, Terminal
    <3> QED
      BY <1>t, <1>c, <2>a, <3>1, <3>2 DEF TypeOK, CallStage
  <2> QED
    BY <2>1, <2>2, <2>3 DEF StageInv
<1>6. CASE DispatchWorkflow(r)
  <2>1. TypeOK'
    BY <1>t, <1>6 DEF TypeOK, DispatchWorkflow
  <2>2. RequestStage'
    BY <1>t, <1>r, <1>6 DEF TypeOK, RequestStage, IsDeploy, DispatchWorkflow
  <2>3. CallStage'
    BY <1>t, <1>r, <1>c, <1>6 DEF TypeOK, RequestStage, CallStage, DispatchWorkflow
  <2> QED
    BY <2>1, <2>2, <2>3 DEF StageInv
<1>7. CASE MarkInProgress(r)
  <2>1. TypeOK'
    BY <1>t, <1>7 DEF TypeOK, MarkInProgress, StartsPoller, Status
  <2>2. RequestStage'
    BY <1>t, <1>r, <1>7 DEF TypeOK, RequestStage, IsDeploy, MarkInProgress, StartsPoller
  <2>3. CallStage'
    BY <1>t, <1>c, <1>7 DEF TypeOK, CallStage, MarkInProgress, StartsPoller
  <2> QED
    BY <2>1, <2>2, <2>3 DEF StageInv
<1> QED
  BY <1>1, <1>2, <1>3, <1>4, <1>5, <1>6, <1>7 DEF HandlerCall

\* The poller.
LEMMA PollerKeepsStage ==
  ASSUME StageInv, NEW r \in Request,
         PollTick(r) \/ DeployToK8s(r) \/ RecordResult(r)
  PROVE  StageInv'
<1> USE DEF dbVars, kubeVars, pollVars, githubVars
<1>t. TypeOK
  BY DEF StageInv
<1>r. RequestStage
  BY DEF StageInv
<1>c. CallStage
  BY DEF StageInv
<1>1. CASE PollCompletedRun(r)
  <2>1. TypeOK'
    BY <1>t, <1>1 DEF TypeOK, PollCompletedRun, AfterRun
  <2>2. RequestStage'
    BY <1>t, <1>r, <1>1 DEF TypeOK, RequestStage, IsDeploy, PollCompletedRun, AfterRun
  <2>3. CallStage'
    BY <1>t, <1>c, <1>1 DEF TypeOK, CallStage, PollCompletedRun, AfterRun
  <2> QED
    BY <2>1, <2>2, <2>3 DEF StageInv
<1>2. CASE PollTimeout(r)
  <2>1. TypeOK'
    BY <1>t, <1>2 DEF TypeOK, PollTimeout, TimesOut
  <2>2. RequestStage'
    BY <1>t, <1>r, <1>2 DEF TypeOK, RequestStage, IsDeploy, PollTimeout, TimesOut
  <2>3. CallStage'
    BY <1>t, <1>c, <1>2 DEF TypeOK, CallStage, PollTimeout, TimesOut
  <2> QED
    BY <2>1, <2>2, <2>3 DEF StageInv
<1>3. CASE DeployToK8s(r)
  <2>a. <<"run", judged[r]>> \in Image
    BY <1>r, <1>3 DEF RequestStage, DeployToK8s, Image, RunImage
  <2>b. Place(r) \in Service \X Env
    BY <1>t, RowType
  <2>c. \/ cluster' = cluster
        \/ cluster' = [cluster EXCEPT ![Place(r)].canary = <<"run", judged[r]>>]
        \/ cluster' = [cluster EXCEPT ![Place(r)].stable = <<"run", judged[r]>>]
    BY <1>3 DEF DeployToK8s
  <2>e. cluster \in [Service \X Env -> [stable : Image, canary : Image]]
    BY <1>t DEF TypeOK
  <2>d. cluster' \in [Service \X Env -> [stable : Image, canary : Image]]
    BY <2>a, <2>b, <2>c, <2>e, RolloutType
  <2>f. /\ UNCHANGED <<body, pc, gate, status, version, judged, call, run, older, crashes>>
        /\ applied' = applied \/ applied' = applied \cup {r}
        /\ \/ poll' = [poll EXCEPT ![r] = "succeed"]
           \/ poll' = [poll EXCEPT ![r] = "fail"]
    BY <1>3 DEF DeployToK8s, AfterRollout
  <2>1. TypeOK'
    BY <1>t, <2>d, <2>f DEF TypeOK
  <2>2. RequestStage'
    BY <1>t, <1>r, <1>3 DEF TypeOK, RequestStage, IsDeploy, DeployToK8s, AfterRollout
  <2>3. CallStage'
    BY <1>t, <1>c, <1>3 DEF TypeOK, CallStage, DeployToK8s, AfterRollout
  <2> QED
    BY <2>1, <2>2, <2>3 DEF StageInv
<1>4. CASE RecordResult(r)
  <2>1. TypeOK'
    BY <1>t, <1>4 DEF TypeOK, RecordResult, Status, Terminal
  <2>2. RequestStage'
    BY <1>t, <1>r, <1>4 DEF TypeOK, RequestStage, IsDeploy, RecordResult
  <2>3. CallStage'
    BY <1>t, <1>c, <1>4 DEF TypeOK, CallStage, RecordResult, Terminal
  <2> QED
    BY <2>1, <2>2, <2>3 DEF StageInv
<1> QED
  BY <1>1, <1>2, <1>3, <1>4 DEF PollTick

\* The callback handlers.
LEMMA CallKeepsStage ==
  ASSUME StageInv, NEW h \in CallSlot,
         \/ \E r \in Request, result \in Status : ReceiveReport(h, r, result)
         \/ StoreReport(h) \/ UpdateServiceVersion(h)
  PROVE  StageInv'
<1> USE DEF dbVars, kubeVars, pollVars, githubVars
<1>t. TypeOK
  BY DEF StageInv
<1>r. RequestStage
  BY DEF StageInv
<1>c. CallStage
  BY DEF StageInv
<1>1. ASSUME NEW r \in Request, NEW result \in Status, ReceiveReport(h, r, result)
      PROVE  StageInv'
  <2>1. TypeOK'
    BY <1>t, <1>1 DEF TypeOK, ReceiveReport, ValidTarget, Call
  <2>2. RequestStage'
    BY <1>t, <1>r, <1>1 DEF TypeOK, RequestStage, IsDeploy, ReceiveReport
  <2>3. CallStage'
    BY <1>t, <1>c, <1>1 DEF TypeOK, CallStage, ReceiveReport, Sent, TakesResult
  <2> QED
    BY <2>1, <2>2, <2>3 DEF StageInv
<1>2. CASE StoreReport(h)
  <2>a. /\ call[h].release \in Request
        /\ status[call[h].release] \in {"in_progress", "success", "failed"}
    BY <1>c, <1>2 DEF CallStage, StoreReport, Terminal
  <2>1. TypeOK'
    BY <1>t, <1>2, <2>a DEF TypeOK, StoreReport, IdleCall, Call, Terminal, Status
  <2>2. RequestStage'
    BY <1>t, <1>r, <1>2, <2>a DEF TypeOK, RequestStage, IsDeploy, StoreReport
  <2>b. /\ UNCHANGED <<body, run>>
        /\ \/ status' = status
           \/ status' = [status EXCEPT ![call[h].release] = call[h].result]
        /\ \/ call' = [call EXCEPT ![h] = IdleCall]
           \/ /\ call' = [call EXCEPT ![h].at = "version"]
              /\ call[h].result = "success" /\ body[call[h].release].git_tag # Empty
    BY <1>t, <1>2, <2>a, RowTag DEF StoreReport, BumpsVersion
  <2>c. /\ status \in [Request -> Status \cup {"none"}]
        /\ call \in [CallSlot -> Call]
        /\ call[h].at = "update"
        /\ call[h].result \in Terminal
    BY <1>t, <1>2 DEF TypeOK, StoreReport, Call
  <2>3. CallStage'
    BY <1>c, <2>a, <2>b, <2>c DEF CallStage, IdleCall, Call
  <2> QED
    BY <2>1, <2>2, <2>3 DEF StageInv
<1>3. CASE UpdateServiceVersion(h)
  <2>a. /\ Row(call[h].release).service \in Service
        /\ Row(call[h].release).git_tag \in Tag
    BY <1>t, <1>c, <1>3, RowType, RowTag DEF CallStage, UpdateServiceVersion
  <2>1. TypeOK'
    BY <1>t, <1>3, <2>a DEF TypeOK, UpdateServiceVersion, IdleCall, Call, Terminal
  <2>2. RequestStage'
    BY <1>t, <1>r, <1>3 DEF TypeOK, RequestStage, IsDeploy, UpdateServiceVersion, IdleCall
  <2>3. CallStage'
    BY <1>t, <1>c, <1>3 DEF TypeOK, CallStage, UpdateServiceVersion, IdleCall
  <2> QED
    BY <2>1, <2>2, <2>3 DEF StageInv
<1> QED
  BY <1>1, <1>2, <1>3

\* GitHub, the settings and restarts.
LEMMA EnvironmentKeepsStage ==
  ASSUME StageInv,
         \/ \E r \in Request : RunListed(r) \/ RunEnds(r)
         \/ \E s \in Service : CoverageChange(s)
         \/ Restart
  PROVE  StageInv'
<1> USE DEF dbVars, kubeVars, pollVars, githubVars
<1>t. TypeOK
  BY DEF StageInv
<1>r. RequestStage
  BY DEF StageInv
<1>c. CallStage
  BY DEF StageInv
<1>1. ASSUME NEW r \in Request, RunListed(r)
      PROVE  StageInv'
  <2>1. TypeOK'
    BY <1>t, <1>1 DEF TypeOK, RunListed
  <2>2. RequestStage'
    BY <1>t, <1>r, <1>1 DEF TypeOK, RequestStage, IsDeploy, RunListed
  <2>3. CallStage'
    BY <1>t, <1>c, <1>1 DEF TypeOK, CallStage, RunListed
  <2> QED
    BY <2>1, <2>2, <2>3 DEF StageInv
<1>2. ASSUME NEW r \in Request, RunEnds(r)
      PROVE  StageInv'
  <2>1. TypeOK'
    BY <1>t, <1>2 DEF TypeOK, RunEnds
  <2>2. RequestStage'
    BY <1>t, <1>r, <1>2 DEF TypeOK, RequestStage, IsDeploy, RunEnds
  <2>3. CallStage'
    BY <1>t, <1>c, <1>2 DEF TypeOK, CallStage, RunEnds
  <2> QED
    BY <2>1, <2>2, <2>3 DEF StageInv
<1>3. ASSUME NEW s \in Service, CoverageChange(s)
      PROVE  StageInv'
  <2>1. TypeOK'
    BY <1>t, <1>3 DEF TypeOK, CoverageChange
  <2>2. RequestStage'
    BY <1>t, <1>r, <1>3 DEF TypeOK, RequestStage, IsDeploy, CoverageChange
  <2>3. CallStage'
    BY <1>t, <1>c, <1>3 DEF TypeOK, CallStage, CoverageChange
  <2> QED
    BY <2>1, <2>2, <2>3 DEF StageInv
<1>4. CASE Restart
  <2>1. TypeOK'
    BY <1>t, <1>4, CrashAssumption DEF TypeOK, Restart, IdleCall, Call, Terminal
  <2>2. RequestStage'
    BY <1>t, <1>r, <1>4 DEF TypeOK, RequestStage, IsDeploy, Restart, IdleCall
  <2>3. CallStage'
    BY <1>t, <1>c, <1>4 DEF TypeOK, CallStage, Restart, IdleCall
  <2> QED
    BY <2>1, <2>2, <2>3 DEF StageInv
<1> QED
  BY <1>1, <1>2, <1>3, <1>4

\* Every step, and every stutter, keeps it.
LEMMA NextKeepsStage == StageInv /\ [Next]_vars => StageInv'
<1> SUFFICES ASSUME StageInv, [Next]_vars PROVE StageInv'
  OBVIOUS
<1>1. CASE UNCHANGED vars
  BY <1>1 DEF StageInv, TypeOK, RequestStage, CallStage, IsDeploy,
              vars, dbVars, kubeVars, pollVars, githubVars
<1>2. CASE Next
  BY <1>2, RequestKeepsStage, PollerKeepsStage, CallKeepsStage, EnvironmentKeepsStage
     DEF Next
<1> QED
  BY <1>1, <1>2

\* So it holds in every reachable state.
LEMMA StageInvariant == Spec => []StageInv
<1> QED
  BY InitStage, NextKeepsStage, PTL DEF Spec

\* Every variable keeps its type: in particular no rollback without a tag and
\* no poller without a judged run ever reaches the cluster.
THEOREM TypeCorrect == Spec => []TypeOK
<1>1. StageInv => TypeOK
  BY DEF StageInv
<1> QED
  BY <1>1, StageInvariant, PTL

(***************************************************************************)
(* What holds whoever reports what.                                        *)
(***************************************************************************)

\* The steps a row's status may take.
LEMMA StatusStep ==
  ASSUME StageInv, [Next]_vars, NEW r \in Request
  PROVE  \/ status'[r] = status[r]
         \/ status[r] = "none" /\ status'[r] = "pending"
         \/ status[r] = "pending" /\ status'[r] = "in_progress"
         \/ status'[r] \in Terminal
<1> USE DEF dbVars, kubeVars, pollVars, githubVars
<1>0. TypeOK /\ RequestStage /\ CallStage
  BY DEF StageInv
<1>1. ASSUME NEW q \in Request, CreatePending(q)
      PROVE  \/ status' = status
             \/ status[q] = "none" /\ status' = [status EXCEPT ![q] = "pending"]
  BY <1>0, <1>1 DEF CreatePending, RequestStage
<1>2. ASSUME NEW q \in Request, MarkInProgress(q)
      PROVE  status' = status
             \/ (status[q] = "pending" /\ status' = [status EXCEPT ![q] = "in_progress"])
  BY <1>0, <1>2 DEF MarkInProgress, RequestStage
<1>3. ASSUME NEW q \in Request, RecordResult(q)
      PROVE  \E v \in Terminal : status' = status \/ status' = [status EXCEPT ![q] = v]
  BY <1>3 DEF RecordResult, Terminal
<1>4. ASSUME NEW h \in CallSlot, StoreReport(h)
      PROVE  \E v \in Terminal : \/ status' = status
                                 \/ status' = [status EXCEPT ![call[h].release] = v]
  BY <1>0, <1>4 DEF StoreReport, TypeOK, Call
<1>5. status \in [Request -> Status \cup {"none"}]
  BY <1>0 DEF TypeOK
<1>6. CASE UNCHANGED status
  BY <1>6
<1>7. CASE \E q \in Request : CreatePending(q) \/ MarkInProgress(q) \/ RecordResult(q)
  BY <1>1, <1>2, <1>3, <1>5, <1>7
<1>8. CASE \E h \in CallSlot : StoreReport(h)
  BY <1>4, <1>5, <1>8
<1> QED
  BY <1>6, <1>7, <1>8
     DEF Next, vars, HandlerCall, PollTick, Reject, AcceptDeploy, AcceptRollback,
         ApplyKubeRollback, DispatchWorkflow, PollCompletedRun, PollTimeout, DeployToK8s,
         RunListed, RunEnds, ReceiveReport, UpdateServiceVersion, CoverageChange, Restart

\* A release that has a result never looks unfinished again, even when results of
\* deploys are reported too, contradict one another and race with the poller.
THEOREM NeverReopened == Spec => NoReopening
<1>1. StageInv /\ [Next]_vars =>
        [\A r \in Request : status[r] \in Terminal => status'[r] \in Terminal]_vars
  <2> SUFFICES ASSUME StageInv, [Next]_vars, NEW r \in Request, status[r] \in Terminal
               PROVE  status'[r] \in Terminal
    OBVIOUS
  <2> QED
    BY StatusStep DEF Terminal
<1> QED
  BY <1>1, StageInvariant, PTL DEF Spec, NoReopening

\* A run that ended in success stays that way, and the rows are never rewritten.
LEMMA GreenStaysGreen ==
  ASSUME StageInv, [Next]_vars
  PROVE  /\ \A x \in Request : run[x] = "success" => run'[x] = "success"
         /\ body' = body
<1> USE DEF dbVars, kubeVars, pollVars, githubVars
<1>0. /\ RequestStage
      /\ run \in [Request -> {"none", "queued", "running", "success", "failure"}]
  BY DEF StageInv, TypeOK
<1>1. CASE UNCHANGED <<run, body>>
  BY <1>1
<1>2. ASSUME NEW q \in Request, DispatchWorkflow(q) \/ RunListed(q) \/ RunEnds(q)
      PROVE  /\ \A x \in Request : run[x] = "success" => run'[x] = "success"
             /\ body' = body
  BY <1>0, <1>2 DEF DispatchWorkflow, RunListed, RunEnds, RequestStage
<1> QED
  BY <1>1, <1>2
     DEF Next, vars, HandlerCall, PollTick, Reject, AcceptDeploy, AcceptRollback,
         ApplyKubeRollback, CreatePending, MarkInProgress, PollCompletedRun, PollTimeout,
         DeployToK8s, RecordResult, ReceiveReport, StoreReport, UpdateServiceVersion,
         CoverageChange, Restart

\* A callback on its way to the version has written its result: who replaced it
\* since, has written one too.
VersionStage ==
  \A h \in CallSlot : call[h].at = "version" => status[call[h].release] \in Terminal

LEMMA VersionStageKept ==
  ASSUME StageInv, VersionStage, [Next]_vars
  PROVE  VersionStage'
<1> USE DEF dbVars, kubeVars, pollVars, githubVars
<1> SUFFICES ASSUME NEW h \in CallSlot, call'[h].at = "version"
             PROVE  status'[call'[h].release] \in Terminal
  BY DEF VersionStage
<1>0. /\ CallStage
      /\ status \in [Request -> Status \cup {"none"}] /\ call \in [CallSlot -> Call]
  BY DEF StageInv, TypeOK
<1>1. CASE call'[h] = call[h]
  <2>1. call[h].release \in Request /\ status[call[h].release] \in Terminal
    BY <1>0, <1>1 DEF CallStage, VersionStage
  <2> QED
    BY <1>1, <2>1, StatusStep DEF Terminal
<1>2. CASE StoreReport(h)
  <2>1. PICK o \in Outcome("db") :
          /\ status' = IF o.took THEN [status EXCEPT ![call[h].release] = call[h].result]
                       ELSE status
          /\ call' = [call EXCEPT ![h] = IF o.ok /\ BumpsVersion(call[h])
                                         THEN [@ EXCEPT !.at = "version"] ELSE IdleCall]
    BY <1>2 DEF StoreReport
  <2>2. o.ok /\ call'[h].release = call[h].release
    BY <1>0, <2>1 DEF IdleCall, Call
  <2>3. o.took /\ call[h].release \in Request /\ call[h].result \in Terminal
    BY <1>0, <1>2, <2>2, OkMeansTook DEF StoreReport, CallStage, Call
  <2> QED
    BY <1>0, <2>1, <2>2, <2>3
<1>3. CASE call'[h] # call[h] /\ ~StoreReport(h)
  <2>1. ASSUME NEW r \in Request, NEW result \in Status, ReceiveReport(h, r, result)
        PROVE  FALSE
    BY <1>0, <2>1 DEF ReceiveReport
  <2>2. CASE UpdateServiceVersion(h) \/ Restart
    BY <1>0, <2>2 DEF UpdateServiceVersion, Restart, IdleCall
  <2>3. ASSUME NEW g \in CallSlot, g # h,
               \/ \E r \in Request, result \in Status : ReceiveReport(g, r, result)
               \/ StoreReport(g) \/ UpdateServiceVersion(g)
        PROVE  FALSE
    BY <1>0, <1>3, <2>3 DEF ReceiveReport, StoreReport, UpdateServiceVersion
  <2> QED
    BY <1>3, <2>1, <2>2, <2>3
       DEF Next, vars, HandlerCall, PollTick, Reject, AcceptDeploy, AcceptRollback,
           ApplyKubeRollback, CreatePending, DispatchWorkflow, MarkInProgress,
           PollCompletedRun, PollTimeout, DeployToK8s, RecordResult, RunListed, RunEnds,
           CoverageChange
<1> QED
  BY <1>1, <1>2, <1>3

\* What moves a version has found its release in progress, and no row ever leaves
\* the results again.
LEMMA FinishedVersionsKept ==
  ASSUME StageInv, VersionFromFinished, VersionStage, [Next]_vars
  PROVE  VersionFromFinished'
<1> USE DEF dbVars, kubeVars, pollVars, githubVars
<1>1. /\ \A r \in Request : status[r] \in Terminal => status'[r] \in Terminal
      /\ \A r \in Request : Row(r)' = Row(r)
  BY StatusStep, GreenStaysGreen, RowFixed DEF Terminal
<1>2. CASE UNCHANGED version
  BY <1>1, <1>2 DEF VersionFromFinished
<1>3. ASSUME NEW h \in CallSlot, UpdateServiceVersion(h)
      PROVE  VersionFromFinished'
  <2> DEFINE q == call[h].release
  <2>1. q \in Request /\ status[q] \in Terminal
    BY <1>3 DEF UpdateServiceVersion, StageInv, CallStage, VersionStage
  <2>2. /\ version \in [Service -> Tag \cup {NoVersion}]
        /\ \/ version' = version
           \/ version' = [version EXCEPT ![Row(q).service] = Row(q).git_tag]
    BY <1>3 DEF UpdateServiceVersion, StageInv, TypeOK
  <2>3. SUFFICES ASSUME NEW s \in Service, version'[s] # NoVersion
                 PROVE  \E r \in Request : /\ Row(r).service = s
                                           /\ Row(r).git_tag = version'[s]
                                           /\ status'[r] \in Terminal
    BY <1>1 DEF VersionFromFinished
  <2>4. CASE version'[s] = version[s]
    BY <1>1, <2>3, <2>4 DEF VersionFromFinished
  <2>5. CASE version'[s] # version[s]
    <3>1. s = Row(q).service /\ version'[s] = Row(q).git_tag
      BY <2>2, <2>5
    <3> QED
      BY <1>1, <2>1, <3>1
  <2> QED
    BY <2>4, <2>5
<1> QED
  BY <1>2, <1>3
     DEF Next, vars, HandlerCall, PollTick, Reject, AcceptDeploy, AcceptRollback,
         ApplyKubeRollback, CreatePending, DispatchWorkflow, MarkInProgress,
         PollCompletedRun, PollTimeout, DeployToK8s, RecordResult, RunListed, RunEnds,
         ReceiveReport, StoreReport, CoverageChange, Restart

\* services.version only ever holds the tag of a release that has its result,
\* whoever reports what and whatever pollers write meanwhile.
THEOREM VersionFinished == Spec => []VersionFromFinished
<1>1. Init => VersionFromFinished /\ VersionStage
  BY DEF Init, VersionFromFinished, VersionStage, IdleCall
<1>2. StageInv /\ VersionStage /\ [Next]_vars => VersionStage'
  BY VersionStageKept
<1>3. StageInv /\ VersionFromFinished /\ VersionStage /\ [Next]_vars => VersionFromFinished'
  BY FinishedVersionsKept
<1> QED
  BY <1>1, <1>2, <1>3, StageInvariant, PTL DEF Spec

\* Without database faults a row and its poller go into and out of "in progress"
\* together, up to a restart.
LEMMA FaultsAbandonKept ==
  ASSUME StageInv, AbandonedByFault, [Next]_vars
  PROVE  AbandonedByFault'
<1> USE DEF dbVars, kubeVars, pollVars, githubVars
<1>0. /\ TypeOK /\ RequestStage /\ CallStage /\ crashes \in Nat
      /\ \A r \in Request : IsDeploy(r)' <=> IsDeploy(r)
  BY GreenStaysGreen, CrashAssumption DEF StageInv, TypeOK, IsDeploy
<1>1. SUFFICES ASSUME "db" \notin Faulty, NEW r \in Request, IsDeploy(r), status'[r] = "in_progress",
                      poll'[r] \in {"off", "ended"}
               PROVE  crashes' > 0
  BY <1>0 DEF AbandonedByFault, Abandoned
<1>2. \A o \in Outcome("db") : o.took /\ o.ok
  BY <1>1 DEF Outcome
<1>3. CASE status'[r] = status[r] /\ poll'[r] = poll[r]
  <2>1. crashes > 0
    BY <1>1, <1>3 DEF AbandonedByFault, Abandoned
  <2>2. crashes' >= crashes
    BY <1>0 DEF Next, vars, HandlerCall, PollTick, Reject, AcceptDeploy, AcceptRollback,
                ApplyKubeRollback, CreatePending, DispatchWorkflow, MarkInProgress,
                PollCompletedRun, PollTimeout, DeployToK8s, RecordResult, RunListed, RunEnds,
                ReceiveReport, StoreReport, UpdateServiceVersion, CoverageChange, Restart
  <2> QED
    BY <1>0, <2>1, <2>2 DEF Next, vars, HandlerCall, PollTick, Reject, AcceptDeploy,
                AcceptRollback, ApplyKubeRollback, CreatePending, DispatchWorkflow,
                MarkInProgress, PollCompletedRun, PollTimeout, DeployToK8s, RecordResult,
                RunListed, RunEnds, ReceiveReport, StoreReport, UpdateServiceVersion,
                CoverageChange, Restart
<1>4. CASE Restart
  BY <1>0, <1>4 DEF Restart
<1>5. ASSUME NEW q \in Request,
             CreatePending(q) \/ MarkInProgress(q) \/ RecordResult(q)
      PROVE  status'[r] = status[r] /\ poll'[r] = poll[r]
  <2>1. CASE CreatePending(q)
    BY <1>0, <1>1, <2>1 DEF CreatePending, TypeOK
  <2>2. CASE MarkInProgress(q)
    BY <1>0, <1>1, <1>2, <2>2 DEF MarkInProgress, StartsPoller, TypeOK
  <2>3. CASE RecordResult(q)
    BY <1>0, <1>1, <1>2, <2>3 DEF RecordResult, TypeOK
  <2> QED
    BY <1>5, <2>1, <2>2, <2>3
<1>6. ASSUME NEW q \in Request, PollTick(q) \/ DeployToK8s(q)
      PROVE  status'[r] = status[r] /\ poll'[r] = poll[r]
  <2>1. status' = status
    BY <1>6 DEF PollTick, PollCompletedRun, PollTimeout, DeployToK8s
  <2>2. poll[q] \in {"polling", "apply"}
    BY <1>6 DEF PollTick, PollCompletedRun, PollTimeout, TimesOut, DeployToK8s
  <2>3. \E to \in {"apply", "succeed", "fail"} : poll' = [poll EXCEPT ![q] = to]
    BY <1>6 DEF PollTick, PollCompletedRun, PollTimeout, DeployToK8s, AfterRun, AfterRollout
  <2> QED
    BY <1>0, <1>1, <2>1, <2>3 DEF TypeOK
<1>7. ASSUME NEW h \in CallSlot, StoreReport(h)
      PROVE  status'[r] = status[r] /\ poll'[r] = poll[r]
  <2>1. /\ call[h].release \in Request
        /\ status[call[h].release] \in {"in_progress"} \cup Terminal
    BY <1>0, <1>7 DEF StoreReport, CallStage
  <2>2. /\ poll' = poll /\ status' = [status EXCEPT ![call[h].release] = call[h].result]
        /\ call[h].result \in Terminal /\ status \in [Request -> Status \cup {"none"}]
    BY <1>0, <1>2, <1>7 DEF StoreReport, TypeOK, Call
  <2>3. call[h].release # r
    BY <1>1, <2>1, <2>2 DEF Terminal
  <2> QED
    BY <2>2, <2>3
<1> QED
  BY <1>3, <1>4, <1>5, <1>6, <1>7
     DEF Next, vars, HandlerCall, Reject, AcceptDeploy, AcceptRollback,
         ApplyKubeRollback, DispatchWorkflow, RunListed, RunEnds, ReceiveReport,
         UpdateServiceVersion, CoverageChange

\* Only a failing database or a restart leaves a deploy in progress that nobody
\* works on, whatever GitHub and the cluster do and whoever reports what.
THEOREM OnlyFaultsAbandon == Spec => []AbandonedByFault
<1>1. Init => AbandonedByFault
  BY DEF Init, AbandonedByFault, Abandoned
<1> QED
  BY <1>1, FaultsAbandonKept, StageInvariant, PTL DEF Spec

\* A poller comes after the mark of its row.
Marked == \A r \in Request : poll[r] # "off" => status[r] \notin {"none", "pending"}

LEMMA MarkedKept ==
  ASSUME StageInv, Marked, [Next]_vars
  PROVE  Marked'
<1> USE DEF dbVars, kubeVars, pollVars, githubVars
<1> SUFFICES ASSUME NEW r \in Request, poll'[r] # "off"
             PROVE  status'[r] \notin {"none", "pending"}
  BY DEF Marked
<1>0. TypeOK
  BY DEF StageInv
<1>1. CASE poll[r] # "off"
  BY <1>1, StatusStep DEF Marked, Terminal
<1>2. ASSUME poll[r] = "off" PROVE MarkInProgress(r)
  BY <1>0, <1>2
     DEF Next, vars, HandlerCall, PollTick, Reject, AcceptDeploy, AcceptRollback,
         ApplyKubeRollback, CreatePending, DispatchWorkflow, MarkInProgress, PollCompletedRun,
         PollTimeout, TimesOut, DeployToK8s, RecordResult, RunListed, RunEnds, ReceiveReport,
         StoreReport, UpdateServiceVersion, CoverageChange, Restart, TypeOK
<1>3. ASSUME poll[r] = "off", MarkInProgress(r)
      PROVE  status'[r] = "in_progress"
  <2>1. PICK o \in Outcome("db") :
          /\ status' = IF o.took THEN [status EXCEPT ![r] = "in_progress"] ELSE status
          /\ poll' = IF StartsPoller(r, o) THEN [poll EXCEPT ![r] = "polling"] ELSE poll
    BY <1>3 DEF MarkInProgress
  <2>2. o.ok
    BY <1>3, <2>1 DEF StartsPoller
  <2>3. o.took
    BY <2>2, OkMeansTook
  <2> QED
    BY <1>0, <2>1, <2>3 DEF TypeOK
<1> QED
  BY <1>1, <1>2, <1>3

\* A pending row whose handler is over has no writer left.
LEMMA StrandedStays ==
  ASSUME StageInv, Marked, [Next]_vars, NEW r \in Request, Stranded(r)
  PROVE  Stranded(r)'
<1> USE DEF dbVars, kubeVars, pollVars, githubVars
<1>0. /\ TypeOK /\ CallStage /\ status[r] = "pending" /\ pc[r] = "done" /\ poll[r] = "off"
  BY DEF StageInv, Marked, Stranded
<1>1. ASSUME NEW q \in Request,
             \/ Reject(q) \/ AcceptDeploy(q) \/ AcceptRollback(q) \/ HandlerCall(q)
      PROVE  status'[r] = "pending" /\ pc'[r] = "done"
  <2>1. q # r
    BY <1>0, <1>1 DEF Reject, AcceptDeploy, AcceptRollback, HandlerCall, ApplyKubeRollback,
                      CreatePending, DispatchWorkflow, MarkInProgress
  <2>2. status'[r] = status[r]
    BY <1>0, <1>1, <2>1 DEF Reject, AcceptDeploy, AcceptRollback, HandlerCall,
                      ApplyKubeRollback, CreatePending, DispatchWorkflow, MarkInProgress, TypeOK
  <2>3. pc'[r] = pc[r]
    BY <1>0, <1>1, <2>1 DEF Reject, AcceptDeploy, AcceptRollback, HandlerCall,
                      ApplyKubeRollback, CreatePending, DispatchWorkflow, MarkInProgress, TypeOK
  <2> QED
    BY <1>0, <2>2, <2>3
<1>2. ASSUME NEW q \in Request, RecordResult(q)
      PROVE  status'[r] = "pending" /\ pc'[r] = "done"
  <2>1. q # r
    BY <1>0, <1>2 DEF RecordResult
  <2> QED
    BY <1>0, <1>2, <2>1 DEF RecordResult, TypeOK
<1>3. ASSUME NEW h \in CallSlot, StoreReport(h)
      PROVE  status'[r] = "pending" /\ pc'[r] = "done"
  <2>1. call[h].release # r
    BY <1>0, <1>3 DEF StoreReport, CallStage, Terminal
  <2> QED
    BY <1>0, <1>3, <2>1 DEF StoreReport, TypeOK
<1>4. CASE Restart
  BY <1>0, <1>4 DEF Restart, Stranded
<1>5. CASE UNCHANGED <<status, pc>>
  BY <1>5 DEF Stranded
<1> QED
  BY <1>1, <1>2, <1>3, <1>4, <1>5
     DEF Next, vars, PollTick, PollCompletedRun, PollTimeout, DeployToK8s, RunListed, RunEnds,
         ReceiveReport, UpdateServiceVersion, CoverageChange, Stranded

\* A row that is pending when its handler is over stays pending for ever, although
\* its workflow may have started, may end and may report (handler.go 59-61, 269-283).
THEOREM StrandedForGood ==
  ASSUME NEW r \in Request
  PROVE  Spec => [](Stranded(r) => []Stranded(r))
<1>1. Init => Marked
  BY DEF Init, Marked
<1>2. StageInv /\ Marked /\ [Next]_vars => Marked'
  BY MarkedKept
<1>3. StageInv /\ Marked /\ Stranded(r) /\ [Next]_vars => Stranded(r)'
  BY StrandedStays
<1> QED
  BY <1>1, <1>2, <1>3, StageInvariant, PTL DEF Spec

(***************************************************************************)
(* Rollouts, whoever reports what.                                         *)
(***************************************************************************)

\* Where a poller, or the handler of a rollback, is once it has rolled out.
PollPast == {"succeed", "fail", "ended"}
CallPast == {"create", "dispatch", "mark", "done"}

\* Only rollbacks reach the cluster before their row; a poller that goes ahead, or
\* went, took its image from a run that is its own to take; and who has rolled out
\* has left that call behind.
RolloutStage ==
  /\ \A r \in Request : pc[r] = "kube" => ~IsDeploy(r)
  /\ \A r \in Request : poll[r] = "apply" => BuiltFor(r)
  /\ \A r \in applied :
       /\ IsDeploy(r) => poll[r] \in PollPast /\ BuiltFor(r)
       /\ ~IsDeploy(r) => pc[r] \in CallPast

RolloutInv == StageInv /\ RolloutStage /\ ImageIsExplained

\* Rows stay, and what a judged run was, it stays.
LEMMA BuiltForStays ==
  ASSUME StageInv, [Next]_vars
  PROVE  /\ \A r \in Request : Row(r)' = Row(r) /\ (IsDeploy(r)' <=> IsDeploy(r))
         /\ \A r \in Request : BuiltFor(r) /\ judged'[r] = judged[r] => BuiltFor(r)'
<1>1. body' = body /\ \A x \in Request : run[x] = "success" => run'[x] = "success"
  BY GreenStaysGreen
<1>2. \A x \in Request : Row(x)' = Row(x) /\ (IsDeploy(x)' <=> IsDeploy(x))
  BY <1>1, RowFixed DEF IsDeploy
<1> QED
  BY <1>1, <1>2 DEF BuiltFor, DispatchRef, PollRef

\* The cluster is explained as before, if whoever explained it still does.
LEMMA ExplainedStays ==
  ASSUME RolloutInv, [Next]_vars, NEW p \in Service \X Env, NEW d \in {"stable", "canary"},
         cluster'[p][d] = cluster[p][d], cluster[p][d] # NoImage,
         applied \subseteq applied', \A r \in applied : judged'[r] = judged[r]
  PROVE  \E r \in applied' :
           /\ Place(r)' = p
           /\ d = "canary" <=> Row(r)'.strategy = "canary"
           /\ cluster'[p][d] = ImageOf(r)'
           /\ IsDeploy(r)' => BuiltFor(r)'
<1>1. StageInv /\ applied \subseteq Request
  BY DEF RolloutInv, StageInv, TypeOK
<1>2. PICK r \in applied : /\ Place(r) = p
                           /\ d = "canary" <=> Row(r).strategy = "canary"
                           /\ cluster[p][d] = ImageOf(r)
                           /\ IsDeploy(r) => BuiltFor(r)
  BY DEF RolloutInv, ImageIsExplained
<1>3. /\ r \in Request /\ r \in applied' /\ judged'[r] = judged[r]
      /\ Row(r)' = Row(r) /\ (IsDeploy(r)' <=> IsDeploy(r))
      /\ BuiltFor(r) => BuiltFor(r)'
  BY <1>1, <1>2, BuiltForStays
<1>4. Place(r)' = Place(r) /\ ImageOf(r)' = ImageOf(r)
  BY <1>3 DEF Place, ImageOf
<1> QED
  BY <1>2, <1>3, <1>4

\* A step that rolls nothing out and sends no poller ahead or back keeps it.
LEMMA RolloutFrame ==
  ASSUME RolloutInv, StageInv', [Next]_vars, UNCHANGED <<cluster, applied, judged>>,
         \A r \in Request :
           \/ pc'[r] = pc[r] /\ poll'[r] = poll[r]
           \/ /\ pc'[r] = "kube" => ~IsDeploy(r)
              /\ poll'[r] # "apply"
              /\ poll[r] \in PollPast => poll'[r] \in PollPast
              /\ pc[r] \in CallPast => pc'[r] \in CallPast
  PROVE  RolloutInv'
<1>0. StageInv /\ RolloutStage /\ applied \subseteq Request
  BY DEF RolloutInv, StageInv, TypeOK
<1>1. \A r \in Request : /\ IsDeploy(r)' <=> IsDeploy(r)
                         /\ BuiltFor(r) => BuiltFor(r)'
  BY <1>0, BuiltForStays
<1>2. RolloutStage'
  BY <1>0, <1>1 DEF RolloutStage
<1>3. ImageIsExplained'
  BY ExplainedStays DEF ImageIsExplained
<1> QED
  BY <1>2, <1>3 DEF RolloutInv

\* A release that rolls out now explains what it leaves behind.
LEMMA RolloutExplained ==
  ASSUME RolloutInv, StageInv', [Next]_vars, NEW q \in Request, UNCHANGED judged,
         NEW deployment \in {"stable", "canary"},
         deployment = "canary" <=> Row(q).strategy = "canary",
         IsDeploy(q) => BuiltFor(q),
         \/ UNCHANGED <<cluster, applied>>
         \/ /\ cluster' = [cluster EXCEPT ![Place(q)] = [@ EXCEPT ![deployment] = ImageOf(q)]]
            /\ applied' = applied \cup {q}
  PROVE  ImageIsExplained'
<1>0. StageInv /\ applied \subseteq Request /\ Place(q) \in Service \X Env
      /\ cluster \in [Service \X Env -> [stable : Image, canary : Image]]
  BY RowType DEF RolloutInv, StageInv, TypeOK
<1>1. SUFFICES ASSUME NEW p \in Service \X Env, NEW d \in {"stable", "canary"},
                      cluster'[p][d] # NoImage
               PROVE  \E r \in applied' :
                        /\ Place(r)' = p
                        /\ d = "canary" <=> Row(r)'.strategy = "canary"
                        /\ cluster'[p][d] = ImageOf(r)'
                        /\ IsDeploy(r)' => BuiltFor(r)'
  BY DEF ImageIsExplained
<1>2. CASE cluster'[p][d] = cluster[p][d]
  BY <1>1, <1>2, ExplainedStays
<1>3. CASE cluster'[p][d] # cluster[p][d]
  <2>1. p = Place(q) /\ d = deployment /\ cluster'[p][d] = ImageOf(q) /\ q \in applied'
    <3>1. cluster[p] \in [stable : Image, canary : Image]
      BY <1>0
    <3> QED
      BY <1>0, <1>3, <3>1
  <2>2. /\ Row(q)' = Row(q) /\ (IsDeploy(q)' <=> IsDeploy(q))
        /\ BuiltFor(q) => BuiltFor(q)'
    BY <1>0, BuiltForStays
  <2>3. Place(q)' = Place(q) /\ ImageOf(q)' = ImageOf(q)
    BY <2>2 DEF Place, ImageOf
  <2> QED
    BY <2>1, <2>2, <2>3
<1> QED
  BY <1>2, <1>3

LEMMA NextKeepsRollout == RolloutInv /\ [Next]_vars => RolloutInv'
<1> SUFFICES ASSUME RolloutInv, [Next]_vars PROVE RolloutInv'
  OBVIOUS
<1> USE DEF dbVars, kubeVars, pollVars, githubVars
<1>0. /\ TypeOK /\ RequestStage /\ StageInv /\ RolloutStage /\ applied \subseteq Request
      /\ StageInv'
  BY NextKeepsStage DEF RolloutInv, StageInv, TypeOK
<1>1. \A r \in Request : /\ Row(r)' = Row(r) /\ (IsDeploy(r)' <=> IsDeploy(r))
                         /\ BuiltFor(r) /\ judged'[r] = judged[r] => BuiltFor(r)'
  BY <1>0, BuiltForStays
<1>2. CASE UNCHANGED <<pc, poll, cluster, applied, judged>>
  BY <1>0, <1>2, RolloutFrame
<1>3. ASSUME NEW q \in Request,
             \/ Reject(q) \/ AcceptDeploy(q) \/ AcceptRollback(q)
             \/ CreatePending(q) \/ DispatchWorkflow(q)
      PROVE  RolloutInv'
  <2>1. /\ UNCHANGED <<poll, cluster, applied, judged>>
        /\ \A r \in Request \ {q} : pc'[r] = pc[r]
        /\ pc'[q] = "kube" => ~IsDeploy(q)
        /\ pc'[q] \in CallPast \cup {"kube"}
        /\ pc[q] \in CallPast => pc'[q] \in CallPast
        /\ pc[q] # "done"
    BY <1>0, <1>3
       DEF Reject, AcceptDeploy, AcceptRollback, CreatePending, DispatchWorkflow, CallPast,
           TypeOK
  <2>2. poll[q] = "off"
    BY <1>0, <2>1 DEF RequestStage
  <2> QED
    BY <1>0, <2>1, <2>2, RolloutFrame DEF PollPast
<1>4. ASSUME NEW q \in Request, MarkInProgress(q)
      PROVE  RolloutInv'
  <2>1. /\ UNCHANGED <<cluster, applied, judged>> /\ pc[q] = "mark"
        /\ pc' = [pc EXCEPT ![q] = "done"]
        /\ poll' = poll \/ poll' = [poll EXCEPT ![q] = "polling"]
    BY <1>4 DEF MarkInProgress
  <2>2. poll[q] = "off"
    BY <1>0, <2>1 DEF RequestStage
  <2>3. /\ \A r \in Request \ {q} : pc'[r] = pc[r] /\ poll'[r] = poll[r]
        /\ pc'[q] = "done" /\ poll'[q] \in {"off", "polling"}
    BY <1>0, <2>1, <2>2 DEF TypeOK
  <2> QED
    BY <1>0, <2>1, <2>2, <2>3, RolloutFrame DEF PollPast, CallPast
<1>5. ASSUME NEW q \in Request, PollTimeout(q) \/ RecordResult(q)
      PROVE  RolloutInv'
  <2>1. /\ UNCHANGED <<pc, cluster, applied, judged>>
        /\ \A r \in Request \ {q} : poll'[r] = poll[r]
        /\ poll'[q] \in PollPast
        /\ poll[q] # "off"
    BY <1>0, <1>5 DEF PollTimeout, TimesOut, RecordResult, PollPast, TypeOK
  <2>2. pc[q] = "done"
    BY <1>0, <2>1 DEF RequestStage
  <2> QED
    BY <1>0, <2>1, <2>2, RolloutFrame DEF PollPast
<1>6. CASE Restart
  <2>1. /\ UNCHANGED <<cluster, applied, judged>>
        /\ \A r \in Request : /\ pc'[r] = IF pc[r] = "idle" THEN "idle" ELSE "done"
                              /\ poll'[r] = IF poll[r] = "off" THEN "off" ELSE "ended"
    BY <1>6 DEF Restart
  <2> QED
    BY <1>0, <2>1, RolloutFrame DEF PollPast, CallPast
<1>7. ASSUME NEW q \in Request, PollCompletedRun(q)
      PROVE  RolloutInv'
  <2>1. PICK x \in Request :
          /\ IsLatestRun(x, Row(q).service, PollRef(q))
          /\ judged' = [judged EXCEPT ![q] = x]
          /\ poll' = [poll EXCEPT ![q] = AfterRun(x)]
    BY <1>7 DEF PollCompletedRun
  <2>2. UNCHANGED <<pc, cluster, applied, body, run>> /\ poll[q] = "polling"
    BY <1>7 DEF PollCompletedRun
  <2>3. q \notin applied
    BY <1>0, <2>2 DEF RolloutStage, RequestStage, PollPast
  <2>4. ImageIsExplained'
    BY <1>0, <2>1, <2>2, <2>3, ExplainedStays DEF ImageIsExplained, TypeOK
  <2>5. poll'[q] = "apply" => BuiltFor(q)'
    <3>1. Row(x).service = Row(q).service /\ DispatchRef(x) = PollRef(q)
      BY <2>1 DEF IsLatestRun
    <3>2. judged'[q] = x
      BY <1>0, <2>1 DEF TypeOK
    <3>3. poll'[q] = "apply" => run'[x] = "success"
      BY <1>0, <2>1, <2>2 DEF TypeOK, AfterRun
    <3> QED
      BY <1>1, <3>1, <3>2, <3>3 DEF BuiltFor, DispatchRef, PollRef
  <2>6. \A r \in Request \ {q} : poll'[r] = poll[r] /\ judged'[r] = judged[r]
    BY <1>0, <2>1 DEF TypeOK
  <2>7. RolloutStage'
    BY <1>0, <1>1, <2>2, <2>3, <2>5, <2>6 DEF RolloutStage
  <2> QED
    BY <1>0, <2>4, <2>7 DEF RolloutInv
<1>8. ASSUME NEW q \in Request, ApplyKubeRollback(q)
      PROVE  RolloutInv'
  <2>1. /\ pc[q] = "kube" /\ UNCHANGED <<poll, judged, body>>
        /\ pc' = [pc EXCEPT ![q] = "create"] \/ pc' = [pc EXCEPT ![q] = "done"]
        /\ \/ UNCHANGED <<cluster, applied>>
           \/ /\ cluster' = [cluster EXCEPT ![Place(q)].stable = <<"tag", Row(q).git_tag>>]
              /\ applied' = applied \cup {q}
    BY <1>8 DEF ApplyKubeRollback
  <2>2. ~IsDeploy(q) /\ ImageOf(q) = <<"tag", Row(q).git_tag>>
    BY <1>0, <2>1 DEF RolloutStage, ImageOf
  <2>3. Row(q).strategy = "rollback"
    <3>1. body[q] \in Body
      BY <1>0, InputAssumption DEF TypeOK
    <3> QED
      BY <2>2, <3>1 DEF Row, RollbackRow, Body
  <2>4. \/ UNCHANGED <<cluster, applied>>
        \/ /\ cluster' = [cluster EXCEPT ![Place(q)] = [@ EXCEPT !["stable"] = ImageOf(q)]]
           /\ applied' = applied \cup {q}
    BY <2>1, <2>2
  <2>5. ImageIsExplained'
    BY <1>0, <2>1, <2>2, <2>3, <2>4, RolloutExplained
  <2>6. /\ \A r \in Request \ {q} : pc'[r] = pc[r]
        /\ pc'[q] \in CallPast /\ pc'[q] # "kube"
        /\ applied' \subseteq applied \cup {q}
    BY <1>0, <2>1 DEF TypeOK, CallPast
  <2>7. RolloutStage'
    BY <1>0, <1>1, <2>1, <2>2, <2>6 DEF RolloutStage
  <2> QED
    BY <1>0, <2>5, <2>7 DEF RolloutInv
<1>9. ASSUME NEW q \in Request, DeployToK8s(q)
      PROVE  RolloutInv'
  <2>1. /\ poll[q] = "apply" /\ UNCHANGED <<pc, judged, body>>
        /\ poll' = [poll EXCEPT ![q] = "succeed"] \/ poll' = [poll EXCEPT ![q] = "fail"]
        /\ \/ UNCHANGED <<cluster, applied>>
           \/ /\ IF Row(q).strategy = "canary"
                   THEN cluster' = [cluster EXCEPT ![Place(q)].canary = <<"run", judged[q]>>]
                   ELSE cluster' = [cluster EXCEPT ![Place(q)].stable = <<"run", judged[q]>>]
              /\ applied' = applied \cup {q}
    BY <1>9 DEF DeployToK8s, AfterRollout
  <2>2. IsDeploy(q) /\ BuiltFor(q) /\ ImageOf(q) = <<"run", judged[q]>>
    BY <1>0, <2>1 DEF RolloutStage, RequestStage, ImageOf
  <2>3. ASSUME Row(q).strategy = "canary" PROVE ImageIsExplained'
    <3>1. \/ UNCHANGED <<cluster, applied>>
          \/ /\ cluster' = [cluster EXCEPT ![Place(q)] = [@ EXCEPT !["canary"] = ImageOf(q)]]
             /\ applied' = applied \cup {q}
      BY <2>1, <2>2, <2>3
    <3> QED
      BY <1>0, <2>1, <2>2, <2>3, <3>1, RolloutExplained
  <2>4. ASSUME Row(q).strategy # "canary" PROVE ImageIsExplained'
    <3>1. \/ UNCHANGED <<cluster, applied>>
          \/ /\ cluster' = [cluster EXCEPT ![Place(q)] = [@ EXCEPT !["stable"] = ImageOf(q)]]
             /\ applied' = applied \cup {q}
      BY <2>1, <2>2, <2>4
    <3> QED
      BY <1>0, <2>1, <2>2, <2>4, <3>1, RolloutExplained
  <2>5. /\ \A r \in Request \ {q} : poll'[r] = poll[r]
        /\ poll'[q] \in PollPast /\ poll'[q] # "apply"
        /\ applied' \subseteq applied \cup {q}
    BY <1>0, <2>1 DEF TypeOK, PollPast
  <2>6. RolloutStage'
    BY <1>0, <1>1, <2>1, <2>2, <2>5 DEF RolloutStage
  <2> QED
    BY <1>0, <2>3, <2>4, <2>6 DEF RolloutInv
<1> QED
  BY <1>2, <1>3, <1>4, <1>5, <1>6, <1>7, <1>8, <1>9
     DEF Next, vars, HandlerCall, PollTick, RunListed, RunEnds, ReceiveReport, StoreReport,
         UpdateServiceVersion, CoverageChange

LEMMA RolloutInvariant == Spec => []RolloutInv
<1>1. Init => RolloutInv
  <2>1. Init => StageInv
    BY InitStage
  <2>2. Init => RolloutStage /\ ImageIsExplained
    BY DEF Init, RolloutStage, ImageIsExplained
  <2> QED
    BY <2>1, <2>2 DEF RolloutInv
<1> QED
  BY <1>1, NextKeepsRollout, PTL DEF Spec

\* Whatever fails, overtakes or restarts, each image in the cluster was put there by
\* a release of that service and environment, and one built by a run comes from the
\* service's own repository, from a green run on the ref of that release.
THEOREM ClusterExplained == Spec => []ImageIsExplained
<1>1. RolloutInv => ImageIsExplained
  BY DEF RolloutInv
<1> QED
  BY <1>1, RolloutInvariant, PTL

\* Every image built by a run that is in the cluster comes from a green run, even
\* when the poller that put it there judged a run it did not dispatch.
THEOREM OnlyGreenRunsDeployed == Spec => []ImageFromGreenRun
<1>1. ImageIsExplained => ImageFromGreenRun
  <2> SUFFICES ASSUME ImageIsExplained, NEW p \in Service \X Env, NEW x \in Request,
                      NEW d \in {"stable", "canary"}, cluster[p][d] = <<"run", x>>
               PROVE  run[x] = "success"
    BY DEF ImageFromGreenRun
  <2>1. <<"run", x>> # NoImage
    BY FreshAssumption DEF RunImage
  <2>2. PICK r \in applied : cluster[p][d] = ImageOf(r) /\ (IsDeploy(r) => BuiltFor(r))
    BY <2>1 DEF ImageIsExplained
  <2> QED
    BY <2>2 DEF ImageOf, BuiltFor
<1> QED
  BY <1>1, ClusterExplained, PTL

\* No release is rolled out twice.
THEOREM NoSecondRollout == Spec => RolledOutOnce
<1>1. RolloutInv /\ [Next]_vars =>
        [\A r \in Request : ApplyKubeRollback(r) \/ DeployToK8s(r) => r \notin applied]_vars
  BY DEF RolloutInv, StageInv, RequestStage, RolloutStage, ApplyKubeRollback, DeployToK8s,
         PollPast, CallPast
<1> QED
  BY <1>1, RolloutInvariant, PTL DEF Spec, RolledOutOnce

(***************************************************************************)
(* What holds when results are reported of rollbacks only.                 *)
(***************************************************************************)

\* A step that leaves the rows, the rollouts and the pollers alone.
LEMMA AppliedFrame ==
  ASSUME AppliedInv, StageInv', UNCHANGED <<body, status, poll, applied>>,
         \A r \in Request : ~IsDeploy(r) /\ pc'[r] = "create" => pc[r] = "create"
  PROVE  AppliedInv'
BY DEF AppliedInv, PollerOwnsRow, RolloutFirst, SuccessMeansApplied, IsDeploy

\* The handlers keep it: a rollback reaches the cluster before its row exists.
LEMMA HandlerKeepsApplied ==
  ASSUME AppliedInv, StageInv', NEW r \in Request,
         \/ Reject(r) \/ AcceptDeploy(r) \/ AcceptRollback(r) \/ HandlerCall(r)
  PROVE  AppliedInv'
<1> USE DEF dbVars, kubeVars, pollVars, githubVars, IsDeploy
<1>0. /\ TypeOK /\ RequestStage
      /\ PollerOwnsRow /\ RolloutFirst /\ SuccessMeansApplied
  BY DEF AppliedInv, StageInv
<1>1. CASE Reject(r) \/ AcceptDeploy(r) \/ AcceptRollback(r) \/ DispatchWorkflow(r)
  BY <1>0, <1>1, AppliedFrame
     DEF Reject, AcceptDeploy, AcceptRollback, DispatchWorkflow, TypeOK
<1>2. CASE ApplyKubeRollback(r)
  <2>1. /\ UNCHANGED <<body, status, poll>>
        /\ applied \subseteq applied'
        /\ \A q \in Request : pc'[q] = "create" => pc[q] = "create" \/ q \in applied'
    BY <1>0, <1>2, OkMeansTook DEF ApplyKubeRollback, TypeOK
  <2> QED
    BY <1>0, <2>1 DEF AppliedInv, PollerOwnsRow, RolloutFirst, SuccessMeansApplied
<1>3. CASE CreatePending(r)
  <2>1. /\ UNCHANGED <<body, poll, applied>>
        /\ pc[r] = "create" /\ status[r] = "none"
        /\ status' = status \/ status' = [status EXCEPT ![r] = "pending"]
        /\ \A q \in Request : pc'[q] = "create" => pc[q] = "create"
    BY <1>0, <1>3 DEF CreatePending, TypeOK, RequestStage
  <2> QED
    BY <1>0, <2>1 DEF AppliedInv, PollerOwnsRow, RolloutFirst, SuccessMeansApplied, TypeOK
<1>4. CASE MarkInProgress(r)
  <2>1. /\ UNCHANGED <<body, applied>>
        /\ pc[r] = "mark" /\ status[r] = "pending"
        /\ \/ status' = status /\ poll' = poll
           \/ /\ status' = [status EXCEPT ![r] = "in_progress"]
              /\ poll' = poll \/ poll' = [poll EXCEPT ![r] = "polling"]
        /\ \A q \in Request : pc'[q] = "create" => pc[q] = "create"
    BY <1>0, <1>4, OkMeansTook DEF MarkInProgress, StartsPoller, TypeOK, RequestStage
  <2> QED
    BY <1>0, <2>1 DEF AppliedInv, PollerOwnsRow, RolloutFirst, SuccessMeansApplied, TypeOK
<1> QED
  BY <1>1, <1>2, <1>3, <1>4 DEF HandlerCall

\* The poller keeps it: it reports success only after the rollout.
LEMMA PollerKeepsApplied ==
  ASSUME AppliedInv, StageInv', NEW r \in Request,
         PollTick(r) \/ DeployToK8s(r) \/ RecordResult(r)
  PROVE  AppliedInv'
<1> USE DEF dbVars, kubeVars, pollVars, githubVars, IsDeploy
<1>0. /\ TypeOK /\ RequestStage
      /\ PollerOwnsRow /\ RolloutFirst /\ SuccessMeansApplied
  BY DEF AppliedInv, StageInv
<1>1. CASE PollTick(r) \/ DeployToK8s(r)
  <2>1. /\ UNCHANGED <<body, pc, status>>
        /\ applied \subseteq applied'
        /\ poll[r] \in {"polling", "apply"}
        /\ \E p \in {"apply", "succeed", "fail"} : poll' = [poll EXCEPT ![r] = p]
        /\ poll'[r] = "succeed" => r \in applied'
    BY <1>0, <1>1, OkMeansTook
       DEF PollTick, PollCompletedRun, PollTimeout, DeployToK8s, AfterRun, TimesOut,
           AfterRollout, TypeOK
  <2> QED
    BY <1>0, <2>1 DEF AppliedInv, PollerOwnsRow, RolloutFirst, SuccessMeansApplied, TypeOK
<1>2. CASE RecordResult(r)
  <2>1. /\ UNCHANGED <<body, pc, applied>>
        /\ poll[r] \in {"succeed", "fail"} /\ poll' = [poll EXCEPT ![r] = "ended"]
        /\ \/ status' = status
           \/ poll[r] = "succeed" /\ status' = [status EXCEPT ![r] = "success"]
           \/ status' = [status EXCEPT ![r] = "failed"]
    BY <1>2 DEF RecordResult
  <2>2. body[r].kind = "deploy" /\ status[r] = "in_progress"
    BY <1>0, <2>1 DEF RequestStage, PollerOwnsRow
  <2> QED
    BY <1>0, <2>1, <2>2
       DEF AppliedInv, PollerOwnsRow, RolloutFirst, SuccessMeansApplied, TypeOK
<1> QED
  BY <1>1, <1>2

\* The callback handlers keep it, whatever they are told: a row they may write is
\* that of a rollback, which has been rolled out and has no poller.
LEMMA CallKeepsApplied ==
  ASSUME AppliedInv, StageInv', Reports = {"rollback"}, NEW h \in CallSlot,
         \/ \E r \in Request, result \in Status : ReceiveReport(h, r, result)
         \/ StoreReport(h) \/ UpdateServiceVersion(h)
  PROVE  AppliedInv'
<1> USE DEF dbVars, kubeVars, pollVars, githubVars, IsDeploy
<1>0. /\ TypeOK /\ RequestStage /\ CallStage
      /\ PollerOwnsRow /\ RolloutFirst /\ SuccessMeansApplied
  BY DEF AppliedInv, StageInv
<1>1. CASE \/ \E r \in Request, result \in Status : ReceiveReport(h, r, result)
           \/ UpdateServiceVersion(h)
  BY <1>1, AppliedFrame DEF ReceiveReport, UpdateServiceVersion
<1>2. CASE StoreReport(h)
  <2> DEFINE q == call[h].release
  <2>1. /\ q \in Request /\ body[q].kind = "rollback"
        /\ status[q] \in {"in_progress"} \cup Terminal
        /\ call[h].result \in Terminal
    BY <1>0, <1>2 DEF StoreReport, CallStage, TypeOK, Call
  <2>2. /\ UNCHANGED <<body, pc, poll, applied>>
        /\ status' = status \/ status' = [status EXCEPT ![q] = call[h].result]
    BY <1>2 DEF StoreReport
  <2> QED
    BY <1>0, <2>1, <2>2
       DEF AppliedInv, PollerOwnsRow, RolloutFirst, SuccessMeansApplied, TypeOK, RequestStage,
           Terminal
<1> QED
  BY <1>1, <1>2

\* GitHub, settings and restarts keep it.
LEMMA EnvironmentKeepsApplied ==
  ASSUME AppliedInv, StageInv',
         \/ \E r \in Request : RunListed(r) \/ RunEnds(r)
         \/ \E s \in Service : CoverageChange(s)
         \/ Restart
  PROVE  AppliedInv'
<1> USE DEF dbVars, kubeVars, pollVars, githubVars, IsDeploy
<1>1. CASE \/ \E r \in Request : RunListed(r) \/ RunEnds(r)
           \/ \E s \in Service : CoverageChange(s)
  BY <1>1, AppliedFrame DEF RunListed, RunEnds, CoverageChange
<1>2. CASE Restart
  BY <1>2 DEF Restart, AppliedInv, PollerOwnsRow, RolloutFirst, SuccessMeansApplied
<1> QED
  BY <1>1, <1>2

\* Every step, and every stutter, keeps it.
LEMMA NextKeepsApplied ==
  ASSUME AppliedInv, [Next]_vars, Reports = {"rollback"}
  PROVE  AppliedInv'
<1>1. StageInv'
  BY NextKeepsStage DEF AppliedInv
<1>2. CASE UNCHANGED vars
  BY <1>1, <1>2, AppliedFrame DEF vars, dbVars, kubeVars, pollVars, githubVars
<1>3. CASE Next
  BY <1>1, <1>3, HandlerKeepsApplied, PollerKeepsApplied, CallKeepsApplied,
     EnvironmentKeepsApplied DEF Next
<1> QED
  BY <1>2, <1>3

\* The inductive invariant behind a result that is truthful.
LEMMA AppliedInvariant ==
  ASSUME Reports = {"rollback"}
  PROVE  Spec => []AppliedInv
<1>1. Init => AppliedInv
  BY InitStage DEF Init, AppliedInv, PollerOwnsRow, RolloutFirst, SuccessMeansApplied
<1>2. AppliedInv /\ [Next]_vars => AppliedInv'
  BY NextKeepsApplied
<1> QED
  BY <1>1, <1>2, PTL DEF Spec

\* No release is shown as success whose rollout never reached the cluster, also
\* when the reports about a rollback are wrong or contradict one another.
THEOREM SuccessIsApplied ==
  ASSUME Reports = {"rollback"}
  PROVE  Spec => []SuccessMeansApplied
<1>1. AppliedInv => SuccessMeansApplied
  BY DEF AppliedInv
<1> QED
  BY <1>1, AppliedInvariant, PTL

\* A poller never works on a row that already has its result.
THEOREM PollerAlone ==
  ASSUME Reports = {"rollback"}
  PROVE  Spec => []PollerOwnsRow
<1>1. AppliedInv => PollerOwnsRow
  BY DEF AppliedInv
<1> QED
  BY <1>1, AppliedInvariant, PTL

\* A deploy that nobody works on has no writer left.
LEMMA AbandonedStays ==
  ASSUME AppliedInv, [Next]_vars, Reports = {"rollback"}, NEW r \in Request, Abandoned(r)
  PROVE  Abandoned(r)'
<1> USE DEF dbVars, kubeVars, pollVars, githubVars
<1>0. /\ TypeOK /\ RequestStage /\ CallStage /\ PollerOwnsRow
      /\ IsDeploy(r) /\ IsDeploy(r)' /\ pc[r] = "done"
  <2>1. TypeOK /\ RequestStage /\ CallStage /\ PollerOwnsRow /\ body' = body
    BY GreenStaysGreen DEF AppliedInv, StageInv
  <2>2. pc[r] = "done"
    BY <2>1 DEF RequestStage, Abandoned, TypeOK
  <2> QED
    BY <2>1, <2>2 DEF Abandoned, IsDeploy
<1>1. CASE status'[r] = status[r] /\ poll'[r] \in {"off", "ended"}
  BY <1>0, <1>1 DEF Abandoned
<1>2. CASE Restart
  BY <1>2 DEF Restart, Abandoned, IsDeploy
<1>3. ASSUME NEW q \in Request,
             \/ HandlerCall(q) \/ PollTick(q) \/ DeployToK8s(q) \/ RecordResult(q)
      PROVE  status'[r] = status[r] /\ poll'[r] \in {"off", "ended"}
  <2>1. q # r
    BY <1>0, <1>3
       DEF HandlerCall, ApplyKubeRollback, CreatePending, DispatchWorkflow, MarkInProgress,
           PollTick, PollCompletedRun, PollTimeout, TimesOut, DeployToK8s, RecordResult, Abandoned
  <2>2. status'[r] = status[r]
    BY <1>0, <1>3, <2>1
       DEF HandlerCall, ApplyKubeRollback, CreatePending, DispatchWorkflow, MarkInProgress,
           PollTick, PollCompletedRun, PollTimeout, DeployToK8s, RecordResult, TypeOK
  <2>3. poll'[r] = poll[r]
    BY <1>0, <1>3, <2>1
       DEF HandlerCall, ApplyKubeRollback, CreatePending, DispatchWorkflow, MarkInProgress,
           PollTick, PollCompletedRun, PollTimeout, DeployToK8s, RecordResult, TypeOK
  <2> QED
    BY <2>2, <2>3 DEF Abandoned
<1>4. ASSUME NEW h \in CallSlot, StoreReport(h)
      PROVE  status'[r] = status[r] /\ poll'[r] \in {"off", "ended"}
  <2>1. call[h].release # r
    BY <1>0, <1>4 DEF StoreReport, CallStage, IsDeploy
  <2> QED
    BY <1>0, <1>4, <2>1 DEF StoreReport, TypeOK, Abandoned
<1> QED
  BY <1>1, <1>2, <1>3, <1>4
     DEF Next, vars, Reject, AcceptDeploy, AcceptRollback, RunListed, RunEnds, ReceiveReport,
         UpdateServiceVersion, CoverageChange, Abandoned

\* Nothing resumes a poller: a deploy in progress that has lost its poller, to a
\* restart (handler.go 291), to an update that was not acknowledged (280-283) or to
\* the failure of its last write (560), is in progress for ever.
THEOREM AbandonedForGood ==
  ASSUME Reports = {"rollback"}, NEW r \in Request
  PROVE  Spec => [](Abandoned(r) => []Abandoned(r))
<1>1. AppliedInv /\ Abandoned(r) /\ [Next]_vars => Abandoned(r)'
  BY AbandonedStays
<1> QED
  BY <1>1, AppliedInvariant, PTL DEF Spec

(***************************************************************************)
(* What holds when, besides, the reports of one release that are under way *)
(* at the same time agree.                                                 *)
(***************************************************************************)

\* A version that is the tag of a success stays so while successes do.
LEMMA ReleasedStays ==
  ASSUME VersionIsReleased, UNCHANGED <<body, version>>,
         \A r \in Request : status[r] = "success" => status'[r] = "success"
  PROVE  VersionIsReleased'
<1>1. \A r \in Request : Row(r)' = Row(r)
  BY RowFixed
<1> QED
  BY <1>1 DEF VersionIsReleased, RollbackCandidates

\* A step that leaves the rows that have a result and those under report alone.
LEMMA ResultFrame ==
  ASSUME ResultInv, AppliedInv', UNCHANGED <<body, version, call>>,
         \A r \in Request : \/ status'[r] = status[r]
                            \/ status[r] # "success" /\ body[r].kind \notin Reports
                            \/ status[r] \in {"none", "pending"}
  PROVE  ResultInv'
<1>0. CallStage /\ CallAgrees /\ VersionIsReleased
  BY DEF ResultInv, AppliedInv, StageInv
<1>1. \A r \in Request : status[r] = "success" => status'[r] = "success"
  OBVIOUS
<1>2. VersionIsReleased'
  BY <1>0, <1>1, ReleasedStays
<1>3. \A h \in CallSlot : call[h].at # "idle" =>
        status'[call[h].release] = status[call[h].release]
  BY <1>0 DEF CallStage, Terminal
<1>4. CallAgrees'
  BY <1>0, <1>3 DEF CallAgrees
<1> QED
  BY <1>2, <1>4 DEF ResultInv

\* Handlers and pollers keep it: they write rows that nobody reports, or not yet.
LEMMA WorkerKeepsResult ==
  ASSUME ResultInv, AppliedInv', Reports = {"rollback"}, NEW r \in Request,
         \/ Reject(r) \/ AcceptDeploy(r) \/ AcceptRollback(r) \/ HandlerCall(r)
         \/ PollTick(r) \/ DeployToK8s(r) \/ RecordResult(r)
  PROVE  ResultInv'
<1> USE DEF dbVars, kubeVars, pollVars, githubVars, IsDeploy
<1>0. TypeOK /\ RequestStage /\ PollerOwnsRow
  BY DEF ResultInv, AppliedInv, StageInv
<1>1. CASE CreatePending(r) \/ MarkInProgress(r)
  <2>1. /\ UNCHANGED <<body, version, call>>
        /\ status[r] \in {"none", "pending"}
        /\ \A q \in Request : q # r => status'[q] = status[q]
    BY <1>0, <1>1 DEF CreatePending, MarkInProgress, TypeOK, RequestStage
  <2> QED
    BY <2>1, ResultFrame
<1>2. CASE RecordResult(r)
  <2>1. /\ UNCHANGED <<body, version, call>>
        /\ status[r] = "in_progress" /\ body[r].kind = "deploy"
        /\ \A q \in Request : q # r => status'[q] = status[q]
    BY <1>0, <1>2 DEF RecordResult, TypeOK, RequestStage, PollerOwnsRow
  <2> QED
    BY <2>1, ResultFrame
<1>3. CASE UNCHANGED <<body, status, version, call>>
  BY <1>3, ResultFrame
<1> QED
  BY <1>1, <1>2, <1>3
     DEF Reject, AcceptDeploy, AcceptRollback, HandlerCall, ApplyKubeRollback,
         DispatchWorkflow, PollTick, PollCompletedRun, PollTimeout, DeployToK8s

\* The callback handlers keep it: a second report finds the result it brings.
LEMMA CallKeepsResult ==
  ASSUME ResultInv, AppliedInv', ~MayConflict, NEW h \in CallSlot,
         \/ \E r \in Request, result \in Status : ReceiveReport(h, r, result)
         \/ StoreReport(h) \/ UpdateServiceVersion(h)
  PROVE  ResultInv'
<1> USE DEF dbVars, kubeVars, pollVars, githubVars, IsDeploy
<1>0. TypeOK /\ CallStage /\ CallAgrees /\ VersionIsReleased
  BY DEF ResultInv, AppliedInv, StageInv
<1>t. /\ status \in [Request -> Status \cup {"none"}]
      /\ call \in [CallSlot -> Call]
      /\ version \in [Service -> Tag \cup {NoVersion}]
  BY <1>0 DEF TypeOK
<1>1. ASSUME NEW r \in Request, NEW result \in Status, ReceiveReport(h, r, result)
      PROVE  ResultInv'
  <2>1. /\ UNCHANGED <<body, status, version>>
        /\ status[r] = "in_progress"
        /\ \A g \in CallSlot : call[g].release = r => call[g].result = result
        /\ call' = [call EXCEPT ![h] = [at |-> "update", release |-> r, result |-> result]]
    BY <1>1 DEF ReceiveReport, Sent, TakesResult
  <2>2. CallAgrees'
    BY <1>0, <1>t, <2>1 DEF CallAgrees
  <2>3. VersionIsReleased'
    BY <1>0, <2>1, ReleasedStays
  <2> QED
    BY <2>2, <2>3 DEF ResultInv
<1>2. CASE StoreReport(h)
  <2> DEFINE q == call[h].release
  <2>1. /\ q \in Request
        /\ status[q] \in {"in_progress", call[h].result}
        /\ call[h].result \in Terminal
        /\ \A g \in CallSlot : call[g].release = q => call[g].result = call[h].result
    BY <1>0, <1>t, <1>2 DEF StoreReport, CallStage, CallAgrees, Call
  <2>2. /\ UNCHANGED <<body, version>>
        /\ \/ status' = status /\ call' = [call EXCEPT ![h] = IdleCall]
           \/ /\ status' = [status EXCEPT ![q] = call[h].result]
              /\ \/ call' = [call EXCEPT ![h] = IdleCall]
                 \/ /\ call' = [call EXCEPT ![h].at = "version"]
                    /\ call[h].result = "success"
    BY <1>2, OkMeansTook DEF StoreReport, BumpsVersion
  <2>3. \A g \in CallSlot : call'[g].at # "idle" =>
          /\ call[g].at # "idle"
          /\ call'[g].release = call[g].release /\ call'[g].result = call[g].result
          /\ call'[g].at = "version" => call[g].at = "version" \/ g = h
    BY <1>t, <1>2, <2>2 DEF StoreReport, IdleCall, Call
  <2>4. \A g \in CallSlot : call'[g].release \in Request =>
          call'[g].release = call[g].release /\ call'[g].result = call[g].result
    BY <1>t, <2>2, FreshAssumption DEF IdleCall, Call
  <2>5. CallAgrees'
    <3> SUFFICES ASSUME NEW g \in CallSlot, call'[g].at # "idle"
                 PROVE  /\ status'[call'[g].release] \in {"in_progress", call'[g].result}
                        /\ call'[g].at = "version" => status'[call'[g].release] = "success"
                        /\ \A f \in CallSlot :
                             call'[f].release = call'[g].release
                               => call'[f].result = call'[g].result
      BY DEF CallAgrees
    <3>1. /\ call[g].at # "idle" /\ call[g].release \in Request
          /\ call'[g].release = call[g].release /\ call'[g].result = call[g].result
          /\ call'[g].at = "version" => call[g].at = "version" \/ g = h
      BY <1>0, <2>3 DEF CallStage
    <3>2. /\ status[call[g].release] \in {"in_progress", call[g].result}
          /\ call[g].at = "version" => status[call[g].release] = "success"
          /\ \A f \in CallSlot :
               call[f].release = call[g].release => call[f].result = call[g].result
      BY <1>0, <3>1 DEF CallAgrees
    <3>3. call'[g].at = "version" /\ g = h
            => status' = [status EXCEPT ![q] = call[h].result] /\ call[h].result = "success"
      BY <1>t, <2>2 DEF IdleCall
    <3>4. call[g].at = "version" /\ call[g].release = q => call[h].result = "success"
      BY <2>1, <3>2 DEF Terminal
    <3>5. status'[call'[g].release] \in {"in_progress", call'[g].result}
      BY <1>t, <2>1, <2>2, <3>1, <3>2
    <3>6. call'[g].at = "version" => status'[call'[g].release] = "success"
      BY <1>t, <2>1, <2>2, <3>1, <3>2, <3>3, <3>4
    <3>7. \A f \in CallSlot :
            call'[f].release = call'[g].release => call'[f].result = call'[g].result
      BY <2>4, <3>1, <3>2
    <3> QED
      BY <3>5, <3>6, <3>7
  <2>6. VersionIsReleased'
    BY <1>0, <1>t, <2>1, <2>2, ReleasedStays
  <2> QED
    BY <2>5, <2>6 DEF ResultInv
<1>3. CASE UpdateServiceVersion(h)
  <2> DEFINE q == call[h].release
  <2>1. q \in Request /\ status[q] = "success" /\ Row(q).git_tag # Empty
    BY <1>0, <1>3, RowTag DEF UpdateServiceVersion, CallStage, CallAgrees
  <2>2. /\ UNCHANGED <<body, status>>
        /\ call' = [call EXCEPT ![h] = IdleCall]
        /\ \/ version' = version
           \/ version' = [version EXCEPT ![Row(q).service] = Row(q).git_tag]
    BY <1>3 DEF UpdateServiceVersion
  <2>3. CallAgrees'
    BY <1>0, <1>t, <2>2, FreshAssumption DEF CallAgrees, CallStage, IdleCall
  <2>4. VersionIsReleased'
    <3>1. \A r \in Request : Row(r)' = Row(r)
      BY <2>2, RowFixed
    <3> SUFFICES ASSUME NEW s \in Service, version'[s] # NoVersion
                 PROVE  version'[s] \in RollbackCandidates(s)
      BY <2>2, <3>1 DEF VersionIsReleased, RollbackCandidates
    <3>2. CASE version'[s] = version[s]
      BY <1>0, <3>2 DEF VersionIsReleased
    <3>3. CASE version'[s] # version[s]
      <4>1. s = Row(q).service /\ version'[s] = Row(q).git_tag
        BY <1>t, <2>2, <3>3
      <4> QED
        BY <2>1, <4>1 DEF RollbackCandidates
    <3> QED
      BY <3>2, <3>3
  <2> QED
    BY <2>3, <2>4 DEF ResultInv
<1> QED
  BY <1>1, <1>2, <1>3

\* GitHub, settings and restarts keep it.
LEMMA EnvironmentKeepsResult ==
  ASSUME ResultInv, AppliedInv',
         \/ \E r \in Request : RunListed(r) \/ RunEnds(r)
         \/ \E s \in Service : CoverageChange(s)
         \/ Restart
  PROVE  ResultInv'
<1> USE DEF dbVars, kubeVars, pollVars, githubVars
<1>1. CASE \/ \E r \in Request : RunListed(r) \/ RunEnds(r)
           \/ \E s \in Service : CoverageChange(s)
  BY <1>1, ResultFrame DEF RunListed, RunEnds, CoverageChange
<1>2. CASE Restart
  <2>1. VersionIsReleased'
    BY <1>2, ReleasedStays DEF Restart, ResultInv
  <2>2. CallAgrees'
    BY <1>2 DEF Restart, CallAgrees, IdleCall
  <2> QED
    BY <2>1, <2>2 DEF ResultInv
<1> QED
  BY <1>1, <1>2

\* Every step, and every stutter, keeps it.
LEMMA NextKeepsResult ==
  ASSUME ResultInv, [Next]_vars, Reports = {"rollback"}, ~MayConflict
  PROVE  ResultInv'
<1>1. AppliedInv'
  BY NextKeepsApplied DEF ResultInv
<1>2. CASE UNCHANGED vars
  BY <1>1, <1>2, ResultFrame DEF vars, dbVars, kubeVars, pollVars, githubVars
<1>3. CASE Next
  BY <1>1, <1>3, WorkerKeepsResult, CallKeepsResult, EnvironmentKeepsResult DEF Next
<1> QED
  BY <1>2, <1>3

\* The inductive invariant behind results that are final and the versions shown.
THEOREM ResultInvariant ==
  ASSUME Reports = {"rollback"}, ~MayConflict
  PROVE  Spec => []ResultInv
<1>1. Init => ResultInv
  BY InitStage DEF Init, ResultInv, AppliedInv, PollerOwnsRow, RolloutFirst, CallAgrees,
                   IdleCall, SuccessMeansApplied, VersionIsReleased
<1>2. ResultInv /\ [Next]_vars => ResultInv'
  BY NextKeepsResult
<1> QED
  BY <1>1, <1>2, PTL DEF Spec

\* The version of a service is always the tag of one of its successful releases,
\* while the reports of one release that are under way agree.
THEOREM VersionReleased ==
  ASSUME Reports = {"rollback"}, ~MayConflict
  PROVE  Spec => []VersionIsReleased
<1>1. ResultInv => VersionIsReleased
  BY DEF ResultInv
<1> QED
  BY <1>1, ResultInvariant, PTL

(***************************************************************************)
(* Releases implements ReleaseLedger.                                      *)
(***************************************************************************)

\* The ledger's rows never change.
LEMMA LedgerRowFixed ==
  ASSUME UNCHANGED body
  PROVE  LedgerRow' = LedgerRow
BY DEF LedgerRow, Row, IsDeploy

\* An empty pair of tables is an empty ledger.
LEMMA InitLedger == Init => Ledger!LedgerInit
<1> SUFFICES ASSUME Init PROVE Ledger!LedgerInit
  OBVIOUS
<1>1. TypeOK
  BY InitStage DEF StageInv
<1>2. LedgerRow \in [Request -> [service : Service, git_tag : Tag \cup {Empty}]]
  BY <1>1, RowType DEF LedgerRow
<1> QED
  BY <1>2 DEF Init, Ledger!LedgerInit

\* What a handler writes opens or starts a row.
LEMMA HandlerLedger ==
  ASSUME ResultInv, NEW r \in Request, HandlerCall(r)
  PROVE  Ledger!LedgerNext \/ UNCHANGED <<LedgerRow, status, version>>
<1> USE DEF dbVars, kubeVars, pollVars, githubVars
<1>0. UNCHANGED body /\ RequestStage
  BY DEF HandlerCall, ApplyKubeRollback, CreatePending, DispatchWorkflow, MarkInProgress,
         ResultInv, AppliedInv, StageInv
<1>1. LedgerRow' = LedgerRow
  BY <1>0, LedgerRowFixed
<1>2. CASE ApplyKubeRollback(r) \/ DispatchWorkflow(r)
  BY <1>1, <1>2 DEF ApplyKubeRollback, DispatchWorkflow
<1>3. CASE CreatePending(r)
  <2>1. /\ version' = version
        /\ status[r] = "none"
        /\ status' = status \/ status' = [status EXCEPT ![r] = "pending"]
    BY <1>0, <1>3 DEF CreatePending, RequestStage
  <2> QED
    BY <1>1, <2>1 DEF Ledger!LedgerNext, Ledger!Open
<1>4. CASE MarkInProgress(r)
  <2>1. /\ version' = version
        /\ status[r] = "pending"
        /\ status' = status \/ status' = [status EXCEPT ![r] = "in_progress"]
    BY <1>0, <1>4 DEF MarkInProgress, RequestStage
  <2> QED
    BY <1>1, <2>1 DEF Ledger!LedgerNext, Ledger!Start
<1> QED
  BY <1>2, <1>3, <1>4 DEF HandlerCall

\* What a poller writes finishes a row in progress.
LEMMA RecordLedger ==
  ASSUME ResultInv, NEW r \in Request, RecordResult(r)
  PROVE  Ledger!LedgerNext \/ UNCHANGED <<LedgerRow, status, version>>
<1> USE DEF dbVars, kubeVars, pollVars, githubVars
<1>1. LedgerRow' = LedgerRow
  BY LedgerRowFixed DEF RecordResult
<1>2. /\ version' = version
      /\ status[r] = "in_progress"
      /\ \/ status' = status
         \/ \E v \in {"success", "failed"} : status' = [status EXCEPT ![r] = v]
  BY DEF RecordResult, ResultInv, AppliedInv, PollerOwnsRow
<1> QED
  BY <1>1, <1>2 DEF Ledger!LedgerNext, Ledger!Finish

\* A report's first write finishes its row, or repeats the result it has.
LEMMA ReportLedger ==
  ASSUME ResultInv, NEW h \in CallSlot, StoreReport(h)
  PROVE  Ledger!LedgerNext \/ UNCHANGED <<LedgerRow, status, version>>
<1> USE DEF dbVars, kubeVars, pollVars, githubVars
<1> DEFINE q == call[h].release
<1>1. LedgerRow' = LedgerRow
  BY LedgerRowFixed DEF StoreReport
<1>2. /\ q \in Request
      /\ status[q] \in {"in_progress", call[h].result}
      /\ call[h].result \in {"success", "failed"}
      /\ status \in [Request -> Status \cup {"none"}]
  BY DEF StoreReport, ResultInv, AppliedInv, StageInv, CallStage, CallAgrees, TypeOK, Call, Terminal
<1>3. /\ version' = version
      /\ status' = status \/ status' = [status EXCEPT ![q] = call[h].result]
  BY DEF StoreReport
<1>4. CASE status[q] = "in_progress"
  BY <1>1, <1>2, <1>3, <1>4 DEF Ledger!LedgerNext, Ledger!Finish
<1>5. CASE status[q] = call[h].result
  BY <1>1, <1>2, <1>3, <1>5
<1> QED
  BY <1>2, <1>4, <1>5

\* A report's second write publishes the tag of a successful row.
LEMMA PublishLedger ==
  ASSUME ResultInv, NEW h \in CallSlot, UpdateServiceVersion(h)
  PROVE  Ledger!LedgerNext \/ UNCHANGED <<LedgerRow, status, version>>
<1> USE DEF dbVars, kubeVars, pollVars, githubVars
<1> DEFINE q == call[h].release
<1>1. LedgerRow' = LedgerRow
  BY LedgerRowFixed DEF UpdateServiceVersion
<1>2. q \in Request /\ status[q] = "success" /\ body[q].git_tag # Empty /\ TypeOK
  BY DEF UpdateServiceVersion, ResultInv, AppliedInv, StageInv, CallStage, CallAgrees
<1>3. /\ LedgerRow[q].service = Row(q).service
      /\ LedgerRow[q].git_tag = Row(q).git_tag
      /\ Row(q).git_tag # Empty
  BY <1>2, RowTag DEF LedgerRow
<1>4. /\ status' = status
      /\ \/ version' = version
         \/ version' = [version EXCEPT ![Row(q).service] = Row(q).git_tag]
  BY DEF UpdateServiceVersion
<1> QED
  BY <1>1, <1>2, <1>3, <1>4 DEF Ledger!LedgerNext, Ledger!Publish

\* Every step is a step of the ledger or leaves it as it is.
LEMMA StepLedger ==
  ASSUME ResultInv, [Next]_vars
  PROVE  [Ledger!LedgerNext]_(Ledger!ledgerVars)
<1> USE DEF dbVars, kubeVars, pollVars, githubVars
<1>1. CASE UNCHANGED <<body, status, version>>
  BY <1>1, LedgerRowFixed DEF Ledger!ledgerVars
<1>2. CASE \E r \in Request : HandlerCall(r) \/ RecordResult(r)
  BY <1>2, HandlerLedger, RecordLedger DEF Ledger!ledgerVars
<1>3. CASE \E h \in CallSlot : StoreReport(h) \/ UpdateServiceVersion(h)
  BY <1>3, ReportLedger, PublishLedger DEF Ledger!ledgerVars
<1> QED
  BY <1>1, <1>2, <1>3
     DEF Next, vars, PollTick, Reject, AcceptDeploy, AcceptRollback, PollCompletedRun,
         PollTimeout, DeployToK8s, RunListed, RunEnds, ReceiveReport, CoverageChange, Restart

\* Whatever fails or restarts, the two tables behave as a release ledger while the
\* reports of one release that are under way agree.
THEOREM LedgerImplemented ==
  ASSUME Reports = {"rollback"}, ~MayConflict
  PROVE  Spec => ImplementsLedger
<1>1. ResultInv /\ [Next]_vars => [Ledger!LedgerNext]_(Ledger!ledgerVars)
  BY StepLedger
<1> QED
  BY <1>1, InitLedger, ResultInvariant, PTL DEF Spec, ImplementsLedger, Ledger!LedgerSpec

\* A result, once written, is never replaced by the other one, if the reports of a
\* release that are under way agree; two that do not may both be past the check of
\* line 59, and then the later write stays.
THEOREM ResultNeverChanges ==
  ASSUME Reports = {"rollback"}, ~MayConflict
  PROVE  Spec => ResultIsFinal
<1>1. ResultInv /\ [Next]_vars =>
        [\A r \in Request : status[r] \in Terminal => status'[r] = status[r]]_vars
  <2> SUFFICES ASSUME ResultInv, [Next]_vars, NEW r \in Request, status[r] \in Terminal
               PROVE  status'[r] = status[r]
    OBVIOUS
  <2>1. status \in [Request -> Status \cup {"none"}]
    BY DEF ResultInv, AppliedInv, StageInv, TypeOK
  <2> QED
    BY <2>1, StepLedger
       DEF Ledger!ledgerVars, Ledger!LedgerNext, Ledger!Open, Ledger!Start, Ledger!Finish,
           Ledger!Publish, Terminal
<1> QED
  BY <1>1, ResultInvariant, PTL DEF Spec, ResultIsFinal
=============================================================================
