----------------------------- MODULE KubeRollout -----------------------------
(***************************************************************************)
(* What the release engine assumes of a rollout: one call, at most one     *)
(* write of one deployment, an "ok" only after the write. It is the atomic *)
(* step Releases takes in ApplyKubeRollback and DeployToK8s.               *)
(***************************************************************************)
CONSTANTS Caller, Deployment, Nothing

VARIABLES
  target,   \* target[c]: the deployment call c is to write, fixed
  image,    \* image[d]: what deployment d runs; images are named by their caller
  answer    \* answer[c]: "idle", "running", "ok" or "error"

rolloutVars == <<target, image, answer>>

Begin(c) ==
  /\ answer[c] = "idle"
  /\ answer' = [answer EXCEPT ![c] = "running"]
  /\ UNCHANGED <<target, image>>

Write(c) ==
  /\ answer[c] = "running"
  /\ image' = [image EXCEPT ![target[c]] = c]
  /\ \E a \in {"ok", "error"} : answer' = [answer EXCEPT ![c] = a]
  /\ UNCHANGED target

GiveUp(c) ==
  /\ answer[c] = "running"
  /\ answer' = [answer EXCEPT ![c] = "error"]
  /\ UNCHANGED <<target, image>>

\* Somebody deletes a deployment from outside.
Delete(d) ==
  /\ image' = [image EXCEPT ![d] = Nothing]
  /\ UNCHANGED <<target, answer>>

RolloutInit == answer = [c \in Caller |-> "idle"]

RolloutNext ==
  \/ \E c \in Caller : Begin(c) \/ Write(c) \/ GiveUp(c)
  \/ \E d \in Deployment : Delete(d)

RolloutSpec == RolloutInit /\ [][RolloutNext]_rolloutVars
=============================================================================
