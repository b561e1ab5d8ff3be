----------------------------- MODULE MCReleases -----------------------------
(* Bounded instances of Releases for TLC.                                   *)
EXTENDS Releases, TLC

CONSTANTS v1, v2, main, s1

MCService == {s1}
MCEnv == {"dev", "prod", "qa"}
MCTag == {v1, v2}
MCBranch == {main}

DeployBody(tag, branch, env, strategy) ==
  [kind |-> "deploy", service |-> s1, git_tag |-> tag, branch |-> branch,
   environment |-> env, strategy |-> strategy]
RollbackBody(tag, env) ==
  [kind |-> "rollback", service |-> s1, git_tag |-> tag, branch |-> Empty,
   environment |-> env, strategy |-> Empty]

\* A branch deploy and a tagged canary on dev, both on the branch, a tagged
\* deploy and a rollback on prod, and a body that no check or constraint admits.
MixedInput ==
  { DeployBody(Empty, main, Empty, Empty),
    DeployBody(v1, main, "dev", "canary"),
    DeployBody(v1, Empty, "prod", "recreate"),
    RollbackBody(v1, Empty),
    RollbackBody(v2, "qa") }

Symmetry == Permutations(Request) \cup Permutations(CallSlot)
=============================================================================
