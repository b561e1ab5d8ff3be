---------------------------- MODULE MCKubeClient ----------------------------
(* Bounded instances of KubeClient for TLC.                                 *)
EXTENDS KubeClient, TLC

CONSTANTS s1, s2

MCService == {s1}
MCTwoServices == {s1, s2}

Existing(strategy, hasApp) ==
  [image |-> Foreign, hasApp |-> hasApp, strategy |-> strategy,
   params |-> strategy = "RollingUpdate", rv |-> 1]

\* Nothing yet, or a deployment of either strategy, or one MAMS cannot edit.
AnyInitObject ==
  { Nothing, Existing("RollingUpdate", TRUE), Existing("Recreate", TRUE),
    Existing("RollingUpdate", FALSE) }

RollingOnly == { Existing("RollingUpdate", TRUE) }

AnyTask == [service : Service, kind : {"rolling", "recreate", "canary"}]

RecreateTask == [service : Service, kind : {"recreate"}]

Symmetry == Permutations(Caller) \cup Permutations(MCTwoServices)
=============================================================================
