--------------------------- MODULE KubeClientProofs ---------------------------
(***************************************************************************)
(* Proofs about KubeClient for any callers, services, tasks, deployments   *)
(* at first, faults and interference.                                      *)
(***************************************************************************)
EXTENDS KubeClient, TLAPS

\* What a call has read before it comes to a write.
Reading ==
  \A c \in Caller :
    /\ pc[c] \in {"getCanary", "createCanary"} => IsCanary(c) /\ stableCopy[c] # Nothing
    /\ pc[c] \in {"getSecret", "createSecret", "create"} => ~IsCanary(c)
    /\ pc[c] = "update" => ReadCopy(c) # Nothing

\* A copy is as old as the revision at most, and what is there with its
\* resourceVersion is what was read.
StillSame(copy, now) ==
  copy # Nothing =>
    copy.rv <= revision /\ (now # Nothing /\ now.rv = copy.rv => now = copy)

Canary(c) == object[<<task[c].service, "canary">>]

VersionsTell ==
  /\ \A d \in DeploymentName : object[d] # Nothing => object[d].rv <= revision
  /\ \A c \in Caller :
       StillSame(stableCopy[c], Stable(c)) /\ StillSame(canaryCopy[c], Canary(c))

KubeInv == TypeOK /\ Reading /\ VersionsTell

\* Nothing went wrong, nobody meddled, and no call has got through yet.
Calm ==
  /\ ~faults /\ meddled = 0
  /\ \A c \in Caller : ~IsCanary(c) /\ pc[c] # "ok"

\* A call that will get through: the namespace is new, so nothing can be stale.
Winner ==
  /\ \A d \in DeploymentName : object[d] = Nothing
  /\ \E c \in Caller : pc[c] \in {"getStable", "getSecret", "createSecret", "create"}

\* Why a call has failed: it lost the namespace to one that will get through, its
\* deployment cannot be edited, or it is a recreate.
Excused(c) ==
  \/ Winner
  \/ Stable(c) # Nothing /\ ~Stable(c).hasApp
  \/ task[c].kind = "recreate"

Hope ==
  Calm =>
    /\ \A d \in DeploymentName : object[d] # Nothing => ns /\ Valid(object[d])
    /\ \A c \in Caller :
         /\ pc[c] = "createNamespace" => ~ns \/ Winner
         /\ pc[c] \in {"getSecret", "createSecret", "create"} => Stable(c) = Nothing
         /\ pc[c] = "update" => Stable(c) # Nothing /\ stableCopy[c] = Stable(c)
         /\ pc[c] = "error" => Excused(c)
-----------------------------------------------------------------------------
(* Facts about the operators.                                               *)

LEMMA TargetType ==
  ASSUME TypeOK, NEW c \in Caller
  PROVE  /\ task[c] \in [service : Service, kind : {"rolling", "recreate", "canary"}]
         /\ Target(c) \in DeploymentName
         /\ <<task[c].service, "stable">> \in DeploymentName
         /\ <<task[c].service, "canary">> \in DeploymentName
         /\ Stable(c) \in Object \cup {Nothing} /\ Canary(c) \in Object \cup {Nothing}
         /\ Target(c) = <<task[c].service, IF IsCanary(c) THEN "canary" ELSE "stable">>
<1>1. task[c] \in [service : Service, kind : {"rolling", "recreate", "canary"}]
  BY TaskAssumption DEF TypeOK
<1> QED
  BY <1>1 DEF TypeOK, Target, IsCanary, Stable, Canary, DeploymentName, Track

LEMMA NothingIsNoObject == Nothing \notin Object /\ Nothing \notin Caller /\ Nothing # Foreign
  BY NothingAssumption

\* A write puts a newer object in one place and leaves the others alone.
LEMMA PutWrites ==
  ASSUME TypeOK, NEW d \in DeploymentName, NEW o \in Object, Put(d, o)
  PROVE  /\ revision' \in Nat /\ revision' = revision + 1
         /\ object' \in [DeploymentName -> Object \cup {Nothing}]
         /\ object'[d] \in Object /\ object'[d].rv = revision' /\ object'[d].image = o.image
         /\ object'[d].strategy = o.strategy /\ object'[d].params = o.params
         /\ \A e \in DeploymentName \ {d} : object'[e] = object[e]
<1>1. revision' = revision + 1 /\ revision' \in Nat
  BY DEF Put, TypeOK
<1> DEFINE new == [o EXCEPT !.rv = revision']
<1>2. /\ new \in Object /\ new.rv = revision' /\ new.image = o.image
      /\ new.strategy = o.strategy /\ new.params = o.params
  BY <1>1 DEF Object
<1>3. object' = [object EXCEPT ![d] = new]
  BY DEF Put
<1> QED
  BY <1>1, <1>2, <1>3 DEF TypeOK

\* What a call writes is a deployment with its own image.
LEMMA WrittenType ==
  ASSUME TypeOK, Reading, NEW c \in Caller
  PROVE  /\ \A strategy \in Strategy :
              NewObject(c, strategy) \in Object /\ NewObject(c, strategy).image = c
         /\ pc[c] = "createCanary" => CanaryOf(c) \in Object /\ CanaryOf(c).image = c
         /\ pc[c] = "update" => /\ ReadCopy(c) \in Object
                                /\ Edited(c) \in Object /\ Edited(c).image = c
<1>1. \A strategy \in Strategy :
        NewObject(c, strategy) \in Object /\ NewObject(c, strategy).image = c
  BY DEF NewObject, Object
<1>2. pc[c] = "createCanary" => CanaryOf(c) \in Object /\ CanaryOf(c).image = c
  <2> SUFFICES ASSUME pc[c] = "createCanary"
               PROVE  CanaryOf(c) \in Object /\ CanaryOf(c).image = c
    OBVIOUS
  <2>1. stableCopy[c] \in Object
    BY DEF TypeOK, Reading
  <2> QED
    BY <2>1 DEF CanaryOf, Object
<1>3. pc[c] = "update" => /\ ReadCopy(c) \in Object
                          /\ Edited(c) \in Object /\ Edited(c).image = c
  <2> SUFFICES ASSUME pc[c] = "update"
               PROVE  ReadCopy(c) \in Object /\ Edited(c) \in Object /\ Edited(c).image = c
    OBVIOUS
  <2>1. ReadCopy(c) \in Object
    BY DEF TypeOK, Reading, ReadCopy
  <2> QED
    BY <2>1 DEF Edited, Object, Strategy
<1> QED
  BY <1>1, <1>2, <1>3
-----------------------------------------------------------------------------
(* Types, what calls have read, and what resourceVersions tell.             *)

LEMMA InitKube == Init => KubeInv
<1> SUFFICES ASSUME Init PROVE KubeInv
  OBVIOUS
<1>1. \A o \in InitObject : o \in Object \cup {Nothing}
  BY ObjectAssumption
<1>2. TypeOK
  <2>1. object \in [DeploymentName -> Object \cup {Nothing}]
    BY <1>1 DEF Init
  <2>2. meddled \in 0..MaxMeddling /\ revision \in Nat
    BY BoundAssumption DEF Init
  <2>3. pc \in [Caller -> Stage]
    BY DEF Init, Stage
  <2>4. task \in [Caller -> Task] /\ ns \in BOOLEAN /\ secret \in BOOLEAN /\ faults \in BOOLEAN
    BY DEF Init
  <2>5. /\ stableCopy \in [Caller -> Object \cup {Nothing}]
        /\ canaryCopy \in [Caller -> Object \cup {Nothing}]
    BY DEF Init
  <2> QED
    BY <2>1, <2>2, <2>3, <2>4, <2>5 DEF TypeOK
<1>3. Reading
  BY DEF Init, Reading
<1>4. VersionsTell
  BY ObjectAssumption DEF Init, VersionsTell, StillSame
<1> QED
  BY <1>2, <1>3, <1>4 DEF KubeInv

\* Steps that neither read nor write a deployment.
LEMMA PassesKeep ==
  ASSUME KubeInv, NEW c \in Caller,
         Begin(c) \/ CallFails(c) \/ GetNamespace(c) \/ CreateNamespace(c)
           \/ GetSecret(c) \/ CreateSecret(c)
  PROVE  KubeInv'
<1>0. UNCHANGED <<task, stableCopy, canaryCopy, object, revision, meddled>>
  BY DEF Begin, CallFails, GetNamespace, CreateNamespace, GetSecret, CreateSecret, clusterVars
<1>1. \E stage \in {"getNamespace", "getStable", "createNamespace", "createSecret", "create",
                    "error"} :
        /\ pc' = [pc EXCEPT ![c] = stage]
        /\ stage \in {"createSecret", "create"} => pc[c] \in {"getSecret", "createSecret"}
  BY DEF Begin, CallFails, GetNamespace, AfterGetNamespace, CreateNamespace, GetSecret,
         CreateSecret, Acknowledged, Goto
<1>2. ns' \in BOOLEAN /\ secret' \in BOOLEAN /\ faults' \in BOOLEAN
  BY DEF Begin, CallFails, GetNamespace, CreateNamespace, GetSecret, CreateSecret,
         Acknowledged, clusterVars, KubeInv, TypeOK
<1>3. TypeOK'
  BY <1>0, <1>1, <1>2 DEF KubeInv, TypeOK, Stage
<1>4. Reading'
  BY <1>0, <1>1 DEF KubeInv, TypeOK, Reading, IsCanary, ReadCopy
<1>5. VersionsTell'
  BY <1>0 DEF KubeInv, VersionsTell, StillSame, Stable, Canary
<1> QED
  BY <1>3, <1>4, <1>5 DEF KubeInv

LEMMA GetStableKeeps ==
  ASSUME KubeInv, NEW c \in Caller, GetStable(c)
  PROVE  KubeInv'
<1>0. /\ stableCopy' = [stableCopy EXCEPT ![c] = Stable(c)]
      /\ pc' = [pc EXCEPT ![c] = AfterGetStable(c, Stable(c))]
      /\ UNCHANGED <<task, canaryCopy, ns, secret, object, revision, faults, meddled>>
  BY DEF GetStable, Goto, clusterVars
<1>1. Stable(c) \in Object \cup {Nothing}
  BY TargetType DEF KubeInv
<1>2. /\ AfterGetStable(c, Stable(c)) \in {"error", "getSecret", "getCanary", "update"}
      /\ AfterGetStable(c, Stable(c)) = "getSecret" => ~IsCanary(c)
      /\ AfterGetStable(c, Stable(c)) = "getCanary" => IsCanary(c) /\ Stable(c) # Nothing
      /\ AfterGetStable(c, Stable(c)) = "update" => ~IsCanary(c) /\ Stable(c) # Nothing
  BY DEF AfterGetStable
<1>3. TypeOK'
  BY <1>0, <1>1, <1>2 DEF KubeInv, TypeOK, Stage
<1>4. Reading'
  BY <1>0, <1>2 DEF KubeInv, TypeOK, Reading, IsCanary, ReadCopy
<1>5. VersionsTell'
  <2>1. Stable(c) # Nothing => Stable(c).rv <= revision
    BY TargetType DEF KubeInv, VersionsTell, Stable
  <2> QED
    BY <1>0, <2>1 DEF KubeInv, TypeOK, VersionsTell, StillSame, Stable, Canary
<1> QED
  BY <1>3, <1>4, <1>5 DEF KubeInv

LEMMA GetCanaryKeeps ==
  ASSUME KubeInv, NEW c \in Caller, GetCanary(c)
  PROVE  KubeInv'
<1>0. /\ pc[c] = "getCanary" /\ IsCanary(c) /\ stableCopy[c] # Nothing
      /\ Canary(c) = object[Target(c)]
      /\ UNCHANGED <<task, stableCopy, ns, secret, object, revision, meddled>>
  BY DEF GetCanary, clusterVars, KubeInv, Reading, Canary, Target
<1>1. \/ /\ canaryCopy' = [canaryCopy EXCEPT ![c] = Canary(c)]
         /\ faults' = faults
         /\ \E stage \in {"createCanary", "error", "update"} :
              /\ pc' = [pc EXCEPT ![c] = stage]
              /\ stage = "update" => Canary(c) # Nothing
      \/ /\ canaryCopy' = canaryCopy
         /\ faults' = TRUE
         /\ \E stage \in {"createCanary", "error"} : pc' = [pc EXCEPT ![c] = stage]
  BY <1>0 DEF GetCanary, Goto
<1>2. Canary(c) \in Object \cup {Nothing}
  BY TargetType DEF KubeInv
<1>3. TypeOK'
  BY <1>0, <1>1, <1>2 DEF KubeInv, TypeOK, Stage
<1>4. Reading'
  BY <1>0, <1>1 DEF KubeInv, TypeOK, Reading, IsCanary, ReadCopy
<1>5. VersionsTell'
  <2>1. Canary(c) # Nothing => Canary(c).rv <= revision
    BY TargetType DEF KubeInv, VersionsTell, Canary
  <2> QED
    BY <1>0, <1>1, <2>1 DEF KubeInv, TypeOK, VersionsTell, StillSame, Stable, Canary
<1> QED
  BY <1>3, <1>4, <1>5 DEF KubeInv

\* A write makes every copy of what it replaces stale.
LEMMA PutTells ==
  ASSUME KubeInv, NEW d \in DeploymentName, NEW o \in Object, Put(d, o),
         UNCHANGED <<task, stableCopy, canaryCopy>>
  PROVE  VersionsTell'
<1>1. /\ revision' = revision + 1 /\ revision \in Nat
      /\ object'[d] \in Object /\ object'[d].rv = revision'
      /\ \A e \in DeploymentName \ {d} : object'[e] = object[e]
  BY PutWrites DEF KubeInv, TypeOK
<1>2. \A e \in DeploymentName : object[e] # Nothing => object[e].rv \in Nat
  BY DEF KubeInv, TypeOK, Object
<1>3. \A e \in DeploymentName : object'[e] # Nothing => object'[e].rv <= revision'
  BY <1>1, <1>2 DEF KubeInv, VersionsTell
<1>4. ASSUME NEW e \in DeploymentName, NEW copy \in Object \cup {Nothing},
             StillSame(copy, object[e])
      PROVE  copy # Nothing =>
               /\ copy.rv <= revision'
               /\ object'[e] # Nothing /\ object'[e].rv = copy.rv => object'[e] = copy
  <2>1. copy # Nothing => copy.rv \in Nat
    BY DEF Object
  <2> QED
    BY <1>1, <1>4, <2>1 DEF StillSame
<1>5. ASSUME NEW c \in Caller
      PROVE  StillSame(stableCopy[c], Stable(c))' /\ StillSame(canaryCopy[c], Canary(c))'
  <2>1. /\ <<task[c].service, "stable">> \in DeploymentName
        /\ <<task[c].service, "canary">> \in DeploymentName
        /\ stableCopy[c] \in Object \cup {Nothing} /\ canaryCopy[c] \in Object \cup {Nothing}
        /\ StillSame(stableCopy[c], object[<<task[c].service, "stable">>])
        /\ StillSame(canaryCopy[c], object[<<task[c].service, "canary">>])
    BY TargetType DEF KubeInv, TypeOK, VersionsTell, Stable, Canary
  <2> QED
    BY <1>4, <2>1 DEF StillSame, Stable, Canary
<1> QED
  BY <1>3, <1>5 DEF VersionsTell

\* The three writes of a call: it writes its own image to its target, or fails.
LEMMA WritesOnce ==
  ASSUME KubeInv, NEW c \in Caller,
         CreateDeployment(c) \/ CreateCanary(c) \/ Update(c)
  PROVE  /\ UNCHANGED <<task, stableCopy, canaryCopy, ns, secret, meddled>>
         /\ pc[c] \in {"create", "createCanary", "update"}
         /\ \/ /\ \E o \in Object : o.image = c /\ Put(Target(c), o)
               /\ Acknowledged(c, "ok")
            \/ /\ Goto(c, "error")
               /\ UNCHANGED <<object, revision, faults>>
<1> USE DEF KubeInv
<1>1. CASE CreateDeployment(c)
  <2>1. \A strategy \in Strategy :
          NewObject(c, strategy) \in Object /\ NewObject(c, strategy).image = c
    BY WrittenType
  <2> QED
    BY <1>1, <2>1 DEF CreateDeployment, Strategy
<1>2. CASE CreateCanary(c)
  BY <1>2, WrittenType DEF CreateCanary
<1>3. CASE Update(c)
  BY <1>3, WrittenType DEF Update
<1> QED
  BY <1>1, <1>2, <1>3

LEMMA WritesKeep ==
  ASSUME KubeInv, NEW c \in Caller,
         CreateDeployment(c) \/ CreateCanary(c) \/ Update(c)
  PROVE  KubeInv'
<1>0. /\ UNCHANGED <<task, stableCopy, canaryCopy, ns, secret, meddled>>
      /\ pc' \in {[pc EXCEPT ![c] = "ok"], [pc EXCEPT ![c] = "error"]}
      /\ faults' \in {faults, TRUE}
      /\ \/ UNCHANGED <<object, revision>>
         \/ \E o \in Object : Put(Target(c), o)
  BY WritesOnce DEF Acknowledged, Goto
<1>1. /\ object' \in [DeploymentName -> Object \cup {Nothing}]
      /\ revision' \in Nat
  BY <1>0, PutWrites, TargetType DEF KubeInv, TypeOK
<1>2. TypeOK'
  BY <1>0, <1>1 DEF KubeInv, TypeOK, Stage
<1>3. Reading'
  BY <1>0 DEF KubeInv, TypeOK, Reading, IsCanary, ReadCopy
<1>4. VersionsTell'
  <2>1. CASE UNCHANGED <<object, revision>>
    BY <1>0, <2>1 DEF KubeInv, VersionsTell, StillSame, Stable, Canary
  <2>2. CASE \E o \in Object : Put(Target(c), o)
    BY <1>0, <2>2, PutTells, TargetType DEF KubeInv
  <2> QED
    BY <1>0, <2>1, <2>2
<1> QED
  BY <1>2, <1>3, <1>4 DEF KubeInv

LEMMA OthersKeep ==
  ASSUME KubeInv, NEW d \in DeploymentName, ControllerTouches(d) \/ OperatorDeletes(d)
  PROVE  KubeInv'
<1>0. UNCHANGED <<task, pc, stableCopy, canaryCopy, ns, secret, faults>>
  BY DEF ControllerTouches, OperatorDeletes, callerVars
<1>1. meddled' \in 0..MaxMeddling
  BY BoundAssumption DEF ControllerTouches, OperatorDeletes, KubeInv, TypeOK
<1>2. Reading'
  BY <1>0 DEF KubeInv, Reading, IsCanary, ReadCopy
<1>3. CASE ControllerTouches(d)
  <2>1. object[d] \in Object /\ Put(d, object[d])
    BY <1>3 DEF ControllerTouches, KubeInv, TypeOK
  <2>2. TypeOK'
    BY <1>0, <1>1, <2>1, PutWrites DEF KubeInv, TypeOK
  <2>3. VersionsTell'
    BY <1>0, <2>1, PutTells
  <2> QED
    BY <1>2, <2>2, <2>3 DEF KubeInv
<1>4. CASE OperatorDeletes(d)
  <2>1. object' = [object EXCEPT ![d] = Nothing] /\ revision' = revision
    BY <1>4 DEF OperatorDeletes
  <2>2. TypeOK'
    BY <1>0, <1>1, <2>1 DEF KubeInv, TypeOK
  <2>3. \A e \in DeploymentName : object'[e] \in {object[e], Nothing}
    BY <2>1 DEF KubeInv, TypeOK
  <2>4. VersionsTell'
    BY <1>0, <2>1, <2>3, TargetType DEF KubeInv, VersionsTell, StillSame, Stable, Canary
  <2> QED
    BY <1>2, <2>2, <2>4 DEF KubeInv
<1> QED
  BY <1>3, <1>4

LEMMA NextKeepsKube == KubeInv /\ [Next]_vars => KubeInv'
<1> SUFFICES ASSUME KubeInv, [Next]_vars PROVE KubeInv'
  OBVIOUS
<1>1. CASE UNCHANGED vars
  BY <1>1 DEF KubeInv, TypeOK, Reading, VersionsTell, StillSame, Stable, Canary, IsCanary,
              ReadCopy, vars, callerVars, clusterVars
<1>2. CASE Next
  BY <1>2, PassesKeep, GetStableKeeps, GetCanaryKeeps, WritesKeep, OthersKeep DEF Next
<1> QED
  BY <1>1, <1>2

LEMMA KubeInvariant == Spec => []KubeInv
  BY InitKube, NextKeepsKube, PTL DEF Spec

\* Every variable keeps its type: no call goes on to write a copy it did not get.
THEOREM KubeTypeCorrect == Spec => []TypeOK
<1>1. KubeInv => TypeOK
  BY DEF KubeInv
<1> QED
  BY <1>1, KubeInvariant, PTL
-----------------------------------------------------------------------------
(* No lost update.                                                          *)

\* A call that writes a deployment it has read was at its update, and the API
\* server took its copy.
LEMMA OverwritesUpToDate ==
  ASSUME [Next]_vars, KubeInv, NEW c \in Caller,
         pc[c] = "update", pc'[c] # pc[c], object'[Target(c)] # object[Target(c)]
  PROVE  UpToDate(c)
<1>1. pc' # pc /\ object' # object
  OBVIOUS
<1>2. Next
  BY <1>1 DEF vars, callerVars, clusterVars
<1>3. \A d \in DeploymentName : ~ControllerTouches(d) /\ ~OperatorDeletes(d)
  BY <1>1 DEF ControllerTouches, OperatorDeletes, callerVars
<1>4. PICK b \in Caller : CreateDeployment(b) \/ CreateCanary(b) \/ Update(b)
  BY <1>1, <1>2, <1>3 DEF Next, Begin, CallFails, GetNamespace, CreateNamespace, GetStable,
                         GetCanary, GetSecret, CreateSecret, clusterVars
<1>5. \E stage \in Stage : pc' = [pc EXCEPT ![b] = stage]
  BY <1>4, WritesOnce DEF Acknowledged, Goto, Stage
<1>6. b = c
  BY <1>5 DEF KubeInv, TypeOK
<1>7. Update(c) /\ object' # object
  BY <1>1, <1>4, <1>6 DEF CreateDeployment, CreateCanary
<1> QED
  BY <1>7 DEF Update

\* Whatever an update overwrites is what its caller read, to the last field.
THEOREM NoLostUpdate == Spec => UpdatesWhatItRead
<1> DEFINE Step ==
      \A c \in Caller :
        (pc[c] = "update" /\ object'[Target(c)] # object[Target(c)] /\ pc'[c] # pc[c])
          => object[Target(c)] = ReadCopy(c)
<1>1. KubeInv /\ [Next]_vars => [Step]_vars
  <2> SUFFICES ASSUME KubeInv, [Next]_vars, NEW c \in Caller,
                      pc[c] = "update", object'[Target(c)] # object[Target(c)],
                      pc'[c] # pc[c]
               PROVE  object[Target(c)] = ReadCopy(c)
    OBVIOUS
  <2>1. object[Target(c)] # Nothing /\ object[Target(c)].rv = ReadCopy(c).rv
    BY OverwritesUpToDate DEF UpToDate
  <2>2. ReadCopy(c) # Nothing
    BY DEF KubeInv, Reading
  <2>3. StillSame(ReadCopy(c), object[Target(c)])
    BY DEF KubeInv, VersionsTell, ReadCopy, Target, Stable, Canary
  <2> QED
    BY <2>1, <2>2, <2>3 DEF StillSame
<1> QED
  BY <1>1, KubeInvariant, PTL DEF Spec, UpdatesWhatItRead
-----------------------------------------------------------------------------
(* A deployment keeps its strategy.                                         *)

\* Whatever calls hold and the API server keeps has the defaults of its strategy.
Filled(o) == o # Nothing => (o.params <=> o.strategy = "RollingUpdate")

Defaulted ==
  /\ \A d \in DeploymentName : Filled(object[d])
  /\ \A c \in Caller : Filled(stableCopy[c]) /\ Filled(canaryCopy[c])

StrategyInv == KubeInv /\ Defaulted

\* An update that the API server takes has the strategy of the copy it sends back.
LEMMA EditedKeepsStrategy ==
  ASSUME StrategyInv, NEW c \in Caller, pc[c] = "update", Valid(Edited(c))
  PROVE  Edited(c).strategy = ReadCopy(c).strategy /\ Filled(Edited(c))
<1>1. ReadCopy(c) \in Object /\ ReadCopy(c) # Nothing
  BY WrittenType, NothingIsNoObject DEF StrategyInv, KubeInv
<1>2. Filled(ReadCopy(c))
  BY DEF StrategyInv, Defaulted, ReadCopy
<1>3. /\ Edited(c).params = ReadCopy(c).params
      /\ Edited(c).strategy =
           IF task[c].kind = "recreate" THEN "Recreate" ELSE ReadCopy(c).strategy
  BY <1>1 DEF Edited, Object
<1>4. ReadCopy(c).strategy \in {"RollingUpdate", "Recreate"}
  BY <1>1 DEF Object, Strategy
<1> QED
  BY <1>1, <1>2, <1>3, <1>4 DEF Filled, Valid

\* A write creates a deployment, or gives one the strategy it has.
LEMMA WriteKeepsStrategy ==
  ASSUME StrategyInv, NEW c \in Caller,
         CreateDeployment(c) \/ CreateCanary(c) \/ Update(c)
  PROVE  \/ UNCHANGED object
         \/ \E o \in Object :
              /\ Filled(o) /\ Put(Target(c), o)
              /\ object[Target(c)] # Nothing =>
                   object'[Target(c)].strategy = object[Target(c)].strategy
<1> USE DEF StrategyInv, KubeInv
<1>0. Target(c) \in DeploymentName
  BY TargetType
<1>1. CASE CreateDeployment(c)
  <2>1. \A strategy \in Strategy :
          NewObject(c, strategy) \in Object /\ Filled(NewObject(c, strategy))
    BY WrittenType DEF NewObject, Filled
  <2> QED
    BY <1>1, <2>1 DEF CreateDeployment, Strategy
<1>2. CASE CreateCanary(c)
  <2>1. pc[c] = "createCanary" /\ stableCopy[c] \in Object /\ stableCopy[c] # Nothing
    BY <1>2 DEF CreateCanary, Reading, TypeOK
  <2>2. CanaryOf(c) \in Object /\ Filled(CanaryOf(c))
    BY <2>1, WrittenType DEF CanaryOf, Defaulted, Filled, Object
  <2> QED
    BY <1>2, <2>2 DEF CreateCanary
<1>3. CASE Update(c)
  <2>1. CASE UNCHANGED object
    BY <2>1
  <2>2. CASE UpToDate(c) /\ Valid(Edited(c)) /\ Put(Target(c), Edited(c))
    <3>1. Edited(c) \in Object /\ ReadCopy(c) # Nothing
      BY <1>3, WrittenType, NothingIsNoObject DEF Update
    <3>2. Edited(c).strategy = ReadCopy(c).strategy /\ Filled(Edited(c))
      BY <1>3, <2>2, EditedKeepsStrategy DEF Update
    <3>3. StillSame(ReadCopy(c), object[Target(c)])
      BY DEF VersionsTell, ReadCopy, Target, Stable, Canary
    <3>4. object[Target(c)] = ReadCopy(c)
      BY <2>2, <3>1, <3>3 DEF StillSame, UpToDate
    <3>5. object'[Target(c)].strategy = Edited(c).strategy
      BY <1>0, <2>2, <3>1, PutWrites
    <3> QED
      BY <2>2, <3>1, <3>2, <3>4, <3>5
  <2> QED
    BY <1>3, <2>1, <2>2 DEF Update
<1> QED
  BY <1>1, <1>2, <1>3

LEMMA InitStrategy == Init => Defaulted
  BY ObjectAssumption DEF Init, Defaulted, Filled

\* One step: what there is keeps its strategy, and everything its defaults.
LEMMA StepKeepsStrategy ==
  ASSUME StrategyInv, [Next]_vars
  PROVE  /\ Defaulted'
         /\ \A d \in DeploymentName :
              (object[d] # Nothing /\ object'[d] # Nothing)
                => object'[d].strategy = object[d].strategy
<1>0. KubeInv /\ TypeOK /\ Defaulted
  BY DEF StrategyInv, KubeInv
<1>1. ASSUME NEW d \in DeploymentName, NEW o \in Object, Filled(o), Put(d, o),
             UNCHANGED <<stableCopy, canaryCopy>>,
             object[d] # Nothing => object'[d].strategy = object[d].strategy
      PROVE  /\ Defaulted'
             /\ \A e \in DeploymentName :
                  (object[e] # Nothing /\ object'[e] # Nothing)
                    => object'[e].strategy = object[e].strategy
  <2>1. /\ object'[d].strategy = o.strategy /\ object'[d].params = o.params
        /\ \A e \in DeploymentName \ {d} : object'[e] = object[e]
    BY <1>0, <1>1, PutWrites
  <2>2. o # Nothing
    BY NothingIsNoObject
  <2>3. \A e \in DeploymentName : Filled(object'[e])
    BY <1>0, <1>1, <2>1, <2>2 DEF Defaulted, Filled
  <2>4. Defaulted'
    <3>1. \A c \in Caller : Filled(stableCopy'[c]) /\ Filled(canaryCopy'[c])
      BY <1>0, <1>1 DEF Defaulted
    <3> QED
      BY <2>3, <3>1 DEF Defaulted, Filled
  <2> QED
    BY <1>1, <2>1, <2>4
<1>2. ASSUME UNCHANGED <<object, stableCopy, canaryCopy>>
      PROVE  Defaulted'
  BY <1>0, <1>2 DEF Defaulted, Filled
<1>3. ASSUME NEW c \in Caller, CreateDeployment(c) \/ CreateCanary(c) \/ Update(c)
      PROVE  /\ Defaulted'
             /\ \A d \in DeploymentName :
                  (object[d] # Nothing /\ object'[d] # Nothing)
                    => object'[d].strategy = object[d].strategy
  <2>1. Target(c) \in DeploymentName /\ UNCHANGED <<stableCopy, canaryCopy>>
    BY <1>0, <1>3, TargetType, WritesOnce
  <2>2. \/ UNCHANGED object
        \/ \E o \in Object :
             /\ Filled(o) /\ Put(Target(c), o)
             /\ object[Target(c)] # Nothing =>
                  object'[Target(c)].strategy = object[Target(c)].strategy
    BY <1>3, WriteKeepsStrategy
  <2>3. CASE UNCHANGED object
    BY <1>2, <2>1, <2>3
  <2>4. ASSUME NEW o \in Object, Filled(o), Put(Target(c), o),
               object[Target(c)] # Nothing =>
                 object'[Target(c)].strategy = object[Target(c)].strategy
        PROVE  /\ Defaulted'
               /\ \A d \in DeploymentName :
                    (object[d] # Nothing /\ object'[d] # Nothing)
                      => object'[d].strategy = object[d].strategy
    BY <1>1, <2>1, <2>4
  <2> QED
    BY <2>2, <2>3, <2>4
<1>4. ASSUME NEW c \in Caller, GetStable(c) \/ GetCanary(c)
      PROVE  Defaulted' /\ UNCHANGED object
  <2>1. UNCHANGED object
    BY <1>4 DEF GetStable, GetCanary, clusterVars
  <2>2. Filled(Stable(c)) /\ Filled(object[Target(c)])
    BY <1>0, TargetType DEF Defaulted, Stable
  <2>3. /\ stableCopy' \in {stableCopy, [stableCopy EXCEPT ![c] = Stable(c)]}
        /\ canaryCopy' \in {canaryCopy, [canaryCopy EXCEPT ![c] = object[Target(c)]]}
    BY <1>4 DEF GetStable, GetCanary
  <2>4. \A b \in Caller : Filled(stableCopy'[b]) /\ Filled(canaryCopy'[b])
    BY <1>0, <2>2, <2>3 DEF Defaulted, TypeOK
  <2>5. \A d \in DeploymentName : Filled(object'[d])
    BY <1>0, <2>1 DEF Defaulted
  <2> QED
    BY <2>1, <2>4, <2>5 DEF Defaulted, Filled
<1>5. ASSUME NEW d \in DeploymentName, ControllerTouches(d)
      PROVE  /\ Defaulted'
             /\ \A e \in DeploymentName :
                  (object[e] # Nothing /\ object'[e] # Nothing)
                    => object'[e].strategy = object[e].strategy
  <2>1. object[d] \in Object /\ Put(d, object[d]) /\ UNCHANGED <<stableCopy, canaryCopy>>
    BY <1>0, <1>5 DEF ControllerTouches, callerVars, TypeOK
  <2>2. Filled(object[d]) /\ object'[d].strategy = object[d].strategy
    BY <1>0, <2>1, PutWrites DEF Defaulted
  <2> QED
    BY <1>1, <2>1, <2>2
<1>6. ASSUME NEW d \in DeploymentName, OperatorDeletes(d)
      PROVE  /\ Defaulted'
             /\ \A e \in DeploymentName : object'[e] \in {object[e], Nothing}
  <2>1. \A e \in DeploymentName : object'[e] \in {object[e], Nothing}
    BY <1>0, <1>6 DEF OperatorDeletes, TypeOK
  <2>2. UNCHANGED <<stableCopy, canaryCopy>>
    BY <1>6 DEF OperatorDeletes, callerVars
  <2> QED
    BY <1>0, <2>1, <2>2 DEF Defaulted, Filled
<1>7. ASSUME NEW c \in Caller,
             \/ Begin(c) \/ CallFails(c) \/ GetNamespace(c) \/ CreateNamespace(c)
             \/ GetSecret(c) \/ CreateSecret(c)
      PROVE  UNCHANGED <<object, stableCopy, canaryCopy>>
  BY <1>7 DEF Begin, CallFails, GetNamespace, CreateNamespace, GetSecret, CreateSecret,
              clusterVars
<1>8. CASE UNCHANGED vars
  BY <1>2, <1>8 DEF vars, callerVars, clusterVars
<1>9. CASE Next
  BY <1>2, <1>3, <1>4, <1>5, <1>6, <1>7, <1>9 DEF Next
<1> QED
  BY <1>8, <1>9

\* The limit that tor.md:162-165 and client_test.go 102-131 do not expect, without
\* exception: while a deployment stands, no call changes its strategy, because a
\* rolling deploy sends back the one it finds (client.go 139) and a recreate over a
\* rolling deployment is refused (175).
THEOREM StrategyNeverChanges == Spec => StrategyStuck
<1>1. Init => StrategyInv
  BY InitKube, InitStrategy DEF StrategyInv
<1>2. StrategyInv /\ [Next]_vars => StrategyInv'
  BY NextKeepsKube, StepKeepsStrategy DEF StrategyInv
<1>3. StrategyInv /\ [Next]_vars =>
        [\A d \in DeploymentName :
           (object[d] # Nothing /\ object'[d] # Nothing)
             => object'[d].strategy = object[d].strategy]_vars
  BY StepKeepsStrategy
<1> QED
  BY <1>1, <1>2, <1>3, PTL DEF Spec, StrategyStuck
-----------------------------------------------------------------------------
(* Every call is one atomic rollout.                                        *)

rolloutVars == <<[c \in Caller |-> Target(c)], CurrentImage, Answer>>

\* What a move of one call does to the answers.
LEMMA AnswerMoves ==
  ASSUME TypeOK, NEW c \in Caller, NEW stage \in Stage \ {"idle"},
         pc' = [pc EXCEPT ![c] = stage]
  PROVE  Answer' = [Answer EXCEPT ![c] = IF stage \in {"ok", "error"} THEN stage
                                         ELSE "running"]
  BY DEF TypeOK, Answer, Ended

\* A step that moves a running call on, or fails it, and writes no deployment.
LEMMA QuietStep ==
  ASSUME TypeOK, NEW c \in Caller, NEW stage \in Stage \ {"idle", "ok"},
         pc[c] \notin {"idle", "ok", "error"}, pc' = [pc EXCEPT ![c] = stage],
         UNCHANGED <<task, object>>
  PROVE  [Rollout!RolloutNext]_rolloutVars
<1>1. Answer[c] = "running"
  BY DEF Answer, Ended
<1>2. UNCHANGED <<[b \in Caller |-> Target(b)], CurrentImage>>
  BY DEF Target, IsCanary, CurrentImage
<1>3. CASE stage = "error"
  <2>1. Answer' = [Answer EXCEPT ![c] = "error"]
    BY <1>3, AnswerMoves
  <2>2. Rollout!GiveUp(c)
    BY <1>1, <1>2, <2>1 DEF Rollout!GiveUp
  <2> QED
    BY <2>2 DEF Rollout!RolloutNext
<1>4. CASE stage # "error"
  <2>1. Answer' = [Answer EXCEPT ![c] = "running"]
    BY <1>4, AnswerMoves
  <2>2. Answer' = Answer
    BY <1>1, <2>1 DEF Answer
  <2> QED
    BY <1>2, <2>2 DEF rolloutVars
<1> QED
  BY <1>3, <1>4

\* The first step of a call is the abstract Begin.
LEMMA BeginRollout ==
  ASSUME TypeOK, NEW c \in Caller, Begin(c)
  PROVE  Rollout!RolloutNext
<1>1. /\ pc[c] = "idle" /\ pc' = [pc EXCEPT ![c] = "getNamespace"]
      /\ UNCHANGED <<task, object>>
  BY DEF Begin, Goto, clusterVars
<1> DEFINE stage == "getNamespace"
<1>a. stage \in Stage \ {"idle"} /\ stage \notin {"ok", "error"}
  BY DEF Stage
<1>b. pc' = [pc EXCEPT ![c] = stage]
  BY <1>1
<1> HIDE DEF stage
<1>2. Answer' = [Answer EXCEPT ![c] = "running"]
  BY <1>a, <1>b, AnswerMoves
<1>3. Answer[c] = "idle"
  BY <1>1 DEF Answer
<1>4. UNCHANGED <<[b \in Caller |-> Target(b)], CurrentImage>>
  BY <1>1 DEF Target, IsCanary, CurrentImage
<1> QED
  BY <1>2, <1>3, <1>4 DEF Rollout!RolloutNext, Rollout!Begin

\* Reading, and writing anything but a deployment, is quiet.
LEMMA PassesRollout ==
  ASSUME KubeInv, NEW c \in Caller,
         \/ CallFails(c) \/ GetNamespace(c) \/ CreateNamespace(c) \/ GetSecret(c)
         \/ CreateSecret(c) \/ GetStable(c) \/ GetCanary(c)
  PROVE  [Rollout!RolloutNext]_rolloutVars
<1>1. UNCHANGED <<task, object>>
  BY DEF CallFails, GetNamespace, CreateNamespace, GetSecret, CreateSecret, GetStable,
         GetCanary, clusterVars
<1>2. pc[c] \notin {"idle", "ok", "error"}
  BY DEF CallFails, GetNamespace, CreateNamespace, GetSecret, CreateSecret, GetStable,
         GetCanary
<1>3. \E stage \in Stage \ {"idle", "ok"} : pc' = [pc EXCEPT ![c] = stage]
  BY DEF CallFails, GetNamespace, AfterGetNamespace, CreateNamespace, GetSecret, CreateSecret,
         GetStable, AfterGetStable, GetCanary, Acknowledged, Goto, Stage
<1> QED
  BY <1>1, <1>2, <1>3, QuietStep DEF KubeInv

\* The write of a deployment is the abstract Write, acknowledged or not; a refused
\* one is GiveUp.
LEMMA WritesRollout ==
  ASSUME KubeInv, NEW c \in Caller,
         CreateDeployment(c) \/ CreateCanary(c) \/ Update(c)
  PROVE  [Rollout!RolloutNext]_rolloutVars
<1>0. /\ TypeOK /\ UNCHANGED task
      /\ pc[c] \in {"create", "createCanary", "update"}
      /\ \/ /\ \E o \in Object : o.image = c /\ Put(Target(c), o)
            /\ \E stage \in {"ok", "error"} : pc' = [pc EXCEPT ![c] = stage]
         \/ pc' = [pc EXCEPT ![c] = "error"] /\ UNCHANGED object
  BY WritesOnce DEF KubeInv, Acknowledged, Goto
<1>1. CASE UNCHANGED object /\ pc' = [pc EXCEPT ![c] = "error"]
  BY <1>0, <1>1, QuietStep DEF Stage
<1>2. CASE /\ \E o \in Object : o.image = c /\ Put(Target(c), o)
           /\ \E stage \in {"ok", "error"} : pc' = [pc EXCEPT ![c] = stage]
  <2>1. /\ Target(c) \in DeploymentName
        /\ object'[Target(c)] \in Object /\ object'[Target(c)].image = c
        /\ \A d \in DeploymentName \ {Target(c)} : object'[d] = object[d]
    BY <1>0, <1>2, PutWrites, TargetType
  <2>2. CurrentImage' = [CurrentImage EXCEPT ![Target(c)] = c]
    BY <2>1, NothingIsNoObject DEF CurrentImage
  <2>3. \E a \in {"ok", "error"} : Answer' = [Answer EXCEPT ![c] = a]
    BY <1>0, <1>2, AnswerMoves DEF Stage
  <2>4. Answer[c] = "running" /\ UNCHANGED [b \in Caller |-> Target(b)]
    BY <1>0 DEF Answer, Ended, Target, IsCanary
  <2>5. Rollout!Write(c)
    BY <2>2, <2>3, <2>4 DEF Rollout!Write
  <2> QED
    BY <2>5 DEF Rollout!RolloutNext
<1> QED
  BY <1>0, <1>1, <1>2

\* The controller changes no image; an operator's deletion is the abstract Delete.
LEMMA OthersRollout ==
  ASSUME KubeInv, NEW d \in DeploymentName, ControllerTouches(d) \/ OperatorDeletes(d)
  PROVE  [Rollout!RolloutNext]_rolloutVars
<1>0. UNCHANGED <<[b \in Caller |-> Target(b)], Answer>> /\ TypeOK
  BY DEF ControllerTouches, OperatorDeletes, callerVars, Target, IsCanary, Answer, Ended,
         KubeInv
<1>1. CASE ControllerTouches(d)
  <2>1. object[d] \in Object /\ Put(d, object[d])
    BY <1>0, <1>1 DEF ControllerTouches, TypeOK
  <2>2. /\ object'[d] \in Object /\ object'[d].image = object[d].image
        /\ \A e \in DeploymentName \ {d} : object'[e] = object[e]
    BY <1>0, <2>1, PutWrites
  <2>3. UNCHANGED CurrentImage
    BY <2>1, <2>2, NothingIsNoObject DEF CurrentImage
  <2> QED
    BY <1>0, <2>3 DEF rolloutVars
<1>2. CASE OperatorDeletes(d)
  <2>1. object' = [object EXCEPT ![d] = Nothing]
    BY <1>2 DEF OperatorDeletes
  <2>2. CurrentImage' = [CurrentImage EXCEPT ![d] = Nothing]
    BY <1>0, <2>1 DEF CurrentImage, TypeOK
  <2>3. Rollout!Delete(d)
    BY <1>0, <2>2 DEF Rollout!Delete
  <2> QED
    BY <2>3 DEF Rollout!RolloutNext
<1> QED
  BY <1>1, <1>2

LEMMA StepRollout == KubeInv /\ [Next]_vars => [Rollout!RolloutNext]_(Rollout!rolloutVars)
<1> SUFFICES ASSUME KubeInv, [Next]_vars PROVE [Rollout!RolloutNext]_rolloutVars
  BY DEF rolloutVars, Rollout!rolloutVars
<1>1. CASE UNCHANGED vars
  BY <1>1 DEF vars, callerVars, clusterVars, rolloutVars, Target, IsCanary, CurrentImage,
              Answer, Ended
<1>2. CASE Next
  BY <1>2, BeginRollout, PassesRollout, WritesRollout, OthersRollout DEF Next, KubeInv
<1> QED
  BY <1>1, <1>2

\* Up to six API calls, raced by others and failing anywhere, come to one write of
\* the deployment the call is about, or none, and to "ok" only after it.
THEOREM EveryCallIsOneRollout == Spec => ImplementsRollout
<1>1. Init => Rollout!RolloutInit
  BY DEF Init, Rollout!RolloutInit, Answer
<1> QED
  BY <1>1, StepRollout, KubeInvariant, PTL DEF Spec, ImplementsRollout, Rollout!RolloutSpec
-----------------------------------------------------------------------------
(* Concurrent rolling deploys do not all fail.                              *)

LEMMA InitHope == Init => Hope
<1> SUFFICES ASSUME Init PROVE Hope
  OBVIOUS
<1>1. \A d \in DeploymentName : object[d] # Nothing => ns /\ Valid(object[d])
  BY ObjectAssumption DEF Init, Valid
<1>2. \A c \in Caller : pc[c] = "idle"
  BY DEF Init
<1> QED
  BY <1>1, <1>2 DEF Hope

\* A calm step comes from a calm state, writes no deployment and is one of seven.
LEMMA CalmStep ==
  ASSUME KubeInv, Hope, Next, Calm'
  PROVE  /\ Calm /\ UNCHANGED <<task, object, faults>>
         /\ \E c \in Caller :
              \/ Begin(c) \/ GetNamespace(c) \/ CreateNamespace(c) \/ GetStable(c)
              \/ GetSecret(c) \/ CreateSecret(c)
              \/ Update(c) /\ pc' = [pc EXCEPT ![c] = "error"]
<1>1. \A d \in DeploymentName : ~ControllerTouches(d) /\ ~OperatorDeletes(d)
  BY DEF Calm, ControllerTouches, OperatorDeletes, KubeInv, TypeOK
<1>2. PICK c \in Caller :
        \/ Begin(c) \/ CallFails(c) \/ GetNamespace(c) \/ CreateNamespace(c)
        \/ GetStable(c) \/ GetCanary(c) \/ GetSecret(c) \/ CreateSecret(c)
        \/ CreateDeployment(c) \/ CreateCanary(c) \/ Update(c)
  BY <1>1 DEF Next
<1>3. /\ UNCHANGED <<task, meddled>> /\ faults' \in {faults, TRUE}
      /\ pc[c] # "ok" /\ \E stage \in Stage : pc' = [pc EXCEPT ![c] = stage]
  <2>1. CASE CreateDeployment(c) \/ CreateCanary(c) \/ Update(c)
    BY <2>1, WritesOnce DEF Acknowledged, Goto, Stage
  <2>2. CASE \/ Begin(c) \/ CallFails(c) \/ GetNamespace(c) \/ CreateNamespace(c)
             \/ GetStable(c) \/ GetCanary(c) \/ GetSecret(c) \/ CreateSecret(c)
    BY <2>2 DEF Begin, CallFails, GetNamespace, AfterGetNamespace, CreateNamespace, GetStable,
                AfterGetStable, GetCanary, GetSecret, CreateSecret, Acknowledged, Goto, Stage
  <2> QED
    BY <1>2, <2>1, <2>2
<1>4. Calm /\ faults' = faults
  <2>1. ~faults /\ faults' = faults
    <3>1. faults \in BOOLEAN /\ ~faults'
      BY DEF Calm, KubeInv, TypeOK
    <3> QED
      BY <1>3, <3>1
  <2>2. meddled = 0
    BY <1>3 DEF Calm
  <2>3. \A b \in Caller : ~IsCanary(b) /\ pc[b] # "ok"
    BY <1>3 DEF Calm, IsCanary, KubeInv, TypeOK
  <2> QED
    BY <2>1, <2>2, <2>3 DEF Calm
<1>5. ~CallFails(c) /\ ~GetCanary(c) /\ ~CreateCanary(c)
  BY <1>4 DEF Calm, CallFails, GetCanary, CreateCanary, KubeInv, Reading
<1>6. ASSUME CreateDeployment(c) \/ Update(c)
      PROVE  ~Acknowledged(c, "ok") /\ Goto(c, "error") /\ UNCHANGED object
  <2>1. ~Acknowledged(c, "ok")
    BY <1>3 DEF Acknowledged, Goto, Calm, KubeInv, TypeOK
  <2> QED
    BY <1>6, <2>1, WritesOnce
<1>7. ~CreateDeployment(c)
  <2> SUFFICES ASSUME CreateDeployment(c) PROVE FALSE
    OBVIOUS
  <2>1. pc[c] = "create" /\ object[Target(c)] # Nothing
    BY <1>6 DEF CreateDeployment
  <2>2. Target(c) = <<task[c].service, "stable">>
    BY <1>4 DEF Target, Calm
  <2>3. Stable(c) = Nothing
    BY <1>4, <2>1 DEF Hope
  <2> QED
    BY <2>1, <2>2, <2>3 DEF Stable
<1>8. UNCHANGED object
  BY <1>2, <1>5, <1>6, <1>7 DEF Begin, GetNamespace, CreateNamespace, GetStable, GetSecret,
                               CreateSecret, clusterVars
<1> QED
  BY <1>2, <1>3, <1>4, <1>5, <1>6, <1>7, <1>8 DEF Goto

\* What a calm step does to the call that takes it, as far as Hope is concerned.
LEMMA CalmMove ==
  ASSUME KubeInv, Hope, Next, Calm'
  PROVE  \E c \in Caller, stage \in Stage :
           /\ pc' = [pc EXCEPT ![c] = stage]
           /\ ns => ns'
           /\ ns' # ns => ~ns /\ stage = "getStable"
           /\ \A b \in Caller \ {c} : stableCopy'[b] = stableCopy[b]
           /\ stage = "createNamespace" => ~ns'
           /\ stage \in {"getSecret", "createSecret", "create"} => Stable(c) = Nothing
           /\ stage = "update" => Stable(c) # Nothing /\ stableCopy'[c] = Stable(c)
           /\ stage = "error" =>
                /\ pc[c] \notin {"getSecret", "createSecret", "create"}
                /\ pc[c] = "getStable" => Stable(c) # Nothing
                /\ Excused(c)
           /\ pc[c] \in {"getStable", "getSecret", "createSecret", "create"}
                /\ Stable(c) = Nothing => stage \in {"getSecret", "createSecret", "create"}
<1>1. /\ Calm /\ UNCHANGED <<task, object, faults>>
      /\ \E c \in Caller :
           \/ Begin(c) \/ GetNamespace(c) \/ CreateNamespace(c) \/ GetStable(c)
           \/ GetSecret(c) \/ CreateSecret(c)
           \/ Update(c) /\ pc' = [pc EXCEPT ![c] = "error"]
  BY CalmStep
<1>2. PICK c \in Caller :
        \/ Begin(c) \/ GetNamespace(c) \/ CreateNamespace(c) \/ GetStable(c)
        \/ GetSecret(c) \/ CreateSecret(c)
        \/ Update(c) /\ pc' = [pc EXCEPT ![c] = "error"]
  BY <1>1
<1>3. ~faults' /\ ~IsCanary(c)
  BY <1>1 DEF Calm
<1>4. \A stage \in Stage : Acknowledged(c, stage) => pc' = [pc EXCEPT ![c] = stage]
  BY <1>3 DEF Acknowledged, Goto
<1>5. CASE Begin(c)
  BY <1>5 DEF Begin, Goto, clusterVars, Stage
<1>6. CASE GetNamespace(c)
  BY <1>6 DEF GetNamespace, AfterGetNamespace, Goto, clusterVars, Stage
<1>7. CASE CreateNamespace(c)
  <2>1. CASE ~ns /\ ns' = TRUE /\ Acknowledged(c, "getStable")
    <3>1. pc' = [pc EXCEPT ![c] = "getStable"]
      BY <1>4, <2>1 DEF Stage
    <3> QED
      BY <1>7, <2>1, <3>1 DEF CreateNamespace, Stage
  <2>2. CASE ns /\ Goto(c, "error") /\ UNCHANGED <<ns, faults>>
    <3>1. Excused(c)
      BY <1>1, <1>7, <2>2 DEF CreateNamespace, Hope, Excused
    <3> QED
      BY <1>7, <2>2, <3>1 DEF CreateNamespace, Goto, Stage
  <2> QED
    BY <1>7, <2>1, <2>2 DEF CreateNamespace
<1>8. CASE GetStable(c)
  <2>1. /\ pc[c] = "getStable" /\ stableCopy' = [stableCopy EXCEPT ![c] = Stable(c)]
        /\ pc' = [pc EXCEPT ![c] = AfterGetStable(c, Stable(c))] /\ ns' = ns
    BY <1>8 DEF GetStable, Goto, clusterVars
  <2>2. \/ Stable(c) = Nothing /\ AfterGetStable(c, Stable(c)) = "getSecret"
        \/ Stable(c) # Nothing /\ AfterGetStable(c, Stable(c)) = "update"
        \/ /\ Stable(c) # Nothing /\ ~Stable(c).hasApp
           /\ AfterGetStable(c, Stable(c)) = "error"
    BY <1>3 DEF AfterGetStable
  <2>3. stableCopy'[c] = Stable(c) /\ \A b \in Caller \ {c} : stableCopy'[b] = stableCopy[b]
    BY <2>1 DEF KubeInv, TypeOK
  <2> QED
    BY <2>1, <2>2, <2>3 DEF Excused, Stage
<1>9. CASE GetSecret(c) \/ CreateSecret(c)
  <2>1. /\ pc[c] \in {"getSecret", "createSecret"}
        /\ UNCHANGED <<ns, stableCopy>>
        /\ \E stage \in {"createSecret", "create"} : pc' = [pc EXCEPT ![c] = stage]
    BY <1>4, <1>9 DEF GetSecret, CreateSecret, Goto, clusterVars, Stage
  <2>2. Stable(c) = Nothing
    BY <1>1, <2>1 DEF Hope
  <2> QED
    BY <2>1, <2>2 DEF Stage
<1>10. CASE Update(c) /\ pc' = [pc EXCEPT ![c] = "error"]
  <2>1. pc[c] = "update" /\ UNCHANGED <<ns, stableCopy>>
    BY <1>10 DEF Update
  <2>2. /\ Stable(c) # Nothing /\ stableCopy[c] = Stable(c) /\ Valid(Stable(c))
        /\ Target(c) = <<task[c].service, "stable">> /\ ReadCopy(c) = stableCopy[c]
    BY <1>1, <1>3, <2>1, TargetType DEF Hope, Stable, Target, ReadCopy, KubeInv
  <2>3. UpToDate(c)
    BY <2>2 DEF UpToDate, Stable
  <2>4. ~Valid(Edited(c))
    <3>1. ~Acknowledged(c, "ok")
      BY <1>4, <1>10, <2>1 DEF Stage, KubeInv, TypeOK
    <3> QED
      BY <1>10, <2>3, <3>1 DEF Update
  <2>5. task[c].kind = "recreate"
    <3> SUFFICES ASSUME task[c].kind # "recreate" PROVE Valid(Edited(c))
      BY <2>4
    <3>1. Stable(c) \in Object
      BY <2>2, TargetType DEF KubeInv
    <3>2. Edited(c) = [Stable(c) EXCEPT !.image = c]
      BY <2>2, <3>1 DEF Edited, Object
    <3>3. Edited(c).strategy = Stable(c).strategy /\ Edited(c).params = Stable(c).params
      BY <3>1, <3>2 DEF Object
    <3> QED
      BY <2>2, <3>3 DEF Valid
  <2> QED
    BY <1>10, <2>1, <2>5 DEF Excused, Stage
<1> QED
  BY <1>2, <1>5, <1>6, <1>7, <1>8, <1>9, <1>10

LEMMA NextKeepsHope == KubeInv /\ Hope /\ [Next]_vars => Hope'
<1> SUFFICES ASSUME KubeInv, Hope, [Next]_vars, Calm'
             PROVE  /\ \A d \in DeploymentName : object'[d] # Nothing =>
                                                   ns' /\ Valid(object'[d])
                    /\ \A c \in Caller :
                         /\ pc'[c] = "createNamespace" => ~ns' \/ Winner'
                         /\ pc'[c] \in {"getSecret", "createSecret", "create"}
                              => Stable(c)' = Nothing
                         /\ pc'[c] = "update" => /\ Stable(c)' # Nothing
                                                 /\ stableCopy'[c] = Stable(c)'
                         /\ pc'[c] = "error" => Excused(c)'
  BY DEF Hope, Valid
<1>1. CASE UNCHANGED vars
  BY <1>1 DEF Hope, Calm, Winner, Excused, Stable, IsCanary, vars, callerVars, clusterVars
<1>2. CASE Next
  <2>1. Calm /\ UNCHANGED <<task, object, faults>>
    BY <1>2, CalmStep
  <2>2. PICK c \in Caller, stage \in Stage :
          /\ pc' = [pc EXCEPT ![c] = stage]
          /\ ns => ns'
          /\ ns' # ns => ~ns /\ stage = "getStable"
          /\ \A b \in Caller \ {c} : stableCopy'[b] = stableCopy[b]
          /\ stage = "createNamespace" => ~ns'
          /\ stage \in {"getSecret", "createSecret", "create"} => Stable(c) = Nothing
          /\ stage = "update" => Stable(c) # Nothing /\ stableCopy'[c] = Stable(c)
          /\ stage = "error" =>
               /\ pc[c] \notin {"getSecret", "createSecret", "create"}
               /\ pc[c] = "getStable" => Stable(c) # Nothing
               /\ Excused(c)
          /\ pc[c] \in {"getStable", "getSecret", "createSecret", "create"}
               /\ Stable(c) = Nothing => stage \in {"getSecret", "createSecret", "create"}
    BY <1>2, CalmMove
  <2>3. /\ pc'[c] = stage /\ \A b \in Caller \ {c} : pc'[b] = pc[b]
        /\ \A b \in Caller : Stable(b)' = Stable(b)
    BY <2>1, <2>2 DEF KubeInv, TypeOK, Stable
  <2>4. Winner => Winner'
    <3> SUFFICES ASSUME Winner PROVE Winner'
      OBVIOUS
    <3>1. PICK b \in Caller : pc[b] \in {"getStable", "getSecret", "createSecret", "create"}
      BY DEF Winner
    <3>2. Stable(b) = Nothing
      BY TargetType DEF Winner, Stable, KubeInv
    <3>3. pc'[b] \in {"getStable", "getSecret", "createSecret", "create"}
      BY <2>2, <2>3, <3>1, <3>2
    <3> QED
      BY <2>1, <3>3 DEF Winner
  <2>5. \A b \in Caller : Excused(b) => Excused(b)'
    BY <2>1, <2>3, <2>4 DEF Excused
  <2>6. ns' # ns => Winner'
    BY <2>1, <2>2, <2>3 DEF Hope, Winner
  <2>7. \A d \in DeploymentName : object'[d] # Nothing => ns' /\ Valid(object'[d])
    BY <2>1, <2>2 DEF Hope
  <2> QED
    BY <2>1, <2>2, <2>3, <2>4, <2>5, <2>6, <2>7 DEF Hope
<1> QED
  BY <1>1, <1>2

\* Concurrent rolling deploys that nobody disturbs do not all fail.
THEOREM OneCallGetsThrough == Spec => []SomeoneSucceeds
<1>1. KubeInv /\ Hope => SomeoneSucceeds
  <2> SUFFICES ASSUME Hope, ~faults, meddled = 0,
                      \A c \in Caller : Ended(c) /\ ~IsCanary(c)
                                          /\ (Stable(c) # Nothing => Stable(c).hasApp),
                      NEW c \in Caller, task[c].kind = "rolling",
                      \A b \in Caller : pc[b] # "ok"
               PROVE  FALSE
    BY DEF SomeoneSucceeds
  <2>1. \A b \in Caller : pc[b] = "error"
    BY DEF Ended
  <2>2. Calm
    BY DEF Calm
  <2>3. Excused(c)
    BY <2>1, <2>2 DEF Hope
  <2>4. ~Winner
    BY <2>1 DEF Winner
  <2> QED
    BY <2>3, <2>4 DEF Excused
<1> QED
  BY <1>1, KubeInvariant, InitHope, NextKeepsHope, PTL DEF Spec
=============================================================================
