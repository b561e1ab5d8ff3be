----------------------- MODULE ServiceSettingsProofs -----------------------
(***************************************************************************)
(* Proofs about ServiceSettings for any users, slots and percentages.      *)
(***************************************************************************)
EXTENDS ServiceSettings, TLAPS

\* What a request that is about to write has established: there is a row, a
\* patch that touches the threshold is the owner's, a deploy met an open gate and,
\* from the middleware on, its user was allowed to deploy.
Checked(s) ==
  /\ pc[s] = "write" /\ body[s].kind # "create" =>
       /\ row # None
       /\ body[s].kind = "settings" /\ TouchesOwnerOnly(body[s].patch) => by[s] = row.owner
       /\ body[s].kind = "deploy" => s \in opened
  /\ pc[s] \in {"read", "write"} /\ body[s].kind = "deploy" => s \in trusted

AllChecked == \A s \in Slot : Checked(s)

\* The inductive invariant.
SettingsInv == TypeOK /\ AllChecked /\ JsonAgrees /\ LastWordCounts
-----------------------------------------------------------------------------
\* What the kind of a body says of its other fields.
LEMMA BodyKinds ==
  ASSUME NEW b \in Body
  PROVE  /\ b.kind \in {"create", "settings", "info", "deploy"}
         /\ b.kind = "create" => b.coverage \in Percent /\ b.threshold \in Threshold
         /\ b.kind = "settings" => b.patch \in Settings
         /\ b.kind = "info" => b.coverage \in Percent
  BY DEF Body

\* Before the first request.
LEMMA InitSettings == Init => SettingsInv
  BY NoneAssumption
  DEF Init, SettingsInv, TypeOK, AllChecked, Checked, JsonAgrees, LastWordCounts

\* A slot whose request ends is well typed, and the others keep theirs.
LEMMA FreeTyped ==
  ASSUME TypeOK, NEW s \in Slot, Free(s)
  PROVE  /\ pc' \in [Slot -> {"free", "role", "read", "write"}]
         /\ by' \in [Slot -> User \cup {None}]
         /\ body' \in [Slot -> Body \cup {None}]
         /\ \A t \in Slot : pc'[t] # "free" => body'[t] \in Body /\ by'[t] \in User
         /\ pc'[s] = "free"
         /\ \A t \in Slot \ {s} : pc'[t] = pc[t] /\ by'[t] = by[t] /\ body'[t] = body[t]
  BY DEF TypeOK, Free

\* A deploy at work stays watched.
LEMMA Watched ==
  ASSUME WatchGate, NEW t \in Slot,
         pc'[t] # "free", body'[t] = body[t], body[t].kind = "deploy"
  PROVE  /\ t \in opened => t \in opened'
         /\ t \in trusted => t \in trusted'
  BY DEF WatchGate, Deploying

\* A request that ends without writing, or that only inserts a release.
LEMMA EndKeeps ==
  ASSUME SettingsInv, NEW s \in Slot, Free(s), UNCHANGED <<row, access, said>>, WatchGate
  PROVE  SettingsInv'
<1>1. TypeOK'
  BY FreeTyped DEF SettingsInv, TypeOK, WatchGate
<1>2. AllChecked'
  <2> SUFFICES ASSUME NEW t \in Slot PROVE Checked(t)'
    BY DEF AllChecked
  <2>1. CASE t = s
    BY <2>1, FreeTyped DEF SettingsInv, Checked
  <2>2. CASE t # s
    BY <2>2, FreeTyped, Watched DEF SettingsInv, AllChecked, Checked, TouchesOwnerOnly
  <2> QED BY <2>1, <2>2
<1>3. JsonAgrees' /\ LastWordCounts'
  BY DEF SettingsInv, JsonAgrees, LastWordCounts
<1> QED BY <1>1, <1>2, <1>3 DEF SettingsInv

\* A request that arrives.
LEMMA ArriveKeeps ==
  ASSUME SettingsInv, NEW s \in Slot, Arrive(s), WatchGate
  PROVE  SettingsInv'
<1>1. PICK u \in User, b \in Body :
        /\ by' = [by EXCEPT ![s] = u]
        /\ body' = [body EXCEPT ![s] = b]
        /\ pc' = [pc EXCEPT ![s] = CASE b.kind = "create" -> "write"
                                     [] b.kind = "deploy" -> "role"
                                     [] OTHER -> "read"]
  BY DEF Arrive
<1>2. /\ pc'[s] \in {"role", "read", "write"}
      /\ pc'[s] = "write" => body'[s].kind = "create"
      /\ pc'[s] = "read" => body'[s].kind # "deploy"
  BY <1>1 DEF SettingsInv, TypeOK
<1>3. \A t \in Slot \ {s} : pc'[t] = pc[t] /\ by'[t] = by[t] /\ body'[t] = body[t]
  BY <1>1 DEF SettingsInv, TypeOK
<1>4. TypeOK'
  BY <1>1, <1>2 DEF SettingsInv, TypeOK, WatchGate, Arrive
<1>5. AllChecked'
  <2> SUFFICES ASSUME NEW t \in Slot PROVE Checked(t)'
    BY DEF AllChecked
  <2>1. CASE t = s
    BY <2>1, <1>2 DEF Checked
  <2>2. CASE t # s
    BY <2>2, <1>3, Watched DEF SettingsInv, AllChecked, Checked, TouchesOwnerOnly, Arrive
  <2> QED BY <2>1, <2>2
<1>6. JsonAgrees' /\ LastWordCounts'
  BY DEF SettingsInv, JsonAgrees, LastWordCounts, Arrive
<1> QED BY <1>4, <1>5, <1>6 DEF SettingsInv

\* What the middleware asks for is what the tables say.
LEMMA RoleSuffices ==
  ASSUME TypeOK, NEW u \in User, row # None, AtLeastDeveloper(u)
  PROVE  Manages(u, row, access)
<1>1. access[u] \in EntryRole \cup {None}
  BY DEF TypeOK
<1> QED BY <1>1 DEF AtLeastDeveloper, EffectiveRole, Manages, EntryRole

\* The middleware and the read of the handler.
LEMMA ReadKeeps ==
  ASSUME SettingsInv, NEW s \in Slot, RequireRole(s) \/ ReadService(s), WatchGate
  PROVE  SettingsInv'
<1>1. /\ UNCHANGED <<row, access, by, body, said>>
      /\ pc[s] # "free" /\ pc'[s] \in {"read", "write"}
      /\ pc' \in [Slot -> {"free", "role", "read", "write"}]
      /\ \A t \in Slot \ {s} : pc'[t] = pc[t]
  BY DEF SettingsInv, TypeOK, RequireRole, ReadService
<1>2. TypeOK'
  BY <1>1 DEF SettingsInv, TypeOK, WatchGate
<1>3. Checked(s)'
  <2>1. CASE RequireRole(s)
    <3>1. pc'[s] = "read" /\ body[s].kind = "deploy" => s \in trusted'
      <4>1. by[s] \in User /\ row # None /\ AtLeastDeveloper(by[s])
        BY <2>1 DEF RequireRole, SettingsInv, TypeOK
      <4>2. Manages(by'[s], row', access')
        BY <4>1, <1>1, RoleSuffices DEF SettingsInv, Manages
      <4> QED BY <4>2, <1>1 DEF WatchGate, Deploying
    <3> QED BY <2>1, <3>1, <1>1 DEF RequireRole, Checked, SettingsInv, TypeOK
  <2>2. CASE ReadService(s)
    <3>1. row # None /\ Allowed(s) /\ body[s] \in Body /\ row \in Row
      BY <2>2 DEF ReadService, SettingsInv, TypeOK
    <3>2. body[s].kind = "settings" /\ TouchesOwnerOnly(body[s].patch) => by[s] = row.owner
      BY <3>1 DEF Allowed
    <3>3. body[s].kind = "deploy" => s \in opened'
      <4> SUFFICES ASSUME body[s].kind = "deploy" PROVE s \in opened'
        OBVIOUS
      <4>1. PassesGate(row)
        BY <3>1 DEF Allowed
      <4>2. row.coverage \in Nat /\ row.threshold.minimum \in Nat
        BY <3>1, PercentAssumption DEF Row, Threshold
      <4>3. CoverageMet(row)
        BY <4>1, <4>2 DEF PassesGate, CoverageMet
      <4> QED BY <4>3, <3>1, <1>1 DEF WatchGate, CoverageMet, Deploying
    <3>4. body[s].kind = "deploy" => s \in trusted'
      BY <2>2, <1>1, Watched DEF ReadService, SettingsInv, AllChecked, Checked
    <3> QED BY <3>1, <3>2, <3>3, <3>4, <1>1 DEF Checked, TouchesOwnerOnly
  <2> QED BY <2>1, <2>2
<1>4. AllChecked'
  <2> SUFFICES ASSUME NEW t \in Slot PROVE Checked(t)'
    BY DEF AllChecked
  <2>1. CASE t # s
    BY <2>1, <1>1, Watched DEF SettingsInv, AllChecked, Checked, TouchesOwnerOnly
  <2> QED BY <2>1, <1>3
<1>5. JsonAgrees' /\ LastWordCounts'
  BY <1>1 DEF SettingsInv, JsonAgrees, LastWordCounts
<1> QED BY <1>2, <1>4, <1>5 DEF SettingsInv
-----------------------------------------------------------------------------
(* The writes. A write that leaves a row of the same owner keeps what the   *)
(* other requests have established.                                        *)

LEMMA OthersChecked ==
  ASSUME SettingsInv, NEW s \in Slot, Free(s), WatchGate,
         row' # None, row # None => row'.owner = row.owner, access' = access
  PROVE  AllChecked'
<1> SUFFICES ASSUME NEW t \in Slot PROVE Checked(t)'
  BY DEF AllChecked
<1>1. CASE t = s
  BY <1>1, FreeTyped DEF SettingsInv, Checked
<1>2. CASE t # s
  BY <1>2, FreeTyped, Watched DEF SettingsInv, AllChecked, Checked, TouchesOwnerOnly
<1> QED BY <1>1, <1>2

\* The first row of the service.
LEMMA CreateKeeps ==
  ASSUME SettingsInv, NEW s \in Slot, Create(s), WatchGate
  PROVE  SettingsInv'
<1>1. /\ body[s].coverage \in Percent /\ body[s].threshold \in Threshold
      /\ by[s] \in User
  BY BodyKinds DEF SettingsInv, TypeOK, Create
<1>2. body[s].threshold.enabled \in BOOLEAN /\ body[s].threshold.minimum \in Percent
  BY <1>1 DEF Threshold
<1>3. row' \in Row
  BY <1>1, <1>2 DEF Create, Row, Settings
<1>4. TypeOK'
  BY <1>1, <1>3, FreeTyped DEF SettingsInv, TypeOK, WatchGate, Create
<1>5. AllChecked'
  BY <1>3, NoneAssumption, OthersChecked DEF Create
<1>6. JsonAgrees' /\ LastWordCounts'
  BY DEF Create, JsonAgrees, LastWordCounts
<1> QED BY <1>4, <1>5, <1>6 DEF SettingsInv

\* Coalesce and the type of what it is given.
LEMMA CoalesceType ==
  ASSUME NEW S, NEW value \in S \cup {None}, NEW column \in S
  PROVE  Coalesce(value, column) \in S
  BY DEF Coalesce

\* An update of the settings.
LEMMA UpdateSettingsKeeps ==
  ASSUME SettingsInv, NEW s \in Slot, UpdateSettings(s), WatchGate
  PROVE  SettingsInv'
<1> DEFINE patch == body[s].patch
<1>1. row \in Row /\ row # None /\ patch \in Settings /\ said = row.threshold
  BY BodyKinds
  DEF SettingsInv, TypeOK, UpdateSettings, AllChecked, Checked, LastWordCounts
<1>2. /\ row.threshold \in Threshold
      /\ row.threshold.enabled \in BOOLEAN /\ row.threshold.minimum \in Percent
  BY <1>1 DEF Row, Threshold
<1>3. patch.enabled \in BOOLEAN \cup {None} /\ patch.minimum \in Percent \cup {None}
  BY <1>1 DEF Settings
<1>4. /\ row' = [row EXCEPT
           !.settings = patch,
           !.threshold = [enabled |-> Coalesce(patch.enabled, row.threshold.enabled),
                          minimum |-> Coalesce(patch.minimum, row.threshold.minimum)]]
      /\ said' = [enabled |-> Coalesce(patch.enabled, row.threshold.enabled),
                  minimum |-> Coalesce(patch.minimum, row.threshold.minimum)]
  BY <1>1 DEF UpdateSettings, Coalesce, Row
<1>5. said' \in Threshold
  BY <1>2, <1>3, <1>4, CoalesceType DEF Threshold
<1>6. row' \in Row /\ row'.owner = row.owner /\ row'.threshold = said' /\ row'.settings = patch
  BY <1>1, <1>4, <1>5 DEF Row
<1>7. Free(s) /\ access' = access
  BY DEF UpdateSettings
<1>8. TypeOK'
  BY <1>5, <1>6, <1>7, FreeTyped DEF SettingsInv, TypeOK, WatchGate
<1>9. AllChecked'
  BY <1>6, <1>7, NoneAssumption, OthersChecked
<1>10. JsonAgrees' /\ LastWordCounts'
  BY <1>4, <1>6 DEF JsonAgrees, LastWordCounts, Coalesce
<1> QED BY <1>8, <1>9, <1>10 DEF SettingsInv

\* An update of the info.
LEMMA UpdateInfoKeeps ==
  ASSUME SettingsInv, NEW s \in Slot, UpdateInfo(s), WatchGate
  PROVE  SettingsInv'
<1>1. row \in Row /\ row # None /\ body[s].coverage \in Percent
  BY BodyKinds DEF SettingsInv, TypeOK, UpdateInfo, AllChecked, Checked
<1>2. /\ row' \in Row /\ row'.owner = row.owner /\ row'.threshold = row.threshold
      /\ row'.settings = row.settings
  BY <1>1 DEF UpdateInfo, Info, Row
<1>3. Free(s) /\ said' = said /\ access' = access
  BY DEF UpdateInfo
<1>4. TypeOK'
  BY <1>2, <1>3, FreeTyped DEF SettingsInv, TypeOK, WatchGate
<1>5. AllChecked'
  BY <1>2, <1>3, NoneAssumption, OthersChecked
<1>6. JsonAgrees' /\ LastWordCounts'
  BY <1>1, <1>2, <1>3 DEF SettingsInv, JsonAgrees, LastWordCounts
<1> QED BY <1>4, <1>5, <1>6 DEF SettingsInv

\* An entry of service_access is written or removed.
LEMMA AccessKeeps ==
  ASSUME SettingsInv, NEW u \in User, AccessStep(u), WatchGate
  PROVE  SettingsInv'
<1>1. /\ UNCHANGED <<row, pc, by, body, said>>
      /\ access' \in [User -> EntryRole \cup {None}]
  BY DEF AccessStep, SetEntry, Revoke, requestVars, SettingsInv, TypeOK
<1>2. TypeOK'
  BY <1>1 DEF SettingsInv, TypeOK, WatchGate
<1>3. AllChecked'
  <2> SUFFICES ASSUME NEW t \in Slot PROVE Checked(t)'
    BY DEF AllChecked
  <2> QED BY <1>1, Watched DEF SettingsInv, AllChecked, Checked, TouchesOwnerOnly
<1>4. JsonAgrees' /\ LastWordCounts'
  BY <1>1 DEF SettingsInv, JsonAgrees, LastWordCounts
<1> QED BY <1>2, <1>3, <1>4 DEF SettingsInv

\* Every step keeps the invariant.
LEMMA NextKeepsSettings == SettingsInv /\ [Next]_vars => SettingsInv'
<1> SUFFICES ASSUME SettingsInv, [Next]_vars PROVE SettingsInv'
  OBVIOUS
<1>1. CASE UNCHANGED vars
  BY <1>1
  DEF vars, requestVars, SettingsInv, TypeOK, AllChecked, Checked, TouchesOwnerOnly,
      JsonAgrees, LastWordCounts
<1>2. CASE Next
  <2>1. WatchGate
    BY <1>2 DEF Next
  <2>2. ASSUME NEW s \in Slot, Step(s) PROVE SettingsInv'
    <3>1. CASE Arrive(s)
      BY <2>1, <3>1, ArriveKeeps
    <3>2. CASE Fail(s) \/ Refuse(s) \/ CreateRelease(s)
      BY <2>1, <3>2, EndKeeps DEF Fail, Refuse, CreateRelease
    <3>3. CASE RequireRole(s) \/ ReadService(s)
      BY <2>1, <3>3, ReadKeeps
    <3>4. CASE Create(s)
      BY <2>1, <3>4, CreateKeeps
    <3>5. CASE UpdateSettings(s)
      BY <2>1, <3>5, UpdateSettingsKeeps
    <3>6. CASE UpdateInfo(s)
      BY <2>1, <3>6, UpdateInfoKeeps
    <3> QED BY <2>2, <3>1, <3>2, <3>3, <3>4, <3>5, <3>6 DEF Step
  <2>3. ASSUME NEW u \in User, AccessStep(u) PROVE SettingsInv'
    BY <2>1, <2>3, AccessKeeps
  <2> QED BY <1>2, <2>2, <2>3 DEF Next
<1> QED BY <1>1, <1>2
-----------------------------------------------------------------------------
\* The inductive invariant holds: types, and what every request has established
\* before it writes (handlers/services, repository/postgres/service.go).
THEOREM SettingsInvariant == Spec => []SettingsInv
  BY InitSettings, NextKeepsSettings, PTL DEF Spec

\* Every variable keeps its type, whichever requests meet: the row never holds a
\* threshold or an owner that no request could have set.
THEOREM SettingsTypeCorrect == Spec => []TypeOK
<1>1. SettingsInv => TypeOK
  BY DEF SettingsInv
<1> QED BY <1>1, SettingsInvariant, PTL

\* The JSON and the columns of the threshold never contradict one another
\* (service.go 241-254).
THEOREM CopiesAgree == Spec => []JsonAgrees
<1>1. SettingsInv => JsonAgrees
  BY DEF SettingsInv
<1> QED BY <1>1, SettingsInvariant, PTL

\* The columns hold the last values written to the threshold (service.go 192-262).
THEOREM LastWordHolds == Spec => []LastWordCounts
<1>1. SettingsInv => LastWordCounts
  BY DEF SettingsInv
<1> QED BY <1>1, SettingsInvariant, PTL

\* Only the owner's settings requests move the threshold (settings.go 58).
THEOREM OwnerMoves == Spec => ColumnsMoveByOwner
<1> DEFINE Moves ==
      row # None /\ row'.threshold # row.threshold =>
        \E s \in Slot : /\ pc[s] = "write" /\ pc'[s] = "free"
                        /\ body[s].kind = "settings" /\ by[s] = row.owner
<1>1. SettingsInv /\ [Next]_vars => [Moves]_vars
  <2> SUFFICES ASSUME SettingsInv, Next, row # None, row'.threshold # row.threshold
               PROVE  \E s \in Slot : /\ pc[s] = "write" /\ pc'[s] = "free"
                                      /\ body[s].kind = "settings" /\ by[s] = row.owner
    OBVIOUS
  <2>1. PICK s \in Slot : Step(s)
    BY DEF Next, AccessStep, SetEntry, Revoke
  <2>2. row \in Row
    BY DEF SettingsInv, TypeOK
  <2>3. UpdateSettings(s)
    BY <2>1, <2>2
    DEF Step, Arrive, Fail, RequireRole, ReadService, Refuse, Create, UpdateInfo, Info,
        CreateRelease, Row
  <2>4. TouchesOwnerOnly(body[s].patch)
    <3>1. row.threshold \in Threshold
      BY <2>2 DEF Row
    <3>2. row.threshold = [enabled |-> row.threshold.enabled, minimum |-> row.threshold.minimum]
      BY <3>1 DEF Threshold
    <3> QED BY <2>2, <2>3, <3>2 DEF UpdateSettings, Coalesce, TouchesOwnerOnly, Row
  <2>5. by[s] = row.owner
    BY <2>3, <2>4 DEF SettingsInv, AllChecked, Checked, UpdateSettings
  <2>6. pc'[s] = "free"
    BY <2>3, FreeTyped DEF SettingsInv, UpdateSettings
  <2> QED BY <2>3, <2>5, <2>6 DEF UpdateSettings
<1> QED BY <1>1, SettingsInvariant, PTL DEF Spec, ColumnsMoveByOwner

\* A deploy gets its release only if, since it arrived, the coverage once met the
\* threshold (releases/handler.go 198-242).
THEOREM ReleaseJustified == Spec => GateJustified
<1> DEFINE Justified == \A s \in Slot : CreateRelease(s) => s \in opened
<1>1. SettingsInv => Justified
  BY DEF SettingsInv, AllChecked, Checked, CreateRelease
<1> QED BY <1>1, SettingsInvariant, PTL DEF GateJustified

\* And only if, since it arrived, its user was once the owner or a developer
\* (require_role.go 16-52).
THEOREM ReleaseTrusted == Spec => RoleJustified
<1> DEFINE Justified == \A s \in Slot : CreateRelease(s) => s \in trusted
<1>1. SettingsInv => Justified
  BY DEF SettingsInv, AllChecked, Checked, CreateRelease
<1> QED BY <1>1, SettingsInvariant, PTL DEF RoleJustified
=============================================================================
