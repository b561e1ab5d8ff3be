--------------------------- MODULE ServiceSettings ---------------------------
(***************************************************************************)
(* The row of a service, its entries in service_access, and the requests   *)
(* that read and write them. The threshold of the coverage gate is kept    *)
(* twice, in columns and in the JSON of the settings; a deploy reads the   *)
(* columns, and before them the role of its user. One service: every       *)
(* statement names its row.                                                *)
(*                                                                         *)
(* Slots are requests in service at one time. A slot is free again when    *)
(* its request is answered, so behaviours have any number of requests.     *)
(***************************************************************************)
EXTENDS Naturals

CONSTANTS
  User,       \* members of the organization of the service
  Slot,
  Percent,    \* values of a coverage or of a minimum
  None        \* no row, no request, a key that is not there

ASSUME PercentAssumption == Percent \subseteq Nat /\ Percent # {}

VARIABLES
  row,     \* the row of the service
  access,  \* access[u]: the role in the service_access entry of u
  pc,      \* pc[s]: the next call of the request in slot s
  by,      \* by[s]: its user
  body,    \* body[s]: its body
  said,    \* history: for each owner-only key the value last written to it
  opened,  \* history: deploys since whose arrival the gate was open once
  trusted  \* history: deploys since whose arrival their user was once no observer

requestVars == <<pc, by, body>>
vars == <<row, access, requestVars, said, opened, trusted>>

\* Settings as JSON: a key whose value is None is not there. The keys that no
\* check reads are left out.
Settings == [enabled : BOOLEAN \cup {None}, minimum : Percent \cup {None}]

Threshold == [enabled : BOOLEAN, minimum : Percent]

Row == [owner : User, coverage : Percent, threshold : Threshold, settings : Settings]

Body ==
  [kind : {"create"}, coverage : Percent, threshold : Threshold]
    \cup [kind : {"settings"}, patch : Settings]
    \cup [kind : {"info"}, coverage : Percent]
    \cup [kind : {"deploy"}]

\* What the CHECK constraint of service_access admits.
EntryRole == {"developer", "observer"}

ASSUME NoneAssumption ==
  None \notin EntryRole /\ None \notin User /\ None \notin Percent /\ None \notin BOOLEAN /\ None \notin Row

TypeOK ==
  /\ row \in Row \cup {None}
  /\ access \in [User -> EntryRole \cup {None}]
  /\ pc \in [Slot -> {"free", "role", "read", "write"}]
  /\ by \in [Slot -> User \cup {None}]
  /\ body \in [Slot -> Body \cup {None}]
  /\ \A s \in Slot : pc[s] # "free" => body[s] \in Body /\ by[s] \in User
  /\ said \in Threshold \cup {None}
  /\ opened \subseteq Slot
  /\ trusted \subseteq Slot

Init ==
  /\ row = None
  /\ access = [u \in User |-> None]
  /\ pc = [s \in Slot |-> "free"]
  /\ by = [s \in Slot |-> None]
  /\ body = [s \in Slot |-> None]
  /\ said = None
  /\ opened = {}
  /\ trusted = {}
-----------------------------------------------------------------------------
CoverageMet(r) == ~(r.threshold.enabled /\ r.coverage < r.threshold.minimum)

\* EffectiveRole: the owner first, then the entry, then observer.
AnyEntryCounts(u) ==
  IF u = row.owner THEN "service_owner"
  ELSE IF access[u] # None THEN "developer" ELSE "observer"
EffectiveRole(u) ==
  IF u = row.owner THEN "service_owner"
  ELSE IF access[u] # None THEN access[u] ELSE "observer"

\* hasAtLeastRole with the role that all its callers ask for.
AtLeastDeveloper(u) == EffectiveRole(u) \in {"developer", "service_owner"}

\* Owner or developer, by the tables.
Manages(u, r, entries) == r # None /\ (u = r.owner \/ entries[u] = "developer")

Deploying(s) == pc[s] # "free" /\ body[s].kind = "deploy"

\* Every step keeps the history of the deploys at work.
WatchGate ==
  /\ opened' = {s \in Slot : /\ Deploying(s)'
                             /\ s \in opened \/ (row' # None /\ CoverageMet(row'))}
  /\ trusted' = {s \in Slot : /\ Deploying(s)'
                              /\ s \in trusted \/ Manages(by'[s], row', access')}
-----------------------------------------------------------------------------
(* The entries of service_access. The seed writes them at every start of a  *)
(* server; GrantDeveloper and Revoke are there for operators, no route      *)
(* calls them yet.                                                          *)

SetEntry(u) ==
  /\ row # None
  /\ \E role \in EntryRole : access' = [access EXCEPT ![u] = role]
  /\ UNCHANGED <<row, requestVars, said>>

Revoke(u) ==
  /\ access[u] # None
  /\ access' = [access EXCEPT ![u] = None]
  /\ UNCHANGED <<row, requestVars, said>>
-----------------------------------------------------------------------------
\* A request has been decoded and is valid. Create writes at once, a deploy
\* passes RequireReleaseManageAccess, the updates pass no middleware.
Arrive(s) ==
  /\ pc[s] = "free"
  /\ \E u \in User, b \in Body :
       /\ by' = [by EXCEPT ![s] = u]
       /\ body' = [body EXCEPT ![s] = b]
       /\ pc' = [pc EXCEPT ![s] = CASE b.kind = "create" -> "write"
                                    [] b.kind = "deploy" -> "role"
                                    [] OTHER -> "read"]
  /\ UNCHANGED <<row, access, said>>

Free(s) ==
  /\ pc' = [pc EXCEPT ![s] = "free"]
  /\ by' = [by EXCEPT ![s] = None]
  /\ body' = [body EXCEPT ![s] = None]

\* Every call may fail, and a cancelled one with it.
Fail(s) ==
  /\ pc[s] # "free"
  /\ Free(s)
  /\ UNCHANGED <<row, access, said>>

RequireRole(s) ==
  /\ pc[s] = "role" /\ row # None
  /\ AtLeastDeveloper(by[s])
  /\ pc' = [pc EXCEPT ![s] = "read"]
  /\ UNCHANGED <<row, access, by, body, said>>

TouchesBoth(patch) == patch.enabled # None /\ patch.minimum # None
TouchesOwnerOnly(patch) == patch.enabled # None \/ patch.minimum # None

\* The gate of Deploy reads the columns.
PassesJson(r) ==
  r.settings.enabled = TRUE /\ r.settings.minimum # None => r.coverage >= r.settings.minimum
PassesGate(r) == r.threshold.enabled => r.coverage >= r.threshold.minimum

Allowed(s) ==
  CASE body[s].kind = "settings" ->
         TouchesOwnerOnly(body[s].patch) => by[s] = row.owner
    [] body[s].kind = "deploy" -> PassesGate(row)
    [] OTHER -> TRUE

\* GetByID, and the checks of the handler on what it returns.
ReadService(s) ==
  /\ pc[s] = "read" /\ row # None
  /\ Allowed(s)
  /\ pc' = [pc EXCEPT ![s] = "write"]
  /\ UNCHANGED <<row, access, by, body, said>>

\* The request ends with 403, 404 or 400.
Refuse(s) ==
  /\ \/ pc[s] = "role" /\ (row # None => ~AtLeastDeveloper(by[s]))
     \/ pc[s] = "read" /\ (row # None => ~Allowed(s))
  /\ Free(s)
  /\ UNCHANGED <<row, access, said>>
-----------------------------------------------------------------------------
(* The statements that write.                                              *)

\* The name of a service is unique in its organization.
Create(s) ==
  /\ pc[s] = "write" /\ body[s].kind = "create"
  /\ row = None
  /\ row' = [owner |-> by[s],
             coverage |-> body[s].coverage,
             threshold |-> body[s].threshold,
             settings |-> [enabled |-> body[s].threshold.enabled,
                           minimum |-> body[s].threshold.minimum]]
  /\ said' = body[s].threshold
  /\ Free(s)
  /\ UNCHANGED access

\* COALESCE of the patch's value and the column.
ColumnFirst(value, column) == column
NullsThrough(value, column) == value
Coalesce(value, column) == IF value = None THEN column ELSE value

\* The JSON becomes the patch, the columns only take what is in it.
UpdateSettings(s) ==
  /\ pc[s] = "write" /\ body[s].kind = "settings"
  /\ LET patch == body[s].patch
     IN  /\ row' = [row EXCEPT
              !.settings = patch,
              !.threshold = [enabled |-> Coalesce(patch.enabled, @.enabled),
                             minimum |-> Coalesce(patch.minimum, @.minimum)]]
         /\ said' = [enabled |-> IF patch.enabled = None THEN said.enabled ELSE patch.enabled,
                      minimum |-> IF patch.minimum = None THEN said.minimum ELSE patch.minimum]
  /\ Free(s)
  /\ UNCHANGED access

\* A statement for all columns: what the handler leaves out becomes empty.
InfoInAllColumns(r, b) ==
  [r EXCEPT !.coverage = b.coverage,
            !.threshold.enabled = FALSE,
            !.settings = [k \in DOMAIN @ |-> None]]
Info(r, b) == [r EXCEPT !.coverage = b.coverage]

UpdateInfo(s) ==
  /\ pc[s] = "write" /\ body[s].kind = "info"
  /\ row' = Info(row, body[s])
  /\ Free(s)
  /\ UNCHANGED <<access, said>>

\* A deploy that has passed the gate inserts its release and goes on; what
\* follows is in module Releases.
CreateRelease(s) ==
  /\ pc[s] = "write" /\ body[s].kind = "deploy"
  /\ Free(s)
  /\ UNCHANGED <<row, access, said>>
-----------------------------------------------------------------------------
Step(s) ==
  \/ Arrive(s) \/ Fail(s) \/ RequireRole(s) \/ ReadService(s) \/ Refuse(s)
  \/ Create(s) \/ UpdateSettings(s) \/ UpdateInfo(s) \/ CreateRelease(s)

AccessStep(u) == SetEntry(u) \/ Revoke(u)

Next == ((\E s \in Slot : Step(s)) \/ (\E u \in User : AccessStep(u))) /\ WatchGate

Spec == Init /\ [][Next]_vars
-----------------------------------------------------------------------------
(* Properties.                                                             *)

\* The two copies of the threshold never contradict one another: what the JSON
\* says of it, the columns say too, whatever updates interleave and whichever
\* keys they carry (service.go 241-254).
JsonAgrees ==
  row # None =>
    /\ row.settings.enabled \in {None, row.threshold.enabled}
    /\ row.settings.minimum \in {None, row.threshold.minimum}

\* The columns hold, key by key, the last value that was written to the
\* threshold: neither updates of the info nor settings without the
\* key reset what an owner has set (service.go 192-262).
LastWordCounts == row # None => row.threshold = said

\* Only a settings request of the owner moves the columns of the threshold, even
\* when it carries one of the two keys (settings.go 58).
ColumnsMoveByOwner ==
  [][row # None /\ row'.threshold # row.threshold =>
       \E s \in Slot : /\ pc[s] = "write" /\ pc'[s] = "free"
                       /\ body[s].kind = "settings" /\ by[s] = row.owner]_vars

\* A deploy gets its release only if, at some moment after it arrived, the
\* coverage met the threshold that the owner had set: losing the settings from
\* the JSON opens no gate (releases/handler.go 198-242).
GateJustified == [][\A s \in Slot : CreateRelease(s) => s \in opened]_vars

\* And only if, at some moment after it arrived, its user was the owner or a
\* developer by the tables: an entry taken away after the check is not noticed,
\* a role that was never there suffices in no order of the calls (require_role.go 16-52).
RoleJustified == [][\A s \in Slot : CreateRelease(s) => s \in trusted]_vars
=============================================================================
