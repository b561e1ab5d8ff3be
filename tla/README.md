# Verification of MAMS

MAMS is a service catalogue that deploys: a Go server (`src/backend`) with a
Postgres database, a Mongo log store, GitHub Actions behind it and a Kubernetes
cluster below it, and a React frontend. This directory holds TLA+ models of the
server's own logic and of the two parts of the service page that keep state in
step with it, the TLC runs that check them on small instances, and proofs
that TLAPS checks for every instance. `PROJECT.json` lists components, runs,
mutants, the map from definitions to source lines, findings, hazards and
theorems.

## 1. The system

| component | state it keeps | operations | talks to |
|---|---|---|---|
| release engine (`handlers/releases/handler.go`) | none of its own; one goroutine per deploy | `Deploy`, `Rollback`, `UpdateFromCI` → `MarkResult`, poller `waitForWorkflowAndDeploy` → `deployToK8s`, `RollbackCandidates`, `Get` | release tables, GitHub client, Kubernetes client |
| release tables (`repository/postgres/release.go`, migrations 005, 009) | `releases.status` and its row, `services.version` | `Create`, `GetByID`, `UpdateStatus`, `UpdateServiceVersion`, `ListByService` | Postgres, one statement per operation, no transactions |
| Kubernetes client (`kubeclient/client.go`) | none | `UpgradeRolling`, `UpgradeRecreate`, `ApplyCanaryPatch`, `RollbackToTag`, reads | API server, several calls per operation |
| GitHub client (`githubclient/client.go`) | none | `DispatchWorkflow`, `GetLatestWorkflowRun`, reads of branches, tags, `project.proto` | api.github.com, no timeout |
| log pipeline (`handlers/logs/handler.go`) | last snapshot per service under a mutex | `pollServiceLogs` every 5 s, `Ingest`, `Stream`, `Get` | log store, hub, Kubernetes client |
| hub (`ws/hub.go`) | connections per service under a RWMutex, a 16-entry channel each | `Join`, `Leave`, `Broadcast` | |
| log store (`repository/mongo/logs.go`) | log entries | `Append`, `ListByService` | Mongo |
| log collector (`cmd/collector`) | a batch of up to 50 entries | read line, send batch | `Ingest` over HTTP, 5 s timeout |
| service catalogue and settings (`handlers/services`, `repository/postgres/service.go`) | the services row: info, coverage, threshold as columns and again in a JSON | `Create`, `UpdateInfo`, `UpdateSettings`, reads | Postgres |
| roles (`rbac`, `middleware/rbac`, `service_access.go`) | `service_access` | `EffectiveRole`, `RequireAtLeastRole`, `GrantDeveloper`, `Revoke` | Postgres |
| authentication (`auth`, `middleware/auth`, `handlers/auth`) | none | login, token check | users |
| migrations and seed (`migrator`, `bootstrap`) | `schema_migrations` | `Up`, `SeedAll` at every start | Postgres |
| contracts (`protoparser`, `handlers/contracts`) | none | `ParseProjectProto` | GitHub client |
| service page (`ServicePage.jsx`) | the releases and logs shown, the active release, filters | effects that load and poll, a WebSocket, the release form | `Get`, `Deploy`, `Rollback`, `Stream` |
| metrics, configuration, helpers | none | | |
| server process (`cmd/server/main.go`) | | wiring, routes, shutdown | all of the above |

What is hard here: a release is driven by four parties that share only a row in
Postgres (the request, the poller it leaves behind, the callback of the
workflow, and a restart that drops the first three), each of them making
several calls, any of which may fail before or after it took effect; the poller
identifies "its" workflow run by branch name; rollouts are read-modify-write
sequences against objects that others write too; log lines are told apart by
their text only, and reach browsers through a lock, buffers and two appending
parties that know nothing of one another; and the page is fed by overlapping
requests, a timer and a socket whose answers come in any order, some of them to
a filter or a release it no longer shows. `PROJECT.json` lists each such
place as a hazard with its line, and with the properties that cover it.

What makes each component correct:

* release engine and tables: a result is truthful (success means rolled out),
  final, eventually there, and `services.version` follows from successful
  releases only; images come from green runs;
* Kubernetes client: a call is atomic for its caller, loses nobody's update,
  and racing calls do not all fail;
* log pipeline: nothing is streamed that was not stored, each connection sees
  entries at most once, lines are lost only where the code says so;
* settings: columns and JSON agree, only the owner moves owner-only values;
* roles: a deploy is the owner's or a developer's, whatever entries come and go;
* service page: it shows the result of what was started on it, and logs that
  pass the current filter, without being asked again;
* contracts: the answer ends, and unfolds completely what the regular
  expressions find, although message types contain one another;
* migrator: a migration is applied once and completely, in order, whoever
  starts at the same time.

## 2. Modules

| module | models |
|---|---|
| `Releases` | the release engine, its tables, and what it sees of GitHub, the cluster and restarts |
| `ReleaseLedger` | abstract: what the release history promises to its reader |
| `ReleasesProofs` | theorems about `Releases` |
| `KubeClient` | the rollout operations as sequences of API server calls |
| `KubeRollout` | abstract: the atomic rollout step that `Releases` takes |
| `KubeClientProofs` | theorems about `KubeClient` |
| `LogTail` | the poll of pod logs and its comparison of tails |
| `LogTailProofs` | theorems about `LogTail` |
| `LogStream` | collector, `Ingest`, hub and `Stream`: the way of an entry to the browsers |
| `LogBook` | abstract: what the log pipeline promises to those who look at logs |
| `LogStreamProofs` | theorems about `LogStream` |
| `HistoryPage` | the release history and the release form of the service page, on top of `ReleaseLedger` |
| `LogPage` | the log tab of the service page, `Get` of the logs and what the page sees of the stream |
| `LogPageProofs` | theorems about `LogPage` |
| `Contracts` | the parser of `project.proto` and its handler |
| `ServicePageProofs` | theorems about `HistoryPage` and `Contracts` |
| `ServiceSettings` | the row of a service, the entries of `service_access`, the requests that read and write them, the coverage gate |
| `ServiceSettingsProofs` | theorems about `ServiceSettings` |
| `Migrator` | the start of servers: migrations and seed |
| `MigratorProofs` | theorems about `Migrator` |
| `MCReleases`, `MCKubeClient`, `MCLogTail`, `MCLogStream`, `MCServiceSettings`, `MCMigrator`, `MCHistoryPage`, `MCLogPage`, `MCContracts` | values for the constants of the runs |

### Releases

A request is a member of `Request`; it also names the row it creates and the
workflow run it dispatches, so a row, its poller and its run are found under
one index. `body[r]` is the request body, `Row(r)` the row `Deploy` or `Rollback`
makes of it. Each external call is one action:

| code | action |
|---|---|
| validation and early returns of `Deploy`, `Rollback` | `AcceptDeploy`, `AcceptRollback`, `Reject` |
| `applyKubeRollback` | `ApplyKubeRollback` |
| `CreatePending` → `INSERT`, with the CHECK constraints | `CreatePending` |
| `DispatchWorkflow` | `DispatchWorkflow` |
| `UpdateStatus(in_progress)`, `go waitForWorkflowAndDeploy` | `MarkInProgress` |
| a tick of the poller that sees a completed run | `PollCompletedRun` |
| the ten-minute timer | `PollTimeout` |
| `deployToK8s` | `DeployToK8s` |
| the poller's last `UpdateStatus` | `RecordResult` |
| `MarkResult`: `GetByID` and check; `UpdateStatus`; `UpdateServiceVersion` | `ReceiveReport`; `StoreReport`; `UpdateServiceVersion` |
| `srv.Shutdown` or a crash, and the next start | `Restart` |

`Outcome(system)` is how a call may end: it took effect or not, and the caller
saw a success or not; a success without effect does not exist, an effect
without success does. A cancelled request context is one of these failures.
GitHub lists a dispatched run some time after the dispatch (`RunListed`) and
ends it with either conclusion (`RunEnds`); `older[r]` is what it listed before
run `r`, so `IsLatestRun` is the answer of `GetLatestWorkflowRun` with
`per_page=1`. Several callback handlers (`CallSlot`) run at once.

`UpdateFromCI` (463-482) and `MarkResult` (51-61) look at the row and at no
workflow run: `ReceiveReport` takes either result for any row in progress, at any
time, any number of times, whatever its run has done. What a run or a theorem
supposes of the senders is in `Sent` and named by two constants:

* `Reports`: the kinds of release whose results are reported. `{"rollback"}` is
  what the code arranges, since only a rollback passes a callback URL to its
  workflow (361; the inputs of `Deploy`, 254-267, carry none). With
  `{"deploy", "rollback"}` deploys are reported too, as the route allows.
* `MayConflict`: may two reports of one release that are under way at the same
  time contradict each other? Nothing in the code keeps them from it. Where it is
  `FALSE`, that is an assumption about the workflows.

Left out: contents of names and images (an image is named by the run or the
tag it was built from), authentication, roles and organizations (a rejected
request is `Reject`), the branch of `kube == nil` (`main.go` 89-100 requires the
cluster), `applyKubeDeploy` (`handler.go` 385-435, called by nothing), re-runs of a
finished workflow.

### KubeClient

`pc[c]` is the next API call of rollout call `c`; `stableCopy` and `canaryCopy`
are the deployments as `c` read them. The API server is external: each call is
atomic, a create fails if the object exists, an update fails if the
`resourceVersion` it carries is stale or the object is invalid (a `Recreate`
strategy with `rollingUpdate` parameters is). `CallFails` is any error the code
only hands up, `Acknowledged` the lost answer of a write; deployment controllers
and operators interfere up to `MaxMeddling` times. Pull credentials are taken to
be configured, as the deployment files of the repository do.
`Releases` takes a rollout as one step; `KubeRollout` says what that assumes, and
the run `kube_client` shows that `KubeClient` implements it.

### LogTail

The code compares texts; the model also knows which line of which pod a text is
(`Place`), so that it can say what the store really holds. A tail is the set of the
places it covers, in order (`InOrder`), so that the proofs need no induction over
a filter of a sequence. `PollServiceLogs` is the
poll up to the release of the mutex (119-156) for one service, `AppendLine` one
round of the loop after it (158-174), in which `Append` may fail. One goroutine
polls all services in turn, so no poll overlaps another, and `Restart` empties the
snapshots, which live in memory only. `PodsChange` lets the API server list any
pod first: pods are listed by name with `Limit: 1` (`kubeclient/client.go` 331-339).
Left out: levels, and the order of services under the shared deadline of 30
seconds; a poll that fails changes nothing.

### LogStream

`lines`, `batch` and `sending` are the collector, which waits for the answer of each
batch; `at[h]` is where one served `Ingest` request stands between `Append`, the read
lock of `Broadcast`, and its sends to `targets[h]`. A channel `Send` is `buffer[c]`; the
goroutine `Stream` of a connection is `Accept`, `Join`, `Deliver` and `Leave`. The
`RWMutex` is not a variable of its own: handlers in `"send"` hold it for reading,
`Join` and `Leave` need none of those (`Unlocked`) and, waiting, keep new readers out
(`LockWanted`), as Go's writer preference does. `Stalled` connections have a client
that never reads, so their `Write` does not return. `GiveUp` is the collector's
timeout of five seconds or a broken connection, after which the handler is an
orphan whose context may end at any entry. `Crash` leaves only what Mongo has.
Left out: parsing of lines, tokens, other services (all state is per service),
and the poll's own appends, which make the same calls as one more handler.

### ServiceSettings

The threshold of the coverage gate is in `services` twice: in two columns
(`row.threshold`) and in the JSON (`row.settings`, where `None` is a key that is not
there). `UpdateSettings` replaces the JSON by the patch and lets `COALESCE` keep what the
patch leaves out in the columns; `Deploy` reads the columns. A `Slot` is a request in
service: its read (`ReadService`, with the checks on what was read) and its write
are two steps, others run in between, and a slot is used again, so behaviours
have any number of requests. A deploy passes the middleware first (`RequireRole`),
reads the row once more, and inserts its release; what follows is `Releases`, whose
`CoverageChange` is this module's `UpdateInfo` and `UpdateSettings`. The history `opened`
holds the deploys since whose arrival the coverage met the threshold at least
once, and the history `trusted` those since whose arrival their user was the owner
or a developer by the tables. `access` is `service_access`: `SetEntry` and `Revoke`
write it at any time, as the seed does at every start (`bootstrap/demo.go`
104-115) and as `GrantDeveloper` and `Revoke` are there to do, although no route
calls them. `RequireRole` is one step, although the code reads the service and
then the entry: no request changes the owner of a row or removes it, so the
first read says the same at the moment of the second. (The seed writes
`owner_user_id` at every start, `bootstrap/demo.go` 95, always with the same owner.) Left out: keys of the JSON
and columns that no check reads, other organizations (answered like a missing
row), bodies that do not validate (nothing happens), and the seed, which gives
the one service it knows back to its first owner.

### HistoryPage

The rows are those of `ReleaseLedger`, which `Releases` implements: the page relies
on the promise, not on who keeps it. `flight` holds the list requests under way,
each with what its run of the effect has closed over (`watch`, `cancelled`). An
answer sets state (`ShowList`, `Started`), React runs the cleanup and the effect
some time later (`RunEffect`): `active` is the state, `watch` what the effect last
ran with. `Tick` is the interval of 2.5 seconds, which does not wait for the answer
to its last request. `Reload` is a page that is left and opened again. The history
`dropped` holds releases in progress that the page has stopped watching: an answer
about one release clears whichever is active (487-492), a second start replaces
the first, a page load forgets both. Left out: what a row shows besides its
status, requests that are refused before there is a row, and the other tabs.

### LogPage

`run` counts the runs of the two effects (a filter changes, the tab is opened);
run `k` has its list request `get[k]` and its WebSocket `sock[k]`. The server's side of
the stream is cut down to an entry that is stored (`Append`), then broadcast once to
those who have joined and have room; `LogStream` has the rest. `Lists` is `Get`: filter,
newest first, limit, and the lines of the pods if there is nothing and no
filter. Filters are levels or everything; text and times are checked by the same
code. Left out: that the server matches a level exactly and a text as a regular
expression where the page ignores case and looks for a part; that the key of an
entry is its time in the zone of the server (UTC in its image) in both answers;
and an observer, who gets nothing.

### Contracts

The file is rpcs, messages and fields that developers add one by one (`FileSpec`).
What regular expressions do to its text is the form of an item: `plain` ones they
match; `unmatched` ones they miss, which are fields that are optional, maps, have
options or come second on a line (`fieldRe`, parser.go 15), and rpcs written in
another way than `rpcRe` (13) expects; `stray` ones they match although the file
has no such field there, in a comment between `/*` and `*/` (`stripComments`,
146-154, removes only `//`) or of a message declared inside another. `Brace` is a closing brace
inside a body, as options of an rpc, a `oneof`, an enum or an inner message bring
with them, at which the parser takes the body to end (12, 14). `Found` are the
positions in a body that it finds, so `FoundNodes` may be less and more than the
`FileNodes` of a reader of the file. `Expand` is `expandParameters`, as the set of
paths of its tree: a recursive function of the messages visited, which yields a
function of the message. `Paths` says without recursion what the tree over some fields should be:
`TreeShowsFields` asks for the paths over what was found, and for those
over the file where all in it is plain (`FileIsPlain`). A type that is not declared
at the top of the file, or is written with its package, unfolds to nothing and
is `Scalar`. Left out: the characters of the text, with braces and comment signs
inside strings; types that are named after an inner message; and the fixed answer for
the demo repository.

### Migrator

A server is `"down"` until it starts `Up`; `todo[s]` is what of the sorted file list it has
not passed. The check is a statement of its own, body and record share a
transaction (`"record"`, `"commit"`), and a second record of a migration fails on the
primary key. `Locked` is Postgres: DDL on what another open transaction creates or
alters waits. Any failure ends in `log.Fatal`, and `compose.yaml` 39 starts the process
again. The seed is one step per statement, two for `INSERT ... WHERE NOT EXISTS`,
whose look does not see inserts that are not committed. Bodies are abstracted to
their names, all of 001 to 009 can be repeated; the seed to "upserts" and
"releases". Left out: an `INSERT` that Postgres is still running when its client
dies, and that commits after the next start has looked.

## 3. Properties and runs

| run | instance | shows |
|---|---|---|
| `releases` | 2 requests from 5 bodies, 2 callbacks at once that agree about a release, all faults, 1 restart; 142,436 states | `SuccessMeansApplied`, `VersionIsReleased`, `ImageIsExplained`, `RolledOutOnce`, `ImplementsLedger` |
| `releases_reported` | 1 request from 5 bodies, deploys reported too, 2 callbacks that may contradict each other, faults of GitHub and Kubernetes, 2 restarts, fairness; 10,298 states | what survives whoever reports what, when poller and callbacks write the same row: `NoReopening`, `VersionFromFinished`, `AbandonedByFault`; and `DeploysSettle` |
| `history_page` | 2 releases, 2 list requests at once, 1 failed load, 1 page load, fairness; 803,186 states | `QuietPageIsRight`, `CatchesUp` |
| `kube_client` | 2 calls of any kind, 2 services in one namespace, any initial deployments, faults, one interference; 1,235,613 states | `ImplementsRollout`, `UpdatesWhatItRead`, `SomeoneSucceeds` |
| `log_tail` | 2 pods, 2 texts and blank lines, tails of 3, 6 lines, 1 restart, failing appends; 427,527 states | `StoredInOrder`, `ExactTail` |
| `log_stream` | collector of 3 lines in batches of 2, 2 handlers, 2 connections with buffers of 1, one of them stalled, lost answers, timeouts, 1 crash, fairness; 182,738 states | `ImplementsLogBook`, `LinesInOrder`, `NobodyHeldUp`, `AcknowledgedArrives` |
| `log_page` | 4 entries of which two look the same, a limit of 2, a cap of 3, a buffer of 1, 2 runs of the effects; 487,813 states | `ShownMatchesFilter`, `MissingExplained` |
| `service_settings` | 2 users of any role, 2 requests at once and any number in turn, percentages 0 and 1, every patch; 531,261 states | `JsonAgrees`, `LastWordCounts`, `ColumnsMoveByOwner`, `GateJustified`, `RoleJustified` |
| `migrator` | 3 servers, builds {1, 3} and twice {1, 2, 3}, a seed of 3 statements, 2 faults, fairness; 92,778 states | `AppliedOnce`, `OrderKept`, `UpMeansReady`, `SeededPerServer`, `ComesUp` |
| `contracts` | 3 messages, up to 4 rpcs and fields, each found, missed or stray, inner braces anywhere; 499,717 states | `TreeShowsFields` |
| `kube_recreate`, `log_tail_twice` | smallest instance | the findings below |

The runs `releases`, `log_tail`, `log_stream`, `log_page`, `service_settings` and
`migrator` check the `TypeOK` of their module as well; those of `HistoryPage` and
`KubeClient` are proved, and left out of their runs.

Why these bounds are enough to be interesting: two requests are the least that
race for a row's version, a place in the cluster and a branch's latest run; two
callback slots let two `MarkResult` pass the check at 59 before either writes;
the five bodies cover both kinds, every strategy with its own code path, every
combination of tag and branch that `Deploy` accepts, the defaults, and a body the
database refuses. With one restart every prefix of every handler occurs. Two
rollout calls are the least that race, two services are the least that share a
namespace and not a deployment, and one interference separates any read from
its write. `DeploysSettle` speaks of a deploy that is polled and leaves a restart
out: after one, nothing polls. One release is enough in `releases_reported`: its four
properties each speak of one release, whose row, poller, callbacks and version race
with one another there, and two callbacks are the least that contradict each
other. Two releases with two such callbacks under fairness are too many states;
`releases` has the races between releases. `CoverageChange` is always possible, so
`Releases` has no deadlock; a rollout call ends for good, and lines, pods and
connections run out, so the other runs do not check deadlock.

Six lines in tails of three give every relation of two successive tails: equal,
overlapping, disjoint, of two pods, with repeated and with blank lines; two
texts are the least with which a chance overlap differs from the true one. In
`log_tail` a pod that was listed first is not listed first again once another
one was (`ComesBack = FALSE`): that is a restarted or replaced pod, and with it
no line is stored twice. With `ComesBack = TRUE` the property fails (`log_tail_twice`).
Three lines make two batches, the second one cut off by the end of the input; a
buffer of one is full at the second entry; two handlers are at work at once only
after the collector has given up on one, which the bounds include.

Two percentages are enough for a coverage under, at and over a minimum. Two
requests at once put any write between a read and its write. A third server lets
one lose the race for a migration to a second and find the work of a first; the
build {1, 3} makes migration 2 one that is added later under a smaller name.

Two list requests at once are the least that overtake one another, and two
releases the least of which one is dropped for the other. Of the four entries of
`log_page` two have one key, one has their text a second later and one another
level; a limit of 2 and a cap of 3 are passed by them, and a buffer of 1 by the
second that waits. Two runs of the effects are one that was cleaned up and one
that is current. Three message types make every cycle and every type used twice
side by side; four items are an rpc and three fields, or fewer fields and a
brace or something missed or stray between them.

Fairness (`Releases!Fairness`): weak fairness of each handler's next call, of the
poller's tick or timer, of its rollout and its last write, and of the two writes
of a callback. These are goroutines of the server that can run. It takes for
granted that a call is answered, with success or error. `http.DefaultClient`
(`main.go` 73) has no timeout and the poller's context is never cancelled, so a
GitHub that holds a connection open for ever is outside this assumption, and
then the timer at `handler.go` 538 is never looked at. Nothing is assumed of
GitHub's runs, of reports or of users. Database faults are off in
`releases_reported`: the poller drops the error of its last `UpdateStatus` (557,
560), so one failing write leaves a row in progress.

`LogStream!Fairness` is weak fairness of the handlers' steps and of the goroutines of
connections that are not stalled. It assumes that Mongo answers, and nothing of
the collector, of lines to come or of clients. `Migrator!FairSpec` is weak fairness of
each server's own steps, the restart of the process among them.
`HistoryPage!Fairness` assumes that React runs an effect that is due, that the timer
fires, and that a list request that is sent is answered, well or with an error:
loads may fail up to the bound, and then the next tick makes up for it. Nothing
is assumed of users or of the progress of releases.

Every property has a mutant of the code (an operator beside the one it
replaces) under which TLC finds it violated.

### Findings

* `kube_recreate`: a recreate over a rolling deployment is refused (tor.md:463).
* `log_tail_twice`: stored lines may be stored and broadcast again when two pods
  of a service take turns in being listed first, as a deployment and its canary
  do, and their tails share a line (handler.go 425-427).

Met while modelling and not checked by a run of their own (three are theorems, named
in brackets): nothing resumes a poller after a restart, so its release stays in
progress (handler.go 291, main.go 243-262; user-stories.md:174) [`AbandonedForGood`];
a dispatch that reports an error leaves its row pending for ever, even if the
workflow runs and reports (handler.go 269-283, 59) [`StrandedForGood`]; a poller may take another release's run on the
same branch for its own (githubclient/client.go 223; handler.go 553);
the history page follows the release that was started last, and none after a page
load (ServicePage.jsx 487, 504; user-stories.md:174); a log list that comes late
wipes what was streamed before it, and nothing opens a broken WebSocket again
(ServicePage.jsx 373, 413; US-07 in user-stories.md); the contracts lose all of
a body after its first inner closing brace (protoparser/parser.go 12, 14), miss
fields that are optional, maps, have options or are second on a line (15), and show fields
that stand in `/* */` or belong to an inner message (146-154), where tor.md 157
asks for the methods and their parameters; the profile lists a
service twice for an owner with an entry of developer (repository/postgres/service.go
157-190); a late 404 or 400 of the contracts is shown although their tab was left
(ServicePage.jsx 431-432); deploys never move
`services.version`, only reported rollbacks do (tor.md:124, user-stories.md:60;
releases/handler.go 560 against 68); a reported result is taken whatever the run
concluded or whether it has ended (handler.go 51-61, 463-482), and of two callbacks
past the check at 59 the later write wins, so that a result may be replaced
by its opposite, and a version published for a release that is shown as failed
(59-71); the coverage threshold blocks no rollback
(tor.md:205; handler.go 299-349); a settings patch without the two owner-only keys,
whoever sends it, removes the threshold from the JSON that `GET .../settings`
returns, while columns and gate keep it (tor.md:203; settings.go 58,
service.go 244); a rollback reaches the cluster
before it has a row and may never get one (user-stories.md:145; handler.go 340
before 349); a rollback accepts a tag that was never released (tor.md:192-193;
handler.go 333); a rolling deploy leaves a recreated deployment on `Recreate`
(kubeclient/client.go 139; tor.md:162-165) [`StrategyNeverChanges`]; a deploy with branch and tag dispatches on the branch and
polls the tag (handler.go 250 and 287), so its poller times out or judges
another run; a rollback's report that comes before 373 is refused for good.

## 4. Proofs

`ReleasesProofs` proves for any requests, services, environments, refs, faults
and number of restarts:

* `TypeCorrect`: `TypeOK`;
* `VersionFinished` and `NeverReopened`: `VersionFromFinished` and `NoReopening`,
  whoever reports what and when;
* `ClusterExplained`: `ImageIsExplained`, that an image in the cluster is what some
  rollback asked for, or what a green run built of the repository of the service
  on the ref of its release; `OnlyGreenRunsDeployed` is its corollary
  (`ImageFromGreenRun`);
* `NoSecondRollout`: `RolledOutOnce`;
* `OnlyFaultsAbandon`: `AbandonedByFault`, that a deploy in progress has somebody at
  work on it unless the database failed or the server was restarted; and
  `StrandedForGood`, that a row which is pending when its handler is over stays so;
* for `Reports = {"rollback"}`: `SuccessIsApplied` (`SuccessMeansApplied`),
  `PollerAlone`, and `AbandonedForGood`, that nothing repairs an abandoned deploy;
* for `Reports = {"rollback"}` and `~MayConflict`: `VersionReleased`
  (`VersionIsReleased`), the action property `ResultNeverChanges`, and
  `LedgerImplemented`, that `Releases` implements `ReleaseLedger`.

The argument. None of the safety properties is inductive. `StageInv` (types,
`RequestStage`, `CallStage`) says how far a request, its row, its poller and its
reports may have come relative to one another: a row is pending while its
handler dispatches and marks it, a poller exists only after its handler is done,
a report under way belongs to a row in progress or finished.
It is inductive by itself, for any `Reports`. `VersionStage` follows a version back to
a callback that stored a success: after that the row is finished for good, though
perhaps with another result. `AppliedInv` adds that the rollout comes first
(`RolloutFirst`) and that a poller's row is in progress (`PollerOwnsRow`); the latter
needs that deploys are not reported. `ResultInv` adds that reports under way agree with the
result the row has (`CallAgrees`), which is what finality rests on: two callbacks of one
row may both have passed the check at 59, and the second write is harmless only if
both say the same. That they do is the assumption `~MayConflict`, not something
the code sees to. `RolloutStage` says
how far a release whose rollout reached the cluster has come at least: a second rollout
would need a handler or a poller that is already past it. `Marked` says that a poller's
row has left pending, so nobody is left to move a row whose handler gave up. Each of
the proofs has one lemma per kind of step, and `NextKeeps...` combines them. The
refinement of `ReleaseLedger` maps status and version to themselves; its step lemma is
a case split over `Next` in which everything but five actions stutters.

`ServiceSettingsProofs` proves for any users, percentages and requests in service
at a time: `SettingsTypeCorrect` (`TypeOK`), `CopiesAgree` (`JsonAgrees`),
`LastWordHolds` (`LastWordCounts`), `OwnerMoves` (`ColumnsMoveByOwner`),
`ReleaseJustified` (`GateJustified`) and `ReleaseTrusted` (`RoleJustified`). `JsonAgrees`
and `LastWordCounts` are inductive together with the types. The others are about a write
that comes some steps after its check, when other requests may have written the
row in between. `Checked` says what survives: the row is there, its owner is the
one whom the check saw (no step changes the owner of a row), and a deploy
that passed the gate has seen it open since it arrived, as from the middleware on
it has seen its user allowed. Neither the threshold nor the entry survives, which is why
`GateJustified` and `RoleJustified` speak of some moment and not of the moment of
the insert.

`KubeClientProofs` proves for any callers, services, initial deployments, faults and
interference: `KubeTypeCorrect` (`TypeOK`), `NoLostUpdate` (`UpdatesWhatItRead`),
`EveryCallIsOneRollout` (`ImplementsRollout`) and `OneCallGetsThrough`
(`SomeoneSucceeds`). `StrategyNeverChanges` (`StrategyStuck`) is the extent of a
divergence and no promise: no call ever changes the strategy of a standing
deployment, although tor.md:162-165 lets the user choose it per deploy and
client_test.go 102-131 expects a recreate to set it (on the fake API server of
that test, which does not refuse the update). No run checks it; `kube_recreate` is the
way in which it shows. `Reading` says what a call has read before it comes to a write;
`VersionsTell` that an object with the `resourceVersion` of a copy is that copy
(`StillSame`), which is what makes the server's check of the version a check of
the whole object. `Defaulted` says that objects and copies have the parameters of a
rolling update exactly when they have that strategy, as the API server fills them in
and enforces: an edit either keeps the strategy of its copy, or leaves parameters for
which the server refuses it (`EditedKeepsStrategy`), and `StillSame` makes the copy the
object. `SomeoneSucceeds` speaks of the end of all calls, and needs a
reason for each failure on the way (`Excused`): as long as nothing went wrong and
nobody has got through (`Calm`), a call fails only because its deployment cannot
be edited, because it is a recreate, or because it lost the namespace to a call
that will get through (`Winner`). `Hope` puts these together; when all have ended,
no winner is left to hope for, and a rolling deploy has no excuse.

`LogTailProofs` proves for any pods, outputs, texts and lengths of the tail:
`TailTypeCorrect` (`TypeOK`), `ExactlyTheNew` (`ExactTail`) and, under `~ComesBack`,
`TailInOrder` (`StoredInOrder`) and `NothingTwice` (`NoTailTwice`). The assumption is
that of the run, and `log_tail_twice` shows that it is needed: a pod that comes
back is the only way to a line that is stored twice. The snapshot is always what
some poll saw of one pod (`Taken`). Whatever overlap of texts the code finds, it
is at least the true one, the lines both tails cover: so no old line is taken
for new (`NewIsLater`), and if no text repeats the overlap is the true one
(`PollIsExact`). `StoredInOrder` is not inductive, because lines wait in `pending`:
`OrderInv` states it of `lines`, the stored and the pending ones, and adds that
nothing after the snapshot was taken (`Reached`), that the pod listed first is
not one that was listed before (`Turns`), and that its lines come last (`InTurn`).
That the common lines of two tails are the end of the first and the start of
the second (`WindowShift`) would be an induction over sequences; here it is
counted instead: a line is found by its rank in a finite set of numbers
(`NthIs`), and ranks in the two tails differ by a constant.

`LogStreamProofs` proves for any handlers, connections, sizes and crashes:
`StreamTypeCorrect` (`TypeOK`), `OrderIsRead` (`LinesInOrder`), `StreamIsLogBook`
(`ImplementsLogBook`), `HubKnowsOpen` (`HubKnows`) and `NothingMislaid`: an entry that Mongo
has acknowledged and that is on its way to a connection stays so until it is in the
buffer, and there until it is shown, unless that buffer was full or the connection
ended. That is `AcknowledgedArrives` without the word "finally", and holds with any
number of handlers, stalled clients, timeouts and crashes. `Lineage` says that a line is in the batch, with one handler
or through with it, `Delivery` that a stored entry is still owed to a connection,
in its buffer, or through with it, for each connection; from the two follows that
nothing is shown twice, which `LogBook` promises. `Orderly` adds that what is
further along is older, which holds until the collector gives up on a handler
(`late`): from then on two handlers append at once. `HubKnows` makes `NothingMislaid`
inductive: what a handler still has to offer to are connections in the hub, which none
can leave while it sends.

`ServicePageProofs` proves for any releases, requests under way, failures and page
loads: `HistoryTypeCorrect` (`TypeOK`), `QuietIsRight` (`QuietPageIsRight`) and
`UnfinishedStaysActive` (`UnfinishedIsActive`), the safety half of `CatchesUp`. `Kept` is the heart: a release that was
started and not dropped is the active one, or it has its result and the page
says that a load failed, is about to run its effect again, shows the result, or
will get it (`Coming`).
That needs `Answers`: a request that is not cancelled belongs to the current run
of the effect, and a result that was read is the result, since `ReleaseLedger`
never changes one.

It proves for any messages, scalars and length of the file `TreeIsRight`: `TreeShowsFields`
of each file that `FileSpec` can write, whatever of it the regular expressions miss or add. `Expand` recurs over message types that may
contain one another, which would be an induction; the induction theorems take an
operator, so the proof does without. `Ways`, the paths over the
fields found, defined by quantifiers over sequences, solve the equation of the recursion (`WaysUnfold`), and
the equation has one solution (`OneSolution`): were there two, a place where they differ
with the least number of declared messages left to visit would have one below it with
fewer. `WaysAreShort` bounds the paths by the number of messages: the answer ends although
types contain one another.

`LogPageProofs` proves for any entries, filters, limits and number of runs of the
effects: `PageTypeCorrect` (`TypeOK`, with the lengths of the list and of the page),
`FilterHolds` (`ShownMatchesFilter`) and `NothingElseMissing` (`MissingExplained`).
`ShownMatchesFilter` is not inductive: an entry or a list that is still on its way
could be of another filter. `OneSocket` says that only the current run has a
WebSocket, `ListsMatch` that a list that was read passes the filter of the run
that asked for it; with the two, what is delivered or shown passes the current
filter. For `MissingExplained` each entry is followed from the store to the page
(`Complete`): it was in the list or too old for it, or it came later and is queued,
missed, or held. `Held` counts an entry whose look is shown as there, and one that
is beyond the cap only while the page shows each look once (`OneEach`): the cap
then leaves out what is older than as many different looks.

`MigratorProofs` proves for any servers, builds, seed and faults:
`MigratorTypeCorrect` (`TypeOK`), `EachAppliedOnce` (`AppliedOnce`), `OrderIsKept`
(`OrderKept`), `UpIsReady` (`UpMeansReady`) and `SeedDoesNotPileUp` (`SeededPerServer`).
`Passed` says that what a server has passed is recorded, `Alone` that two servers
are never inside the transactions of one migration and that one which is about
to commit has seen it unrecorded; `Seeded` is `Passed` for the statements of the
seed. `OrderKept` speaks of pairs of committed migrations and becomes inductive as
`InOrder`: each was committed by a build all of whose smaller ones were there
before. The bound on the rows is `RowsToCome`, which counts the servers that have
looked, found nothing and are about to insert along with the rows: looking
again after an insert finds it, so the sum never grows beyond the servers.

The assumptions are those on the constants, named beside their declarations, which
the runs evaluate: numbers where numbers are meant, bounds and sizes at least
what the code allows (a tail, a batch, a buffer and a limit of at least one), the
marks for nothing different from everything else, and in `Migrator` finitely many
servers and a seed that is not empty, in `KubeClient` initial deployments as
the API server would have stored them, its defaults filled in, in `HistoryPage` a browser that can have a request
under way. Nothing is assumed of the order of steps but `Reports = {"rollback"}`, `~MayConflict` and
`~ComesBack`, where a theorem names them.

Only model-checked are the liveness properties `DeploysSettle`, `CatchesUp`,
`NobodyHeldUp`, `AcknowledgedArrives` and `ComesUp`: fairness and ENABLED are out of the
prover's reach. For three of them the safety half is proved, that nothing is lost on
the way: `OnlyFaultsAbandon`, `UnfinishedStaysActive` and `NothingMislaid`. What the two
runs that expect a violation show stays with TLC as well.

## 5. Plan

1. `Releases`, `ReleaseLedger`, `ReleasesProofs`: done.
2. `KubeClient`, `KubeRollout`, `KubeClientProofs`: done.
3. `LogTail`, `LogTailProofs`, `LogStream`, `LogBook`, `LogStreamProofs`: done.
4. `ServiceSettings`, `ServiceSettingsProofs`: done, with roles.
5. `Migrator`, `MigratorProofs`: done.
6. `HistoryPage`, `LogPage`, `LogPageProofs`, `Contracts`, `ServicePageProofs`: done.
7. The safety half of what is checked as liveness: done for releases, the log stream
   and the history page. Left: that in each state short of the goal some step of the
   server is possible, stated without ENABLED, for these and for `Migrator`.

## 6. Not modelled

Authentication (stateless, a library signs and checks), users, organizations and
the profile (single reads of tables that only the seed writes), metrics (one
field and a URL), configuration and helpers, the listing of branches and tags,
the pages of the frontend other than the two parts of `ServicePage.jsx` above (each
loads once and shows what it gets), the proxy, and the text that the regular
expressions of the parser and of the collector read. `PROJECT.json` gives the reason
for each.
