----------------------------- MODULE HistoryPage -----------------------------
(***************************************************************************)
(* The release history of the service page (ServicePage.jsx) on top of the *)
(* release ledger: the effect that loads the list and, while one release   *)
(* is active, loads it again every 2.5 seconds; the requests it has under  *)
(* way, whose answers come in any order; and the form that starts deploys  *)
(* and rollbacks. React runs an effect again some time after the state it  *)
(* depends on was set, so the two are separate steps.                      *)
(***************************************************************************)
EXTENDS ReleaseLedger, Naturals

CONSTANTS
  None,         \* the empty activeReleaseID
  Slot,         \* list requests that may be under way at once
  MaxFailures,  \* bound on the list requests that fail
  MaxReloads    \* bound on the times the user loads the page anew

ASSUME NoneAssumption == None \notin Release
ASSUME SlotAssumption == Slot # {}
ASSUME BoundAssumption == MaxFailures \in Nat /\ MaxReloads \in Nat

Settled == {"success", "failed"}
RowStatus == {"none", "pending", "in_progress"} \cup Settled

VARIABLES
  shown,     \* releases: the status of each release in the list on the page
  active,    \* activeReleaseID
  watch,     \* the activeReleaseID the effect last ran with
  flight,    \* flight[q]: a list request of the page
  notice,    \* releasesStatus says that the history is not available
  post,      \* post[r]: the request that starts r, as the page sees it
  failures,  \* list requests that failed so far
  reloads,   \* page loads after the first so far
  dropped    \* history: releases in progress the page stopped watching

pageVars == <<shown, active, watch, flight, notice, post, failures, reloads, dropped>>
vars == <<ledgerVars, pageVars>>
-----------------------------------------------------------------------------
NothingShown == [r \in Release |-> "none"]

\* A list request carries what its run of the effect has closed over.
Free == [at |-> "free", watch |-> None, cancelled |-> FALSE, list |-> NothingShown]
Sent(w) == [at |-> "sent", watch |-> w, cancelled |-> FALSE, list |-> NothingShown]

Request ==
  [at : {"free", "sent", "read"}, watch : Release \cup {None}, cancelled : BOOLEAN,
   list : [Release -> RowStatus]]

TypeOK ==
  /\ status \in [Release -> RowStatus]
  /\ shown \in [Release -> RowStatus]
  /\ active \in Release \cup {None}
  /\ watch \in Release \cup {None}
  /\ flight \in [Slot -> Request]
  /\ notice \in BOOLEAN
  /\ post \in [Release -> {"none", "sent", "ok", "lost"}]
  /\ failures \in 0..MaxFailures
  /\ reloads \in 0..MaxReloads
  /\ dropped \subseteq Release

\* The first run of the effect: one request, nothing to watch.
FreshFlight == [q \in Slot |-> IF q = CHOOSE p \in Slot : TRUE THEN Sent(None) ELSE Free]

Init ==
  /\ LedgerInit
  /\ shown = NothingShown
  /\ active = None
  /\ watch = None
  /\ flight = FreshFlight
  /\ notice = FALSE
  /\ post = [r \in Release |-> "none"]
  /\ failures = 0
  /\ reloads = 0
  /\ dropped = {}
-----------------------------------------------------------------------------
(* The effect.                                                              *)

IsFree(q) == flight[q].at = "free"

FreeSlot == CHOOSE q \in Slot : IsFree(q)

\* What a release that stops being watched adds to the history.
Unsettled(set) == {r \in set : r \in Release /\ status[r] \notin Settled}

\* What the cleanup of a run leaves of its requests.
LeftAlone == flight
Cancelled == [q \in Slot |-> IF IsFree(q) THEN Free ELSE [flight[q] EXCEPT !.cancelled = TRUE]]

\* React notices that activeReleaseID changed: it runs the cleanup of the last
\* run and then the effect, which sends one request at once.
RunEffect ==
  /\ active # watch
  /\ \E q \in Slot : IsFree(q)
  /\ flight' = [Cancelled EXCEPT ![FreeSlot] = Sent(active)]
  /\ watch' = active
  /\ UNCHANGED <<ledgerVars, shown, active, notice, post, failures, reloads, dropped>>

\* Only a run with an active release sets the timer.
NoTimer == FALSE
TimerSet == watch # None

\* The timer does not wait for the answer to the request before.
Tick ==
  /\ TimerSet
  /\ \E q \in Slot : IsFree(q)
  /\ flight' = [flight EXCEPT ![FreeSlot] = Sent(watch)]
  /\ UNCHANGED <<ledgerVars, shown, active, watch, notice, post, failures, reloads, dropped>>

\* The server reads the rows; the answer is then on its way.
ReadRows(q) ==
  /\ flight[q].at = "sent"
  /\ flight' = [flight EXCEPT ![q].at = "read", ![q].list = status]
  /\ UNCHANGED <<ledgerVars, shown, active, watch, notice, post, failures, reloads, dropped>>

\* A list with the result of the watched release ends the watch, whatever the
\* active release is by now.
EndsWhenStarted(w, list) == w # None /\ list[w] \in Settled \cup {"in_progress"}
EndsWatch(w, list) == w # None /\ list[w] \in Settled

ShowList(q) ==
  LET w == flight[q].watch
      list == flight[q].list
  IN  /\ flight[q].at = "read"
      /\ flight' = [flight EXCEPT ![q] = Free]
      /\ IF flight[q].cancelled
           THEN UNCHANGED <<shown, active, dropped>>
           ELSE /\ shown' = list
                /\ IF EndsWatch(w, list)
                     THEN active' = None /\ dropped' = dropped \cup Unsettled({active} \ {w})
                     ELSE UNCHANGED <<active, dropped>>
      /\ UNCHANGED <<ledgerVars, watch, notice, post, failures, reloads>>

\* An answer that is no success says so on the page even after the cleanup; a
\* connection that breaks says so only before it. Nothing takes it back.
LoadFails(q) ==
  /\ flight[q].at = "sent"
  /\ failures < MaxFailures
  /\ failures' = failures + 1
  /\ flight' = [flight EXCEPT ![q] = Free]
  /\ notice' \in {TRUE} \cup (IF flight[q].cancelled THEN {notice} ELSE {})
  /\ UNCHANGED <<ledgerVars, shown, active, watch, post, reloads, dropped>>
-----------------------------------------------------------------------------
(* The form, and the server behind it.                                      *)

\* The button is never disabled because another release is under way. A request
\* refused before its row exists leaves nothing behind and is not modelled.
Submit(r) ==
  /\ Open(r)
  /\ post' = [post EXCEPT ![r] = "sent"]
  /\ UNCHANGED <<shown, active, watch, flight, notice, failures, reloads, dropped>>

\* The field of the answer that the page keeps.
StatusOfAnswer(r) == status[r]
IdOfAnswer(r) == r

\* Deploy and Rollback answer once the row is in progress.
Started(r) ==
  /\ post[r] = "sent"
  /\ status[r] \in {"in_progress"} \cup Settled
  /\ post' = [post EXCEPT ![r] = "ok"]
  /\ active' = IdOfAnswer(r)
  /\ dropped' = dropped \cup Unsettled({active} \ {r})
  /\ UNCHANGED <<ledgerVars, shown, watch, flight, notice, failures, reloads>>

\* An error or no answer; the handler may still go on.
NotStarted(r) ==
  /\ post[r] = "sent"
  /\ post' = [post EXCEPT ![r] = "lost"]
  /\ UNCHANGED <<ledgerVars, shown, active, watch, flight, notice, failures, reloads, dropped>>

Serve(r) == (Start(r) \/ Finish(r)) /\ UNCHANGED pageVars

\* The page is left and loaded anew: state, timer and requests are gone.
Reload ==
  /\ reloads < MaxReloads
  /\ reloads' = reloads + 1
  /\ shown' = NothingShown
  /\ active' = None
  /\ watch' = None
  /\ flight' = FreshFlight
  /\ notice' = FALSE
  /\ post' = [r \in Release |-> IF post[r] = "sent" THEN "lost" ELSE post[r]]
  /\ dropped' = dropped \cup Unsettled({r \in Release : post[r] = "ok"})
  /\ UNCHANGED <<ledgerVars, failures>>
-----------------------------------------------------------------------------
Next ==
  \/ RunEffect \/ Tick \/ Reload
  \/ \E q \in Slot : ReadRows(q) \/ ShowList(q) \/ LoadFails(q)
  \/ \E r \in Release : Submit(r) \/ Started(r) \/ NotStarted(r) \/ Serve(r)

Spec == Init /\ [][Next]_vars

\* React runs a due effect, the timer fires, every request is answered. Nothing
\* is assumed of users, of the releases or of how a request ends.
Fairness ==
  /\ WF_vars(RunEffect)
  /\ WF_vars(Tick)
  /\ \A q \in Slot : WF_vars(ReadRows(q)) /\ WF_vars(ShowList(q))

FairSpec == Spec /\ Fairness
-----------------------------------------------------------------------------
Quiet == active = None /\ watch = None /\ \A q \in Slot : IsFree(q)

\* A page that has stopped loading the list, and does not say that it could not
\* be loaded, shows the result of every release started on it, except of those
\* it dropped while in progress: late answers of earlier requests, which come in
\* any order, never leave an old status behind (ServicePage.jsx 486-488, 503-509).
QuietPageIsRight ==
  Quiet /\ ~notice =>
    \A r \in Release : post[r] = "ok" /\ r \notin dropped =>
      status[r] \in Settled /\ shown[r] = status[r]

\* The result of a release started on the page comes to be shown without the
\* user doing anything (user-stories.md:174): a failed load is made up for by
\* the next tick, unless the page has dropped the release for another one or
\* its last load failed and says so.
CatchesUp ==
  \A r \in Release :
    (post[r] = "ok" /\ status[r] \in Settled) ~>
      (shown[r] = status[r] \/ r \in dropped \/ (notice /\ active = None))

\* What both rest on: until it has its result, a release that was started on the
\* page and not dropped is the active one, whatever answers come late and whatever
\* requests fail. So of two unfinished releases one at least is dropped
\* (ServicePage.jsx 486-494, 916).
UnfinishedIsActive ==
  \A r \in Release :
    post[r] = "ok" /\ r \notin dropped /\ status[r] \notin Settled => active = r
=============================================================================
