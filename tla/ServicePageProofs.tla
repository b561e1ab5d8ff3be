-------------------------- MODULE ServicePageProofs --------------------------
(***************************************************************************)
(* Proofs about what the service page shows: its release history, for any  *)
(* releases, any number of requests under way, of failures and of page     *)
(* loads, and its contracts, for any messages that contain one another in  *)
(* any way.                                                                *)
(***************************************************************************)
EXTENDS HistoryPage, Contracts, SequenceTheorems, FiniteSetTheorems,
        WellFoundedInduction, TLAPS

(***************************************************************************)
(* The release history.                                                    *)
(***************************************************************************)

\* A request whose answer the page will show.
Awaited(q) == flight[q].at # "free" /\ ~flight[q].cancelled

\* What is or was watched was started on the page, and what was started has a row.
Known ==
  /\ \A r \in Release : post[r] # "none" => status[r] # "none"
  /\ active # None => post[active] = "ok"
  /\ watch # None => post[watch] = "ok"

\* The cleanup of a run lets none of its answers through, and a result that was
\* read is the result.
Answers ==
  \A q \in Slot :
    /\ Awaited(q) => flight[q].watch = watch
    /\ flight[q].at = "read" =>
         \A r \in Release :
           flight[q].list[r] \in Settled => flight[q].list[r] = status[r]

\* The result of r is shown or about to be, and no older answer is awaited.
Coming(r) ==
  /\ \A q \in Slot :
       Awaited(q) /\ flight[q].at = "read" => flight[q].list[r] = status[r]
  /\ shown[r] = status[r] \/ \E q \in Slot : Awaited(q)

\* A release that was started and not dropped is watched, or it has its result and
\* the page knows it, will load it, or says that it could not.
Kept ==
  \A r \in Release :
    post[r] = "ok" /\ r \notin dropped =>
      \/ active = r
      \/ status[r] \in Settled /\ (notice \/ active # watch \/ Coming(r))

HistoryInv == TypeOK /\ Known /\ Answers /\ Kept
-----------------------------------------------------------------------------
(* Facts about the requests.                                                *)

LEMMA Blank == NothingShown \in [Release -> RowStatus]
  BY DEF NothingShown, RowStatus

LEMMA Requests ==
  /\ Free \in Request /\ Free.at = "free" /\ ~Free.cancelled
  /\ \A w \in Release \cup {None} :
       Sent(w) \in Request /\ Sent(w).at = "sent" /\ ~Sent(w).cancelled /\ Sent(w).watch = w
<1>1. Free \in Request /\ Free.at = "free" /\ ~Free.cancelled
  BY Blank DEF Free, Request
<1>2. ASSUME NEW w \in Release \cup {None}
      PROVE  Sent(w) \in Request /\ Sent(w).at = "sent" /\ ~Sent(w).cancelled
               /\ Sent(w).watch = w
  BY Blank DEF Sent, Request
<1> QED
  BY <1>1, <1>2

LEMMA SlotFree ==
  ASSUME \E q \in Slot : IsFree(q)
  PROVE  FreeSlot \in Slot /\ IsFree(FreeSlot)
  BY DEF FreeSlot

\* The first run of the effect has one request under way, which is to be shown.
LEMMA Fresh ==
  /\ FreshFlight \in [Slot -> Request]
  /\ \A q \in Slot : FreshFlight[q] \in {Free, Sent(None)}
  /\ \E q \in Slot : FreshFlight[q] = Sent(None)
<1> DEFINE first == CHOOSE p \in Slot : TRUE
<1>1. first \in Slot
  BY SlotAssumption
<1>2. FreshFlight = [q \in Slot |-> IF q = first THEN Sent(None) ELSE Free]
  BY DEF FreshFlight
<1> HIDE DEF first
<1>3. Free \in Request /\ Sent(None) \in Request
  BY Requests
<1> QED
  BY <1>1, <1>2, <1>3

LEMMA CancelledType ==
  ASSUME TypeOK
  PROVE  /\ Cancelled \in [Slot -> Request]
         /\ \A q \in Slot :
              \/ flight[q].at = "free" /\ Cancelled[q] = Free
              \/ /\ Cancelled[q].at = flight[q].at /\ Cancelled[q].cancelled
                 /\ Cancelled[q].list = flight[q].list
<1>1. ASSUME NEW q \in Slot
      PROVE  /\ Cancelled[q] \in Request
             /\ \/ flight[q].at = "free" /\ Cancelled[q] = Free
                \/ /\ Cancelled[q].at = flight[q].at /\ Cancelled[q].cancelled
                   /\ Cancelled[q].list = flight[q].list
  <2>1. flight[q] \in Request
    BY DEF TypeOK
  <2>2. /\ [flight[q] EXCEPT !.cancelled = TRUE] \in Request
        /\ [flight[q] EXCEPT !.cancelled = TRUE].at = flight[q].at
        /\ [flight[q] EXCEPT !.cancelled = TRUE].cancelled
        /\ [flight[q] EXCEPT !.cancelled = TRUE].list = flight[q].list
    BY <2>1 DEF Request
  <2> QED
    BY <2>2, Requests DEF Cancelled, IsFree
<1>2. Cancelled = [q \in Slot |-> Cancelled[q]]
  BY DEF Cancelled
<1> QED
  BY <1>1, <1>2
-----------------------------------------------------------------------------
(* The effect.                                                              *)

LEMMA InitHistory == Init => HistoryInv
<1> SUFFICES ASSUME Init PROVE HistoryInv
  OBVIOUS
<1>1. /\ failures \in 0..MaxFailures /\ reloads \in 0..MaxReloads
  BY BoundAssumption DEF Init
<1>2. status \in [Release -> RowStatus]
  BY DEF Init, LedgerInit, RowStatus
<1>3. TypeOK
  BY <1>1, <1>2, Blank, Fresh DEF Init, TypeOK
<1>4. Known
  BY DEF Init, Known
<1>5. \A q \in Slot :
        flight[q].at \in {"free", "sent"} /\ (Awaited(q) => flight[q].watch = None)
  BY Fresh, Requests DEF Init, Awaited
<1>6. Answers
  BY <1>5 DEF Init, Answers
<1>7. Kept
  BY DEF Init, Kept
<1> QED
  BY <1>3, <1>4, <1>6, <1>7 DEF HistoryInv

LEMMA RunEffectKeeps == HistoryInv /\ RunEffect => HistoryInv'
<1> SUFFICES ASSUME HistoryInv, RunEffect PROVE HistoryInv'
  OBVIOUS
<1> DEFINE s == FreeSlot
<1>0. /\ active # watch /\ s \in Slot /\ flight[s].at = "free"
      /\ flight' = [Cancelled EXCEPT ![s] = Sent(active)] /\ watch' = active
      /\ UNCHANGED <<row, status, version, shown, active, notice, post, failures, reloads,
                     dropped>>
  BY SlotFree DEF RunEffect, IsFree, ledgerVars
<1> HIDE DEF s
<1>1. active \in Release \cup {None}
  BY DEF HistoryInv, TypeOK
<1>2. /\ flight' \in [Slot -> Request] /\ flight'[s] = Sent(active)
      /\ \A q \in Slot \ {s} : flight'[q] = Cancelled[q]
  BY <1>0, <1>1, CancelledType, Requests DEF HistoryInv
<1>3. TypeOK'
  BY <1>0, <1>2 DEF HistoryInv, TypeOK
<1>4. Known'
  BY <1>0 DEF HistoryInv, Known
<1>5. \A q \in Slot : Awaited(q)' <=> q = s
  BY <1>0, <1>1, <1>2, CancelledType, Requests DEF HistoryInv, Awaited
<1>6. ASSUME NEW q \in Slot, flight'[q].at = "read"
      PROVE  flight[q].at = "read" /\ flight'[q].list = flight[q].list
  BY <1>0, <1>1, <1>2, <1>6, CancelledType, Requests DEF HistoryInv
<1>7. Answers'
  BY <1>0, <1>1, <1>2, <1>5, <1>6, Requests DEF HistoryInv, Answers
<1>8. \A r \in Release : Coming(r)'
  BY <1>0, <1>1, <1>2, <1>5, Requests DEF Coming
<1>9. Kept'
  BY <1>0, <1>8 DEF HistoryInv, Kept
<1> QED
  BY <1>3, <1>4, <1>7, <1>9 DEF HistoryInv

LEMMA TickKeeps == HistoryInv /\ Tick => HistoryInv'
<1> SUFFICES ASSUME HistoryInv, Tick PROVE HistoryInv'
  OBVIOUS
<1> DEFINE s == FreeSlot
<1>0. /\ s \in Slot /\ flight[s].at = "free"
      /\ flight' = [flight EXCEPT ![s] = Sent(watch)]
      /\ UNCHANGED <<row, status, version, shown, active, watch, notice, post, failures, reloads,
                     dropped>>
  BY SlotFree DEF Tick, IsFree, ledgerVars
<1> HIDE DEF s
<1>1. watch \in Release \cup {None}
  BY DEF HistoryInv, TypeOK
<1>2. /\ flight' \in [Slot -> Request] /\ flight'[s] = Sent(watch)
      /\ \A q \in Slot \ {s} : flight'[q] = flight[q]
  BY <1>0, <1>1, Requests DEF HistoryInv, TypeOK
<1>3. TypeOK'
  BY <1>0, <1>2 DEF HistoryInv, TypeOK
<1>4. Known'
  BY <1>0 DEF HistoryInv, Known
<1>5. \A q \in Slot : Awaited(q)' <=> q = s \/ Awaited(q)
  BY <1>1, <1>2, Requests DEF Awaited
<1>6. Answers'
  BY <1>0, <1>1, <1>2, <1>5, Requests DEF HistoryInv, Answers
<1>7. \A r \in Release : Coming(r) => Coming(r)'
  BY <1>0, <1>1, <1>2, <1>5, Requests DEF Coming
<1>8. Kept'
  BY <1>0, <1>7 DEF HistoryInv, Kept
<1> QED
  BY <1>3, <1>4, <1>6, <1>8 DEF HistoryInv

LEMMA ReadRowsKeeps ==
  ASSUME HistoryInv, NEW q \in Slot, ReadRows(q)
  PROVE  HistoryInv'
<1>0. /\ flight[q].at = "sent"
      /\ flight' = [flight EXCEPT ![q].at = "read", ![q].list = status]
      /\ UNCHANGED <<row, status, version, shown, active, watch, notice, post, failures, reloads,
                     dropped>>
  BY DEF ReadRows, ledgerVars
<1>1. flight[q] \in Request /\ status \in [Release -> RowStatus]
  BY DEF HistoryInv, TypeOK
<1>2. /\ flight' \in [Slot -> Request]
      /\ flight'[q].at = "read" /\ flight'[q].list = status
      /\ flight'[q].cancelled = flight[q].cancelled /\ flight'[q].watch = flight[q].watch
      /\ \A p \in Slot \ {q} : flight'[p] = flight[p]
  BY <1>0, <1>1 DEF HistoryInv, TypeOK, Request
<1>3. TypeOK'
  BY <1>0, <1>2 DEF HistoryInv, TypeOK
<1>4. Known'
  BY <1>0 DEF HistoryInv, Known
<1>5. \A p \in Slot : Awaited(p)' <=> Awaited(p)
  BY <1>0, <1>2 DEF Awaited
<1>6. Answers'
  BY <1>0, <1>2, <1>5 DEF HistoryInv, Answers
<1>7. \A r \in Release : Coming(r) => Coming(r)'
  BY <1>0, <1>2, <1>5 DEF Coming
<1>8. Kept'
  BY <1>0, <1>7 DEF HistoryInv, Kept
<1> QED
  BY <1>3, <1>4, <1>6, <1>8 DEF HistoryInv

LEMMA ShowListKeeps ==
  ASSUME HistoryInv, NEW q \in Slot, ShowList(q)
  PROVE  HistoryInv'
<1> DEFINE w == flight[q].watch
           list == flight[q].list
<1>0. /\ flight[q].at = "read" /\ flight' = [flight EXCEPT ![q] = Free]
      /\ \/ flight[q].cancelled /\ UNCHANGED <<shown, active, dropped>>
         \/ /\ ~flight[q].cancelled /\ shown' = list
            /\ \/ EndsWatch(w, list) /\ active' = None
                    /\ dropped' = dropped \cup Unsettled({active} \ {w})
               \/ UNCHANGED <<active, dropped>>
      /\ UNCHANGED <<row, status, version, watch, notice, post, failures, reloads>>
  BY DEF ShowList, ledgerVars
<1>1. flight[q] \in Request /\ list \in [Release -> RowStatus] /\ w \in Release \cup {None}
  BY DEF HistoryInv, TypeOK, Request
<1>2. /\ flight' \in [Slot -> Request] /\ flight'[q] = Free
      /\ \A p \in Slot \ {q} : flight'[p] = flight[p]
  BY <1>0, Requests DEF HistoryInv, TypeOK
<1>3. TypeOK'
  BY <1>0, <1>1, <1>2 DEF HistoryInv, TypeOK, Unsettled
<1>4. Known'
  BY <1>0 DEF HistoryInv, Known
<1>5. \A p \in Slot : Awaited(p)' <=> p # q /\ Awaited(p)
  BY <1>2, Requests DEF Awaited
<1>6. Answers'
  BY <1>0, <1>2, <1>5, Requests DEF HistoryInv, Answers
<1>7. ASSUME NEW r \in Release, Coming(r)
      PROVE  Coming(r)'
  <2>1. CASE flight[q].cancelled
    BY <1>0, <1>2, <1>5, <1>7, <2>1 DEF Coming, Awaited
  <2>2. CASE ~flight[q].cancelled
    BY <1>0, <1>2, <1>5, <1>7, <2>2 DEF Coming, Awaited
  <2> QED
    BY <2>1, <2>2
<1>8. CASE UNCHANGED <<active, dropped>>
  BY <1>0, <1>3, <1>4, <1>6, <1>7, <1>8 DEF HistoryInv, Kept
<1>9. CASE /\ ~flight[q].cancelled /\ EndsWatch(w, list) /\ active' = None
           /\ dropped' = dropped \cup Unsettled({active} \ {w})
  <2>1. w = watch /\ watch # None /\ list[w] = status[w] /\ status[w] \in Settled
    BY <1>0, <1>1, <1>9 DEF HistoryInv, Answers, Awaited, EndsWatch
  <2>2. active' # watch'
    BY <1>0, <1>9, <2>1
  <2>3. ASSUME NEW r \in Release, post[r] = "ok", r \notin dropped'
        PROVE  status[r] \in Settled
    <3>1. CASE active = r
      BY <1>9, <2>1, <2>3, <3>1 DEF Unsettled
    <3>2. CASE active # r
      BY <1>9, <2>3, <3>2 DEF HistoryInv, Kept
    <3> QED
      BY <3>1, <3>2
  <2>4. Kept'
    BY <1>0, <2>2, <2>3 DEF Kept
  <2> QED
    BY <1>3, <1>4, <1>6, <2>4 DEF HistoryInv
<1> QED
  BY <1>0, <1>8, <1>9

LEMMA LoadFailsKeeps ==
  ASSUME HistoryInv, NEW q \in Slot, LoadFails(q)
  PROVE  HistoryInv'
<1>0. /\ flight[q].at = "sent" /\ flight' = [flight EXCEPT ![q] = Free]
      /\ failures < MaxFailures /\ failures' = failures + 1
      /\ notice' = TRUE \/ (flight[q].cancelled /\ notice' = notice)
      /\ UNCHANGED <<row, status, version, shown, active, watch, post, reloads, dropped>>
  BY DEF LoadFails, ledgerVars
<1>1. failures' \in 0..MaxFailures
  BY <1>0, BoundAssumption DEF HistoryInv, TypeOK
<1>2. /\ flight' \in [Slot -> Request] /\ flight'[q] = Free
      /\ \A p \in Slot \ {q} : flight'[p] = flight[p]
  BY <1>0, Requests DEF HistoryInv, TypeOK
<1>3. TypeOK'
  <2>1. notice' \in BOOLEAN
    BY <1>0 DEF HistoryInv, TypeOK
  <2> QED
    BY <1>0, <1>1, <1>2, <2>1 DEF HistoryInv, TypeOK
<1>4. Known'
  BY <1>0 DEF HistoryInv, Known
<1>5. \A p \in Slot : Awaited(p)' <=> p # q /\ Awaited(p)
  BY <1>2, Requests DEF Awaited
<1>6. Answers'
  BY <1>0, <1>2, <1>5, Requests DEF HistoryInv, Answers
<1>7. CASE notice' = TRUE
  <2>1. Kept'
    BY <1>0, <1>7 DEF HistoryInv, Kept
  <2> QED
    BY <1>3, <1>4, <1>6, <2>1 DEF HistoryInv
<1>8. CASE flight[q].cancelled /\ notice' = notice
  <2>1. \A r \in Release : Coming(r) => Coming(r)'
    BY <1>0, <1>2, <1>5, <1>8 DEF Coming, Awaited
  <2>2. Kept'
    BY <1>0, <1>8, <2>1 DEF HistoryInv, Kept
  <2> QED
    BY <1>3, <1>4, <1>6, <2>2 DEF HistoryInv
<1> QED
  BY <1>0, <1>7, <1>8
-----------------------------------------------------------------------------
(* The form, and the server behind it.                                      *)

\* A row that moves on had no result yet.
LEMMA RowMoves ==
  ASSUME HistoryInv, NEW r \in Release, NEW now \in RowStatus,
         status[r] \notin Settled, status' = [status EXCEPT ![r] = now],
         UNCHANGED <<shown, active, watch, flight, notice, dropped>>
  PROVE  /\ status' \in [Release -> RowStatus]
         /\ \A p \in Release : status[p] \in Settled => status'[p] = status[p]
         /\ Answers'
         /\ \A p \in Release : status[p] \in Settled /\ Coming(p) => Coming(p)'
<1>1. /\ status' \in [Release -> RowStatus]
      /\ \A p \in Release : status[p] \in Settled => status'[p] = status[p]
  BY DEF HistoryInv, TypeOK
<1>2. \A q \in Slot : Awaited(q)' <=> Awaited(q)
  BY DEF Awaited
<1>3. Answers'
  BY <1>1, <1>2 DEF HistoryInv, Answers
<1>4. \A p \in Release : status[p] \in Settled /\ Coming(p) => Coming(p)'
  BY <1>1, <1>2 DEF Coming
<1> QED
  BY <1>1, <1>3, <1>4

LEMMA RowsKeep ==
  ASSUME HistoryInv, NEW r \in Release, Submit(r) \/ Serve(r)
  PROVE  HistoryInv'
<1>1. \E now \in RowStatus :
        status[r] \notin Settled /\ status' = [status EXCEPT ![r] = now]
  BY DEF Submit, Serve, Open, Start, Finish, RowStatus, Settled
<1>2. /\ UNCHANGED <<shown, active, watch, flight, notice, failures, reloads, dropped>>
      /\ post' = post \/ (status[r] = "none" /\ post' = [post EXCEPT ![r] = "sent"])
  BY DEF Submit, Serve, Open, pageVars
<1>3. /\ status' \in [Release -> RowStatus]
      /\ \A p \in Release : status[p] \in Settled => status'[p] = status[p]
      /\ Answers'
      /\ \A p \in Release : status[p] \in Settled /\ Coming(p) => Coming(p)'
  BY <1>1, <1>2, RowMoves
<1>4. post' \in [Release -> {"none", "sent", "ok", "lost"}]
  BY <1>2 DEF HistoryInv, TypeOK
<1>5. TypeOK'
  BY <1>2, <1>3, <1>4 DEF HistoryInv, TypeOK
<1>6. Known'
  <2>1. \A p \in Release : status'[p] # status[p] => p = r
    BY <1>1 DEF HistoryInv, TypeOK
  <2>2. status'[r] # "none"
    BY DEF Submit, Serve, Open, Start, Finish, HistoryInv, TypeOK
  <2>3. \A p \in Release : post'[p] # post[p] => p = r /\ status[r] = "none"
    BY <1>2 DEF HistoryInv, TypeOK
  <2>4. active \in Release \cup {None} /\ watch \in Release \cup {None}
    BY DEF HistoryInv, TypeOK
  <2>5. \A p \in Release : post[p] = "ok" => post'[p] = "ok"
    BY <2>3 DEF HistoryInv, Known
  <2> QED
    BY <1>2, <2>1, <2>2, <2>3, <2>4, <2>5 DEF HistoryInv, Known
<1>7. Kept'
  <2>1. \A p \in Release : post'[p] = "ok" => post[p] = "ok"
    BY <1>2 DEF HistoryInv, TypeOK
  <2> QED
    BY <1>2, <1>3, <2>1 DEF HistoryInv, Kept
<1> QED
  BY <1>3, <1>5, <1>6, <1>7 DEF HistoryInv

LEMMA NotStartedKeeps ==
  ASSUME HistoryInv, NEW r \in Release, NotStarted(r)
  PROVE  HistoryInv'
<1>0. /\ post[r] = "sent" /\ post' = [post EXCEPT ![r] = "lost"]
      /\ UNCHANGED <<row, status, version, shown, active, watch, flight, notice, failures,
                     reloads, dropped>>
  BY DEF NotStarted, ledgerVars
<1>1. /\ post' \in [Release -> {"none", "sent", "ok", "lost"}]
      /\ \A p \in Release : /\ post'[p] = "ok" <=> post[p] = "ok"
                            /\ post'[p] = "none" <=> post[p] = "none"
  BY <1>0 DEF HistoryInv, TypeOK
<1>2. TypeOK'
  BY <1>0, <1>1 DEF HistoryInv, TypeOK
<1>3. Known'
  BY <1>0, <1>1 DEF HistoryInv, TypeOK, Known
<1>4. Answers'
  BY <1>0 DEF HistoryInv, Answers, Awaited
<1>5. Kept'
  BY <1>0, <1>1 DEF HistoryInv, Kept, Coming, Awaited
<1> QED
  BY <1>2, <1>3, <1>4, <1>5 DEF HistoryInv

\* A release takes the place of the one that was watched: the effect is due, and the
\* other one has its result or is dropped.
LEMMA StartedKeeps ==
  ASSUME HistoryInv, NEW r \in Release, Started(r)
  PROVE  HistoryInv'
<1>0. /\ post[r] = "sent" /\ post' = [post EXCEPT ![r] = "ok"] /\ active' = r
      /\ status[r] \in {"in_progress"} \cup Settled
      /\ dropped' = dropped \cup Unsettled({active} \ {r})
      /\ UNCHANGED <<row, status, version, shown, watch, flight, notice, failures, reloads>>
  BY DEF Started, ledgerVars, IdOfAnswer
<1>1. /\ post' \in [Release -> {"none", "sent", "ok", "lost"}]
      /\ post'[r] = "ok" /\ \A p \in Release \ {r} : post'[p] = post[p]
  BY <1>0 DEF HistoryInv, TypeOK
<1>2. TypeOK'
  BY <1>0, <1>1 DEF HistoryInv, TypeOK, Unsettled
<1>3. watch \in Release \cup {None} /\ watch # r
  BY <1>0, NoneAssumption DEF HistoryInv, TypeOK, Known
<1>4. Known'
  BY <1>0, <1>1, <1>3 DEF HistoryInv, Known
<1>5. Answers'
  BY <1>0 DEF HistoryInv, Answers, Awaited
<1>6. ASSUME NEW p \in Release \ {r}, post[p] = "ok", p \notin dropped'
      PROVE  status[p] \in Settled
  <2>1. CASE active = p
    BY <1>0, <1>6, <2>1 DEF Unsettled
  <2>2. CASE active # p
    BY <1>0, <1>6, <2>2 DEF HistoryInv, Kept
  <2> QED
    BY <2>1, <2>2
<1>7. Kept'
  BY <1>0, <1>1, <1>3, <1>6 DEF Kept
<1> QED
  BY <1>2, <1>4, <1>5, <1>7 DEF HistoryInv

LEMMA ReloadKeeps == HistoryInv /\ Reload => HistoryInv'
<1> SUFFICES ASSUME HistoryInv, Reload PROVE HistoryInv'
  OBVIOUS
<1>0. /\ reloads < MaxReloads /\ reloads' = reloads + 1
      /\ shown' = NothingShown /\ active' = None /\ watch' = None /\ flight' = FreshFlight
      /\ notice' = FALSE
      /\ post' = [r \in Release |-> IF post[r] = "sent" THEN "lost" ELSE post[r]]
      /\ dropped' = dropped \cup Unsettled({r \in Release : post[r] = "ok"})
      /\ UNCHANGED <<row, status, version, failures>>
  BY DEF Reload, ledgerVars
<1>1. reloads' \in 0..MaxReloads
  BY <1>0, BoundAssumption DEF HistoryInv, TypeOK
<1>2. /\ post' \in [Release -> {"none", "sent", "ok", "lost"}]
      /\ \A p \in Release : /\ post'[p] = "ok" => post[p] = "ok"
                            /\ post'[p] # "none" => post[p] # "none"
  BY <1>0 DEF HistoryInv, TypeOK
<1>3. TypeOK'
  BY <1>0, <1>1, <1>2, Blank, Fresh DEF HistoryInv, TypeOK, Unsettled
<1>4. Known'
  BY <1>0, <1>2 DEF HistoryInv, Known
<1>5. /\ \A q \in Slot : flight'[q].at # "read" /\ (Awaited(q)' => flight'[q].watch = None)
      /\ \E q \in Slot : Awaited(q)'
  BY <1>0, Fresh, Requests DEF Awaited
<1>6. Answers'
  BY <1>0, <1>5 DEF Answers
<1>7. \A r \in Release : Coming(r)'
  BY <1>5 DEF Coming
<1>8. \A r \in Release : post'[r] = "ok" /\ r \notin dropped' => status[r] \in Settled
  BY <1>0, <1>2 DEF Unsettled
<1>9. Kept'
  BY <1>0, <1>7, <1>8 DEF Kept
<1> QED
  BY <1>3, <1>4, <1>6, <1>9 DEF HistoryInv
-----------------------------------------------------------------------------
LEMMA NextKeepsHistory == HistoryInv /\ [Next]_vars => HistoryInv'
<1> SUFFICES ASSUME HistoryInv, [Next]_vars PROVE HistoryInv'
  OBVIOUS
<1>1. CASE UNCHANGED vars
  BY <1>1 DEF HistoryInv, TypeOK, Known, Answers, Kept, Coming, Awaited, vars, ledgerVars,
              pageVars
<1>2. CASE Next
  BY <1>2, RunEffectKeeps, TickKeeps, ReloadKeeps, ReadRowsKeeps, ShowListKeeps,
     LoadFailsKeeps, RowsKeep, StartedKeeps, NotStartedKeeps
     DEF Next
<1> QED
  BY <1>1, <1>2

LEMMA HistoryInvariant == Spec => []HistoryInv
  BY InitHistory, NextKeepsHistory, PTL DEF Spec

\* Every variable of the page keeps its type.
THEOREM HistoryTypeCorrect == Spec => []TypeOK
<1>1. HistoryInv => TypeOK
  BY DEF HistoryInv
<1> QED
  BY <1>1, HistoryInvariant, PTL

\* A page that loads nothing any more and does not say that it could not shows the
\* result of every release started on it and not dropped (ServicePage.jsx 486-509).
THEOREM QuietIsRight == Spec => []QuietPageIsRight
<1>1. HistoryInv => QuietPageIsRight
  <2> SUFFICES ASSUME HistoryInv, Quiet, ~notice, NEW r \in Release, post[r] = "ok",
                      r \notin dropped
               PROVE  status[r] \in Settled /\ shown[r] = status[r]
    BY DEF QuietPageIsRight
  <2>1. status[r] \in Settled /\ Coming(r)
    BY NoneAssumption DEF HistoryInv, Kept, Quiet
  <2> QED
    BY <2>1 DEF Quiet, IsFree, Coming, Awaited
<1> QED
  BY <1>1, HistoryInvariant, PTL

\* An unfinished release started on the page is the active one, or was dropped.
THEOREM UnfinishedStaysActive == Spec => []UnfinishedIsActive
<1>1. HistoryInv => UnfinishedIsActive
  BY DEF HistoryInv, Kept, UnfinishedIsActive
<1> QED
  BY <1>1, HistoryInvariant, PTL
-----------------------------------------------------------------------------
(***************************************************************************)
(* The contracts. The tree of a type is defined by recursion. It is the    *)
(* set of its ways: the ways satisfy the equation of the recursion, and    *)
(* because every level enters one message more and the file declares       *)
(* finitely many, nothing else does.                                       *)
(***************************************************************************)

\* What developers write is a file: a service and messages, finitely many.
FileInv ==
  /\ service \in Seq(Rpc) \cup {Missing}
  /\ declared \subseteq Message /\ IsFiniteSet(declared)
  /\ fields \in [Message -> Seq(Field)]

\* The ways from type m down through types that are not in `visited', none of
\* them twice, but for the last field, whose type may be anyone's.
Ways(m, visited) ==
  {path \in Seq(FoundNodes) :
     /\ path # <<>>
     /\ path[1].message = m
     /\ \A k \in 1 .. Len(path) - 1 : path[k + 1].message = TypeOf(path[k])
     /\ \A k \in 1 .. Len(path) - 1 : path[k].message \notin visited
     /\ \A j, k \in 1 .. Len(path) - 1 : path[j].message = path[k].message => j = k}

\* A way is a field, and below its type a way that has entered one type more.
GoesOn(path, m, visited) ==
  \E i \in SeenFields[m] :
    \/ path = <<Node(m, i)>>
    \/ /\ m \notin visited
       /\ \E q \in Ways(fields[m][i].type, visited \cup {m}) :
            path = <<Node(m, i)>> \o q

\* One unfolding of expandParameters, and what it means to be closed under it.
Unfold(f, visited, m) ==
  IF m \notin declared THEN {}
  ELSE UNION { {<<Node(m, i)>>} \cup
               IF m \in visited THEN {}
               ELSE { <<Node(m, i)>> \o path :
                        path \in f[Visited(visited, m, i)][fields[m][i].type] } :
               i \in SeenFields[m] }

Unfolds(f) == f = [visited \in SUBSET Type |-> [m \in Type |-> Unfold(f, visited, m)]]
-----------------------------------------------------------------------------
(* The file.                                                                *)

LEMMA InitFile == FileInit => FileInv
<1> SUFFICES ASSUME FileInit PROVE FileInv
  OBVIOUS
<1>1. IsFiniteSet(declared)
  BY FS_EmptySet DEF FileInit
<1>2. fields \in [Message -> Seq(Field)]
  <2>1. <<>> \in Seq(Field)
    OBVIOUS
  <2> QED
    BY <2>1 DEF FileInit
<1> QED
  BY <1>1, <1>2 DEF FileInit, FileInv

LEMMA NextKeepsFile == FileInv /\ [FileNext]_fileVars => FileInv'
<1> SUFFICES ASSUME FileInv, [FileNext]_fileVars PROVE FileInv'
  OBVIOUS
<1> USE DEF FileInv
<1>1. CASE UNCHANGED fileVars
  BY <1>1 DEF fileVars
<1>2. CASE AddFile
  <2>1. <<>> \in Seq(Rpc)
    OBVIOUS
  <2> QED
    BY <1>2, <2>1 DEF AddFile
<1>3. ASSUME NEW rpc \in RpcText, AddRpc(rpc)
      PROVE  FileInv'
  <2>1. Append(service, rpc) \in Seq(Rpc)
    BY <1>3, TextAssumption DEF AddRpc
  <2> QED
    BY <1>3, <2>1 DEF AddRpc
<1>4. ASSUME NEW m \in Message, AddMessage(m)
      PROVE  FileInv'
  <2>1. IsFiniteSet(declared \cup {m})
    BY FS_AddElement
  <2> QED
    BY <1>4, <2>1 DEF AddMessage
<1>5. ASSUME NEW m \in Message, NEW field \in FieldText, AddField(m, field)
      PROVE  FileInv'
  <2>1. Append(fields[m], field) \in Seq(Field)
    BY TextAssumption
  <2> QED
    BY <1>5, <2>1 DEF AddField
<1> QED
  BY <1>1, <1>2, <1>3, <1>4, <1>5 DEF FileNext

LEMMA FileInvariant == FileSpec => []FileInv
  BY InitFile, NextKeepsFile, PTL DEF FileSpec
-----------------------------------------------------------------------------
(* The bodies as they are found.                                            *)

LEMMA SmallestIs ==
  ASSUME NEW T \in SUBSET Nat, T # {}
  PROVE  Min(T) \in T /\ \A n \in T : Min(T) <= n
<1>1. PICK x \in T : \A y \in T : <<y, x>> \notin OpToRel(<, Nat)
  BY WFMin, NatLessThanWellFounded
<1>2. \A y \in T : ~(y < x)
  BY <1>1 DEF OpToRel
<1>3. \A y \in T : x <= y
  BY <1>2
<1> QED
  BY <1>3 DEF Min

LEMMA ItemsFound ==
  ASSUME NEW S, NEW items \in Seq(S)
  PROVE  /\ Found(items) \subseteq DOMAIN items
         /\ \A i \in Found(items) : items[i].form \in {"plain", "stray"}
         /\ Plain(items) => Found(items) = DOMAIN items
<1>1. Found(items) \subseteq DOMAIN items
        /\ \A i \in Found(items) : items[i].form \in {"plain", "stray"}
  BY DEF Found
<1>2. ASSUME Plain(items), NEW i \in DOMAIN items
      PROVE  i \in Found(items)
  <2>1. \A j \in DOMAIN items : items[j].form = "plain"
    BY <1>2 DEF Plain
  <2>2. \A j \in DOMAIN items : items[j] # Brace
    BY <2>1 DEF Brace
  <2>3. \A j \in 1 .. i - 1 : j \in DOMAIN items
    BY <1>2
  <2> QED
    BY <1>2, <2>1, <2>2, <2>3 DEF Found
<1> QED
  BY <1>1, <1>2

LEMMA FieldsFound ==
  ASSUME FileInv, NEW m \in declared
  PROVE  /\ SeenFields[m] \subseteq DOMAIN fields[m]
         /\ \A i \in SeenFields[m] : fields[m][i].type \in Type
         /\ FileIsPlain => SeenFields[m] = {i \in DOMAIN fields[m] : IsField(fields[m][i])}
<1>1. fields[m] \in Seq(Field) /\ SeenFields[m] = Found(fields[m])
  BY DEF FileInv, SeenFields
<1>2. /\ SeenFields[m] \subseteq DOMAIN fields[m]
      /\ \A i \in SeenFields[m] : fields[m][i].form \in {"plain", "stray"}
      /\ Plain(fields[m]) => SeenFields[m] = DOMAIN fields[m]
  BY <1>1, ItemsFound
<1>3. ASSUME NEW i \in SeenFields[m]
      PROVE  fields[m][i].type \in Type
  <2>1. fields[m][i] \in Field /\ fields[m][i].form \in {"plain", "stray"}
    BY <1>1, <1>2
  <2>2. fields[m][i] # Brace
    BY <2>1 DEF Brace
  <2> QED
    BY <2>1, <2>2 DEF Field
<1>4. FileIsPlain =>
        Plain(fields[m]) /\ \A i \in DOMAIN fields[m] : IsField(fields[m][i])
  BY DEF FileIsPlain, Plain, IsField
<1> QED
  BY <1>2, <1>3, <1>4
-----------------------------------------------------------------------------
(* Ways into the types.                                                     *)

LEMMA OneBefore ==
  ASSUME NEW S, NEW x \in S, NEW q \in Seq(S)
  PROVE  /\ <<x>> \o q \in Seq(S) /\ Len(<<x>> \o q) = Len(q) + 1
         /\ (<<x>> \o q)[1] = x
         /\ \A k \in 1..Len(q) : (<<x>> \o q)[k + 1] = q[k]
  OBVIOUS

LEMMA FirstAndRest ==
  ASSUME NEW S, NEW p \in Seq(S), p # <<>>
  PROVE  /\ p[1] \in S /\ Tail(p) \in Seq(S) /\ Len(Tail(p)) = Len(p) - 1
         /\ \A k \in 1..Len(p) - 1 : Tail(p)[k] = p[k + 1]
         /\ p = <<p[1]>> \o Tail(p)
<1>1. /\ p[1] \in S /\ Tail(p) \in Seq(S) /\ Len(Tail(p)) = Len(p) - 1
      /\ \A k \in 1..Len(p) - 1 : Tail(p)[k] = p[k + 1]
  OBVIOUS
<1>2. <<p[1]>> \o Tail(p) \in Seq(S) /\ Len(<<p[1]>> \o Tail(p)) = Len(p)
  BY <1>1, OneBefore
<1>3. \A k \in 1..Len(p) : (<<p[1]>> \o Tail(p))[k] = p[k]
  BY <1>1
<1>4. p = <<p[1]>> \o Tail(p)
  BY <1>2, <1>3, SeqEqual
<1> QED
  BY <1>1, <1>4

LEMMA FoundNodesAre ==
  ASSUME NEW m \in declared, NEW i \in SeenFields[m]
  PROVE  Node(m, i) \in FoundNodes /\ Node(m, i).message = m
           /\ TypeOf(Node(m, i)) = fields[m][i].type
  BY DEF FoundNodes, Node, TypeOf

LEMMA WayOfOne ==
  ASSUME NEW m \in declared, NEW i \in SeenFields[m], NEW v
  PROVE  <<Node(m, i)>> \in Ways(m, v)
<1>1. <<Node(m, i)>> \in Seq(FoundNodes) /\ Len(<<Node(m, i)>>) = 1
  BY FoundNodesAre
<1>2. <<Node(m, i)>>[1].message = m /\ <<Node(m, i)>> # <<>>
  BY FoundNodesAre
<1> QED
  BY <1>1, <1>2 DEF Ways

LEMMA WayOfMore ==
  ASSUME NEW m \in declared, NEW i \in SeenFields[m], NEW v, m \notin v,
         NEW q \in Ways(fields[m][i].type, v \cup {m})
  PROVE  <<Node(m, i)>> \o q \in Ways(m, v)
<1> DEFINE path == <<Node(m, i)>> \o q
<1>1. /\ q \in Seq(FoundNodes) /\ q # <<>> /\ Len(q) \in Nat
      /\ q[1].message = TypeOf(Node(m, i))
      /\ \A k \in 1 .. Len(q) - 1 : q[k + 1].message = TypeOf(q[k])
      /\ \A k \in 1 .. Len(q) - 1 : q[k].message \notin v \cup {m}
      /\ \A j, k \in 1 .. Len(q) - 1 : q[j].message = q[k].message => j = k
  BY FoundNodesAre DEF Ways
<1>2. /\ path \in Seq(FoundNodes) /\ Len(path) = Len(q) + 1 /\ path[1] = Node(m, i)
      /\ \A k \in 1..Len(q) : path[k + 1] = q[k]
  BY <1>1, FoundNodesAre, OneBefore
<1> HIDE DEF path
<1>3. path # <<>> /\ path[1].message = m
  BY <1>1, <1>2, FoundNodesAre
<1>4. \A k \in 2..Len(path) : k - 1 \in 1..Len(q) /\ path[k] = q[k - 1]
  BY <1>1, <1>2
<1>5. ASSUME NEW k \in 1 .. Len(path) - 1
      PROVE  path[k + 1].message = TypeOf(path[k]) /\ path[k].message \notin v
  <2>1. CASE k = 1
    BY <1>1, <1>2, <1>3, <2>1
  <2>2. CASE k # 1
    <3>1. k - 1 \in 1 .. Len(q) - 1 /\ path[k] = q[k - 1] /\ path[k + 1] = q[(k - 1) + 1]
      BY <1>1, <1>2, <1>4, <2>2
    <3> QED
      BY <1>1, <3>1
  <2> QED
    BY <2>1, <2>2
<1>6. ASSUME NEW j \in 1 .. Len(path) - 1, NEW k \in 1 .. Len(path) - 1,
             path[j].message = path[k].message
      PROVE  j = k
  <2>1. \A l \in 1 .. Len(path) - 1 :
          l # 1 => /\ l - 1 \in 1 .. Len(q) - 1 /\ path[l] = q[l - 1]
                   /\ path[l].message # m
    BY <1>1, <1>2, <1>4
  <2>2. CASE j = 1 \/ k = 1
    BY <1>3, <1>6, <2>1, <2>2
  <2>3. CASE j # 1 /\ k # 1
    <3>1. j - 1 = k - 1
      BY <1>1, <1>6, <2>1, <2>3
    <3> QED
      BY <3>1
  <2> QED
    BY <2>2, <2>3
<1>7. path \in Ways(m, v)
  BY <1>2, <1>3, <1>5, <1>6 DEF Ways
<1> QED
  BY <1>7 DEF path

LEMMA WayIs ==
  ASSUME NEW m, NEW v, NEW path \in Ways(m, v)
  PROVE  m \in declared /\ GoesOn(path, m, v)
<1>1. /\ path \in Seq(FoundNodes) /\ path # <<>> /\ Len(path) \in Nat /\ Len(path) # 0
      /\ path[1].message = m
      /\ \A k \in 1 .. Len(path) - 1 : path[k + 1].message = TypeOf(path[k])
      /\ \A k \in 1 .. Len(path) - 1 : path[k].message \notin v
      /\ \A j, k \in 1 .. Len(path) - 1 : path[j].message = path[k].message => j = k
  BY DEF Ways
<1> DEFINE q == Tail(path)
<1>2. /\ path[1] \in FoundNodes /\ q \in Seq(FoundNodes) /\ Len(q) = Len(path) - 1
      /\ \A k \in 1 .. Len(path) - 1 : q[k] = path[k + 1]
      /\ path = <<path[1]>> \o q
  BY <1>1, FirstAndRest
<1> HIDE DEF q
<1>3. PICK i \in SeenFields[m] : m \in declared /\ path[1] = Node(m, i)
  <2>1. PICK n \in declared : \E i \in SeenFields[n] : path[1] = Node(n, i)
    BY <1>2 DEF FoundNodes
  <2>2. n = m
    BY <1>1, <2>1 DEF Node
  <2> QED
    BY <2>1, <2>2
<1>4. CASE Len(path) = 1
  <2>1. path = <<path[1]>>
    BY <1>1, <1>4
  <2> QED
    BY <1>3, <2>1 DEF GoesOn
<1>5. CASE Len(path) # 1
  <2>1. 1 \in 1 .. Len(path) - 1 /\ Len(q) \in Nat /\ q # <<>>
    BY <1>1, <1>2, <1>5
  <2>2. m \notin v /\ q[1].message = fields[m][i].type
    BY <1>1, <1>2, <1>3, <2>1, FoundNodesAre
  <2>3. ASSUME NEW k \in 1 .. Len(q) - 1
        PROVE  /\ k + 1 \in 1 .. Len(path) - 1 /\ q[k] = path[k + 1]
               /\ q[k + 1] = path[(k + 1) + 1]
    BY <1>1, <1>2, <2>1
  <2>4. ASSUME NEW k \in 1 .. Len(q) - 1
        PROVE  q[k + 1].message = TypeOf(q[k]) /\ q[k].message \notin v \cup {m}
    <3>1. k + 1 \in 1 .. Len(path) - 1 /\ k + 1 # 1
      <4>1. k \in Nat /\ k # 0 /\ Len(path) \in Nat
        BY <1>1, <2>1
      <4>2. k + 1 \in 1 .. Len(path) - 1
        BY <2>3
      <4>3. k + 1 # 1
        BY <4>1
      <4> QED
        BY <4>2, <4>3
    <3>2. path[k + 1].message # m
      BY <1>1, <2>1, <3>1
    <3> QED
      BY <1>1, <2>3, <3>1, <3>2
  <2>5. ASSUME NEW j \in 1 .. Len(q) - 1, NEW k \in 1 .. Len(q) - 1,
               q[j].message = q[k].message
        PROVE  j = k
    <3>1. j + 1 = k + 1
      BY <1>1, <2>3, <2>5
    <3> QED
      BY <3>1
  <2>6. q \in Ways(fields[m][i].type, v \cup {m})
    BY <1>2, <2>1, <2>2, <2>4, <2>5 DEF Ways
  <2> QED
    BY <1>2, <1>3, <2>2, <2>6 DEF GoesOn
<1> QED
  BY <1>3, <1>4, <1>5
-----------------------------------------------------------------------------
(* The equation of expandParameters has one solution, the ways.             *)

AllWays == [visited \in SUBSET Type |-> [m \in Type |-> Ways(m, visited)]]

LEMMA WaysUnfold == FileInv => Unfolds(AllWays)
<1> SUFFICES ASSUME FileInv PROVE Unfolds(AllWays)
  OBVIOUS
<1>1. ASSUME NEW v \in SUBSET Type, NEW m \in Type
      PROVE  Ways(m, v) = Unfold(AllWays, v, m)
  <2>1. CASE m \notin declared
    BY <2>1, WayIs DEF Unfold
  <2>2. CASE m \in declared
    <3>1. ASSUME NEW i \in SeenFields[m]
          PROVE  AllWays[Visited(v, m, i)][fields[m][i].type]
                   = Ways(fields[m][i].type, v \cup {m})
      <4>1. fields[m][i].type \in Type /\ v \cup {m} \in SUBSET Type
        BY <2>2, FieldsFound
      <4> QED
        BY <4>1 DEF AllWays, Visited
    <3>2. Unfold(AllWays, v, m) =
            UNION { {<<Node(m, i)>>} \cup
                    IF m \in v THEN {}
                    ELSE { <<Node(m, i)>> \o path :
                             path \in AllWays[Visited(v, m, i)][fields[m][i].type] } :
                    i \in SeenFields[m] }
      BY <2>2 DEF Unfold
    <3>3. ASSUME NEW path \in Ways(m, v)
          PROVE  path \in Unfold(AllWays, v, m)
      <4>1. PICK i \in SeenFields[m] :
              \/ path = <<Node(m, i)>>
              \/ /\ m \notin v
                 /\ \E q \in Ways(fields[m][i].type, v \cup {m}) :
                      path = <<Node(m, i)>> \o q
        <5>1. GoesOn(path, m, v)
          BY WayIs
        <5> QED
          BY <5>1 DEF GoesOn
      <4>2. path \in {<<Node(m, i)>>} \cup
                     IF m \in v THEN {}
                     ELSE { <<Node(m, i)>> \o q :
                              q \in AllWays[Visited(v, m, i)][fields[m][i].type] }
        BY <3>1, <4>1
      <4> QED
        BY <3>2, <4>2
    <3>4. ASSUME NEW path \in Unfold(AllWays, v, m)
          PROVE  path \in Ways(m, v)
      <4>1. PICK i \in SeenFields[m] :
              \/ path = <<Node(m, i)>>
              \/ /\ m \notin v
                 /\ \E q \in AllWays[Visited(v, m, i)][fields[m][i].type] :
                      path = <<Node(m, i)>> \o q
        BY <3>2
      <4>2. CASE path = <<Node(m, i)>>
        BY <2>2, <4>2, WayOfOne
      <4>3. ASSUME m \notin v, NEW q \in AllWays[Visited(v, m, i)][fields[m][i].type],
                   path = <<Node(m, i)>> \o q
            PROVE  path \in Ways(m, v)
        <5>1. q \in Ways(fields[m][i].type, v \cup {m})
          BY <3>1, <4>3
        <5> QED
          BY <2>2, <4>3, <5>1, WayOfMore
      <4> QED
        BY <4>1, <4>2, <4>3
    <3> QED
      BY <3>3, <3>4
  <2> QED
    BY <2>1, <2>2
<1> QED
  BY <1>1 DEF Unfolds, AllWays

\* Every level of the unfolding leaves fewer messages to enter.
LEMMA LessIsLeft ==
  ASSUME FileInv, NEW v \in SUBSET Type
  PROVE  /\ Cardinality(declared \ v) \in Nat
         /\ \A m \in declared \ v :
              Cardinality(declared \ (v \cup {m})) < Cardinality(declared \ v)
<1>1. IsFiniteSet(declared \ v)
  BY FS_Difference DEF FileInv
<1>2. Cardinality(declared \ v) \in Nat
  BY <1>1, FS_CardinalityType
<1>3. ASSUME NEW m \in declared \ v
      PROVE  Cardinality(declared \ (v \cup {m})) < Cardinality(declared \ v)
  <2>1. declared \ (v \cup {m}) = (declared \ v) \ {m}
    OBVIOUS
  <2>2. Cardinality((declared \ v) \ {m}) = Cardinality(declared \ v) - 1
    BY <1>1, FS_RemoveElement
  <2> QED
    BY <1>2, <2>1, <2>2
<1> QED
  BY <1>2, <1>3

LEMMA OneSolution ==
  ASSUME FileInv, NEW f, NEW g, Unfolds(f), Unfolds(g)
  PROVE  f = g
<1> DEFINE Left(v) == Cardinality(declared \ v)
           differ == {n \in Nat : \E v \in SUBSET Type : \E m \in Type :
                                    n = Left(v) /\ f[v][m] # g[v][m]}
<1>1. \A v \in SUBSET Type : \A m \in Type :
        f[v][m] = Unfold(f, v, m) /\ g[v][m] = Unfold(g, v, m)
  BY DEF Unfolds
<1>2. ASSUME differ # {} PROVE FALSE
  <2>1. Min(differ) \in differ /\ \A n \in differ : Min(differ) <= n
    BY <1>2, SmallestIs
  <2>2. PICK v \in SUBSET Type, m \in Type : Min(differ) = Left(v) /\ f[v][m] # g[v][m]
    BY <2>1
  <2>3. m \in declared /\ m \notin v
    <3>1. Unfold(f, v, m) # Unfold(g, v, m)
      BY <1>1, <2>2
    <3> HIDE DEF differ, Left
    <3>2. CASE m \notin declared
      BY <3>1, <3>2 DEF Unfold
    <3>3. CASE m \in v
      BY <3>1, <3>3 DEF Unfold
    <3> QED
      BY <3>2, <3>3
  <2>4. /\ Left(v) \in Nat /\ Left(v \cup {m}) \in Nat /\ Left(v \cup {m}) < Left(v)
        /\ v \cup {m} \in SUBSET Type
    BY <2>3, LessIsLeft
  <2>5. Left(v \cup {m}) \notin differ
    <3> HIDE DEF differ
    <3> QED
      BY <2>1, <2>2, <2>4
  <2>6. \A t \in Type : f[v \cup {m}][t] = g[v \cup {m}][t]
    BY <2>4, <2>5
  <2>7. \A i \in SeenFields[m] :
          f[Visited(v, m, i)][fields[m][i].type]
            = g[Visited(v, m, i)][fields[m][i].type]
    <3>1. \A i \in SeenFields[m] : fields[m][i].type \in Type
      BY <2>3, FieldsFound
    <3> HIDE DEF differ
    <3> QED
      BY <2>6, <3>1 DEF Visited
  <2>8. Unfold(f, v, m) = Unfold(g, v, m)
    <3> DEFINE Below(h, i) == {<<Node(m, i)>>} \cup
                              { <<Node(m, i)>> \o path :
                                  path \in h[Visited(v, m, i)][fields[m][i].type] }
    <3>1. /\ Unfold(f, v, m) = UNION {Below(f, i) : i \in SeenFields[m]}
          /\ Unfold(g, v, m) = UNION {Below(g, i) : i \in SeenFields[m]}
      BY <2>3 DEF Unfold
    <3>2. \A i \in SeenFields[m] : Below(f, i) = Below(g, i)
      BY <2>7
    <3> HIDE DEF Below
    <3> QED
      BY <3>1, <3>2
  <2> QED
    BY <1>1, <2>2, <2>8
<1>3. \A v \in SUBSET Type : \A m \in Type : f[v][m] = g[v][m]
  BY <1>2, LessIsLeft
<1>4. \A v \in SUBSET Type : \A m \in Type : Unfold(f, v, m) = Unfold(g, v, m)
  BY <1>1, <1>3
<1> QED
  BY <1>4 DEF Unfolds

LEMMA BuildIsWays ==
  ASSUME FileInv, NEW m \in Type
  PROVE  BuildMessageSpec(m) = Ways(m, {})
<1>1. Expand = CHOOSE f : Unfolds(f)
  BY DEF Expand, Unfolds, Unfold, Type
<1>2. Unfolds(AllWays)
  BY WaysUnfold
<1>3. Unfolds(Expand)
  BY <1>1, <1>2
<1>4. Expand = AllWays
  BY <1>2, <1>3, OneSolution
<1> QED
  BY <1>4 DEF BuildMessageSpec, AllWays, Type
-----------------------------------------------------------------------------
(* The ways and what a reader lists.                                        *)

LEMMA PlainNodes == FileInv /\ FileIsPlain => FoundNodes = FileNodes
  BY FieldsFound DEF FoundNodes, FileNodes

LEMMA WaysAreShort ==
  ASSUME FileInv, NEW m, NEW path \in Ways(m, {})
  PROVE  Len(path) <= Cardinality(declared) + 1
<1> DEFINE n == Len(path) - 1
           name == [k \in 1..n |-> path[k].message]
<1>1. /\ path \in Seq(FoundNodes) /\ n \in Nat /\ n = Len(path) - 1
      /\ \A j, k \in 1..n : path[j].message = path[k].message => j = k
  BY DEF Ways
<1>2. \A k \in 1..n : path[k].message \in declared
  <2>1. \A k \in 1..n : path[k] \in FoundNodes
    BY <1>1
  <2> QED
    BY <2>1 DEF FoundNodes, Node
<1> HIDE DEF n
<1>3. name \in Injection(1..n, declared)
  BY <1>1, <1>2 DEF Injection, IsInjective
<1>4. IsFiniteSet(1..n) /\ Cardinality(1..n) = n /\ IsFiniteSet(declared)
  <2>1. IsFiniteSet(1..n) /\ Cardinality(1..n) = IF 1 > n THEN 0 ELSE n - 1 + 1
    <3>1. n \in Int /\ 1 \in Int
      BY <1>1
    <3> QED
      BY <3>1, FS_Interval, Zenon
  <2> QED
    BY <1>1, <2>1 DEF FileInv
<1>5. Cardinality(1..n) <= Cardinality(declared)
  BY <1>3, <1>4, FS_Injection
<1> QED
  BY <1>1, <1>4, <1>5, FS_CardinalityType

LEMMA WaysAreListed ==
  ASSUME FileInv, NEW m \in Type
  PROVE  Ways(m, {}) = Paths(FoundNodes, m)
<1> DEFINE most == Cardinality(declared) + 1
<1>1. most \in Nat
  BY FS_CardinalityType DEF FileInv
<1>2. ASSUME NEW path \in Ways(m, {})
      PROVE  path \in Paths(FoundNodes, m)
  <2>1. /\ path \in Seq(FoundNodes) /\ Len(path) \in 0..most
        /\ \A k \in 1 .. Len(path) : path[k] \in FoundNodes
    BY <1>1, WaysAreShort DEF Ways
  <2>2. path \in [1 .. Len(path) -> FoundNodes]
    BY <2>1
  <2> HIDE DEF most
  <2>3. path \in SeqOf(FoundNodes, most)
    BY <2>1, <2>2 DEF SeqOf
  <2> QED
    BY <2>3 DEF Ways, Paths, most
<1>3. ASSUME NEW path \in Paths(FoundNodes, m)
      PROVE  path \in Ways(m, {})
  <2>1. path \in SeqOf(FoundNodes, most)
    BY DEF Paths
  <2> HIDE DEF most
  <2>2. path \in Seq(FoundNodes)
    BY <1>1, <2>1 DEF SeqOf
  <2> QED
    BY <2>2 DEF Ways, Paths
<1> QED
  BY <1>2, <1>3

\* An answer unfolds, below every method, each field that the regular expressions
\* found, each type until it comes again, whatever messages there are and however
\* they contain one another (parser.go 75-112). For a file of plain rpcs and fields
\* without inner braces that is every method and every field of the file.
THEOREM TreeIsRight == FileSpec => []TreeShowsFields
<1>1. FileInv => TreeShowsFields
  <2> SUFFICES ASSUME FileInv, Answer.code = 200 PROVE
        /\ \A k \in DOMAIN Answer.methods :
             LET rpc == service[k]
                 method == Answer.methods[k]
             IN  /\ method.input = Paths(FoundNodes, rpc.input)
                 /\ method.output = Paths(FoundNodes, rpc.output)
                 /\ FileIsPlain => /\ method.input = Paths(FileNodes, rpc.input)
                                   /\ method.output = Paths(FileNodes, rpc.output)
        /\ FileIsPlain => DOMAIN Answer.methods = DOMAIN service
    BY DEF TreeShowsFields
  <2>1. service \in Seq(Rpc) /\ Answer.methods = ParseProjectProto
    BY DEF Answer, ProtoFound, FileInv
  <2>2. /\ Found(service) \subseteq DOMAIN service
        /\ \A k \in Found(service) : service[k].form \in {"plain", "stray"}
        /\ Plain(service) => Found(service) = DOMAIN service
    BY <2>1, ItemsFound
  <2>3. DOMAIN Answer.methods = Found(service)
    BY <2>1 DEF ParseProjectProto
  <2>4. ASSUME NEW k \in DOMAIN Answer.methods
        PROVE  /\ Answer.methods[k].input = Paths(FoundNodes, service[k].input)
               /\ Answer.methods[k].output = Paths(FoundNodes, service[k].output)
    <3>1. service[k] \in Rpc /\ k \in Found(service) /\ service[k] # Brace
      BY <2>1, <2>2, <2>3 DEF Brace
    <3>2. service[k].input \in Type /\ service[k].output \in Type
      BY <3>1 DEF Rpc
    <3>3. /\ Answer.methods[k].input = BuildMessageSpec(service[k].input)
          /\ Answer.methods[k].output = BuildMessageSpec(service[k].output)
      BY <2>1, <3>1 DEF ParseProjectProto
    <3> QED
      BY <3>2, <3>3, BuildIsWays, WaysAreListed
  <2>5. FileIsPlain => DOMAIN Answer.methods = DOMAIN service /\ FoundNodes = FileNodes
    BY <2>2, <2>3, PlainNodes DEF FileIsPlain
  <2> QED
    BY <2>4, <2>5
<1> QED
  BY <1>1, FileInvariant, PTL
=============================================================================
