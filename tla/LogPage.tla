------------------------------- MODULE LogPage -------------------------------
(***************************************************************************)
(* The log tab of the service page (ServicePage.jsx) and what it asks of   *)
(* the server: two effects that run together whenever the tab is opened or *)
(* a filter changes, one that loads the stored entries and one that opens  *)
(* a WebSocket. The list that was asked for, the entries that are          *)
(* broadcast and the changes of the filter meet in any order.              *)
(*                                                                         *)
(* The server's side of the stream is cut down to what the page can see of *)
(* it (LogStream has the rest): an entry is stored, then broadcast once,   *)
(* to the connections that have joined by then and have room for it.       *)
(***************************************************************************)
EXTENDS Naturals, FiniteSets

CONSTANTS
  MaxEntries,  \* bound on the entries stored
  Level, Text, \* Level[e], Text[e]: of the entries, in the order they are stored
  Second,      \* Second[e]: the timestamp, in whole seconds
  Everything,  \* the filter that leaves all entries in
  Filter,      \* Everything and levels: other filters are checked likewise
  Limit,       \* 100: entries the page asks for
  Cap,         \* 500: entries the page keeps
  BufferSize,  \* 16: entries that wait for one connection
  MaxRuns      \* bound on the runs of the effects

Stored == 1..MaxEntries
Pod == 0  \* the lines read from the pods when nothing is stored
Entry == Stored \cup {Pod}
Run == 1..MaxRuns

ASSUME SizeAssumption ==
  /\ MaxEntries \in Nat /\ MaxRuns \in Nat \ {0}
  /\ Limit \in Nat \ {0} /\ Cap \in Nat \ {0} /\ BufferSize \in Nat \ {0}
  /\ Limit <= Cap
ASSUME EntryAssumption ==
  /\ DOMAIN Level = Entry /\ DOMAIN Text = Entry
  /\ Second \in [Entry -> Nat]
  /\ \A e, f \in Entry : e <= f => Second[e] <= Second[f]
ASSUME FilterAssumption == Everything \in Filter /\ \A e \in Entry : Level[e] # Everything

VARIABLES
  stored,   \* how many entries Mongo holds
  waiting,  \* entries stored and not broadcast yet
  run,      \* the current run of the effects
  filter,   \* filter[k]: what run k has closed over
  get,      \* get[k]: the list request of run k
  list,     \* list[k]: the entries read for it
  sock,     \* sock[k]: the WebSocket of run k
  queue,    \* queue[k]: entries on their way to it
  shown,    \* logs: what the page shows
  readAt,   \* history: readAt[k]: how many entries were stored when list[k] was read
  missed    \* history: entries the current run did not get, or got before its list

pageVars == <<run, filter, get, list, sock, queue, shown, readAt, missed>>
vars == <<stored, waiting, pageVars>>

TypeOK ==
  /\ stored \in 0..MaxEntries
  /\ waiting \subseteq 1..stored
  /\ run \in Run
  /\ filter \in [Run -> Filter]
  /\ get \in [Run -> {"none", "sent", "read", "done", "failed"}]
  /\ list \in [Run -> SUBSET Entry] /\ \A k \in Run : Cardinality(list[k]) <= Limit
  /\ sock \in [Run -> {"none", "opening", "joined", "closed"}]
  /\ queue \in [Run -> SUBSET Stored]
  /\ shown \subseteq Entry /\ Cardinality(shown) <= Cap
  /\ readAt \in [Run -> 0..stored]
  /\ missed \subseteq Stored
-----------------------------------------------------------------------------
(* Filters, keys and limits.                                                *)

Matches(f, e) == f = Everything \/ Level[e] = f

\* Two entries with one key are one entry to the page.
TextKey(e) == <<Level[e], Text[e]>>
LogKey(e) == <<Second[e], Level[e], Text[e]>>

\* The newest n of a set, in its different ways: entries of one second are cut
\* in no fixed order.
Newest(set, n) ==
  {some \in SUBSET set :
     /\ Cardinality(some) = IF Cardinality(set) < n THEN Cardinality(set) ELSE n
     /\ \A e \in some, f \in set \ some : Second[e] >= Second[f]}

OnePerKey(set) == {e \in set : \A f \in set : LogKey(f) = LogKey(e) => e <= f}

MergeUncut(set, e) == {OnePerKey(set \cup {e})}
Merge(set, e) == Newest(OnePerKey(set \cup {e}), Cap)

\* What Get reads: stored entries or, if there are none and no filter, the
\* lines of the pods, when Kubernetes gives any.
Lists(f) ==
  LET found == {e \in 1..stored : Matches(f, e)}
  IN  IF found = {} /\ f = Everything THEN {{}, {Pod}} ELSE Newest(found, Limit)
-----------------------------------------------------------------------------
(* The server.                                                              *)

Append ==
  /\ stored < MaxEntries
  /\ stored' = stored + 1
  /\ waiting' = waiting \cup {stored + 1}
  /\ UNCHANGED pageVars

Takes(k) == sock[k] = "joined" /\ Cardinality(queue[k]) < BufferSize

Broadcast(e) ==
  /\ e \in waiting
  /\ waiting' = waiting \ {e}
  /\ queue' = [k \in Run |-> IF Takes(k) THEN queue[k] \cup {e} ELSE queue[k]]
  /\ missed' = IF Takes(run) THEN missed ELSE missed \cup {e}
  /\ UNCHANGED <<stored, run, filter, get, list, sock, shown, readAt>>

Join(k) ==
  /\ sock[k] = "opening"
  /\ sock' = [sock EXCEPT ![k] = "joined"]
  /\ UNCHANGED <<stored, waiting, run, filter, get, list, queue, shown, readAt, missed>>

ReadLogs(k) ==
  /\ get[k] = "sent"
  /\ get' = [get EXCEPT ![k] = "read"]
  /\ \E answer \in Lists(filter[k]) : list' = [list EXCEPT ![k] = answer]
  /\ readAt' = [readAt EXCEPT ![k] = stored]
  /\ UNCHANGED <<stored, waiting, run, filter, sock, queue, shown, missed>>
-----------------------------------------------------------------------------
(* The page.                                                                *)

\* An answer to a run that was cleaned up is thrown away.
EveryAnswer(k) == TRUE
Current(k) == k = run

\* The list replaces what is shown, entries that were streamed before included.
ShowList(k) ==
  /\ get[k] = "read"
  /\ get' = [get EXCEPT ![k] = "done"]
  /\ shown' = IF Current(k) THEN list[k] ELSE shown
  /\ UNCHANGED <<stored, waiting, run, filter, list, sock, queue, readAt, missed>>

\* A list that does not come leaves what is shown.
ListFails(k) ==
  /\ get[k] = "sent"
  /\ get' = [get EXCEPT ![k] = "failed"]
  /\ UNCHANGED <<stored, waiting, run, filter, list, sock, queue, shown, readAt, missed>>

\* onmessage: an entry that passes the filter of the run is merged in.
Deliver(k, e) ==
  /\ sock[k] = "joined" /\ e \in queue[k]
  /\ queue' = [queue EXCEPT ![k] = @ \ {e}]
  /\ IF Matches(filter[k], e) THEN shown' \in Merge(shown, e) ELSE UNCHANGED shown
  /\ missed' = IF get[run] = "done" THEN missed ELSE missed \cup {e}
  /\ UNCHANGED <<stored, waiting, run, filter, get, list, sock, readAt>>

\* The connection breaks, or the server restarts: nothing opens it again.
SocketBreaks ==
  /\ sock[run] \in {"opening", "joined"}
  /\ sock' = [sock EXCEPT ![run] = "closed"]
  /\ queue' = [queue EXCEPT ![run] = {}]
  /\ missed' = missed \cup queue[run]
  /\ UNCHANGED <<stored, waiting, run, filter, get, list, shown, readAt>>

\* The cleanup closes the WebSocket: what is on its way to it is lost.
LeftOpen(s) == s
CloseSocket(s) == IF s \in {"opening", "joined"} THEN "closed" ELSE s

\* A filter changes, or the tab is left and opened again: cleanup of the last
\* run, then the next run asks for the list and opens a WebSocket. What is
\* shown stays until the list is there.
RunEffects(f) ==
  /\ run < MaxRuns
  /\ run' = run + 1
  /\ filter' = [filter EXCEPT ![run + 1] = f]
  /\ get' = [get EXCEPT ![run + 1] = "sent"]
  /\ sock' = [sock EXCEPT ![run] = CloseSocket(@), ![run + 1] = "opening"]
  /\ queue' = [queue EXCEPT ![run] = IF sock'[run] = "joined" THEN @ ELSE {}]
  /\ missed' = {}
  /\ UNCHANGED <<stored, waiting, list, shown, readAt>>
-----------------------------------------------------------------------------
Init ==
  /\ stored = 0 /\ waiting = {}
  /\ run = 1
  /\ filter = [k \in Run |-> Everything]
  /\ get = [k \in Run |-> IF k = 1 THEN "sent" ELSE "none"]
  /\ list = [k \in Run |-> {}]
  /\ sock = [k \in Run |-> IF k = 1 THEN "opening" ELSE "none"]
  /\ queue = [k \in Run |-> {}]
  /\ shown = {}
  /\ readAt = [k \in Run |-> 0]
  /\ missed = {}

Next ==
  \/ Append \/ SocketBreaks
  \/ \E e \in Stored : Broadcast(e)
  \/ \E k \in Run :
       \/ Join(k) \/ ReadLogs(k) \/ ShowList(k) \/ ListFails(k)
       \/ \E e \in Stored : Deliver(k, e)
  \/ \E f \in Filter : RunEffects(f)

Spec == Init /\ [][Next]_vars
-----------------------------------------------------------------------------
Loaded == get[run] = "done"

LooksLike(e, f) == Second[e] = Second[f] /\ Level[e] = Level[f] /\ Text[e] = Text[f]

\* Once the list of the current filter is there, the page shows nothing that
\* the filter leaves out: no late answer to an earlier filter and no entry of
\* its WebSocket comes in between (ServicePage.jsx 370-377, 401-411).
ShownMatchesFilter == Loaded => \A e \in shown : Matches(filter[run], e)

\* Older entries than Limit or Cap leave room for.
BeyondLimit(e) ==
  /\ e <= readAt[run]
  /\ Cardinality({f \in list[run] : Second[f] >= Second[e]}) >= Limit
BeyondCap(e) == Cardinality({f \in shown : Second[f] >= Second[e]}) >= Cap

\* Once the list is there, a stored entry that passes the filter is on the page,
\* itself or a twin that looks the same, or it is on its way, or too old to be
\* kept. The only others are those stored after the list was read that were
\* broadcast to no open socket or a full one, or came before the list did and
\* were wiped by it (ServicePage.jsx 152-178, 373; hub.go 58-66).
MissingExplained ==
  Loaded =>
    \A e \in 1..stored : Matches(filter[run], e) =>
      \/ \E f \in shown : LooksLike(e, f)
      \/ e \in waiting \cup queue[run]
      \/ BeyondLimit(e) \/ BeyondCap(e)
      \/ e > readAt[run] /\ e \in missed
=============================================================================
