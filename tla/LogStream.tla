------------------------------ MODULE LogStream ------------------------------
(***************************************************************************)
(* The way of a log entry from its source to the browsers: the collector   *)
(* that reads lines and posts them in batches, the handlers that append    *)
(* the entries to the store and broadcast them, the hub with its           *)
(* read-write lock, and the goroutine Stream of every WebSocket            *)
(* connection. One service, as all state is per service.                   *)
(*                                                                         *)
(* The poll of pods (LogTail) appends and broadcasts the lines it finds    *)
(* with the same calls as Ingest, so it meets the store and the hub like   *)
(* one more handler and is not modelled apart.                             *)
(***************************************************************************)
EXTENDS Naturals, Sequences, FiniteSetsExt, SequencesExt

CONSTANTS
  Handler,    \* requests to Ingest that may be served at once
  Nobody,     \* the collector waits for no answer
  Conn,       \* WebSocket connections, each used once
  Stalled,    \* connections whose client never reads: their Write does not return
  BatchSize,  \* 50 in the code
  BufferSize, \* 16 in the code
  MaxLines,   \* the collector's input
  MaxCrashes  \* bound on the restarts of the server

ASSUME NobodyAssumption == Nobody \notin Handler
ASSUME StalledAssumption == Stalled \subseteq Conn
ASSUME SizeAssumption == BatchSize \in Nat \ {0} /\ BufferSize \in Nat \ {0}
ASSUME BoundAssumption == MaxLines \in Nat /\ MaxCrashes \in Nat

VARIABLES
  lines,    \* lines the collector has read
  batch,    \* lines it has not sent yet
  sending,  \* the handler whose answer it waits for
  late,     \* history: it stopped waiting for a handler that was still at work
  at,       \* at[h]: what handler h does next
  todo,     \* todo[h]: the entries it has left, the first one in work
  targets,  \* targets[h]: connections its broadcast has not reached yet
  orphan,   \* handlers whose client is gone
  store,    \* the entries in Mongo, in their order
  conn,     \* conn[c]: how far the goroutine of c has come
  gone,     \* connections whose client went away
  hub,      \* connections the hub knows
  buffer,   \* buffer[c]: the channel Send
  seen,     \* seen[c]: what the client received
  dropped,  \* history: dropped[c]: entries that found the buffer full
  crashes   \* restarts so far

collectorVars == <<lines, batch, sending, late>>
ingestVars == <<at, todo, targets, orphan>>
connVars == <<conn, gone, hub, buffer, seen, dropped>>
vars == <<collectorVars, ingestVars, store, connVars, crashes>>

\* Entries are told apart by the numbers of their lines.
Entry == 1..MaxLines

TypeOK ==
  /\ lines \in 0..MaxLines
  /\ batch \in Seq(Entry) /\ Len(batch) <= BatchSize
  /\ sending \in Handler \cup {Nobody}
  /\ late \in BOOLEAN
  /\ at \in [Handler -> {"idle", "append", "lock", "send"}]
  /\ todo \in [Handler -> Seq(Entry)]
  /\ targets \in [Handler -> SUBSET Conn]
  /\ orphan \subseteq Handler
  /\ store \in Seq(Entry)
  /\ conn \in [Conn -> {"new", "joining", "open", "leaving", "left"}]
  /\ gone \subseteq Conn
  /\ hub \subseteq Conn
  /\ buffer \in [Conn -> Seq(Entry)] /\ \A c \in Conn : Len(buffer[c]) <= BufferSize
  /\ seen \in [Conn -> Seq(Entry)]
  /\ dropped \in [Conn -> SUBSET Entry]
  /\ crashes \in 0..MaxCrashes

Init ==
  /\ lines = 0 /\ batch = <<>> /\ sending = Nobody /\ late = FALSE
  /\ at = [h \in Handler |-> "idle"]
  /\ todo = [h \in Handler |-> <<>>]
  /\ targets = [h \in Handler |-> {}]
  /\ orphan = {}
  /\ store = <<>>
  /\ conn = [c \in Conn |-> "new"]
  /\ gone = {} /\ hub = {}
  /\ buffer = [c \in Conn |-> <<>>]
  /\ seen = [c \in Conn |-> <<>>]
  /\ dropped = [c \in Conn |-> {}]
  /\ crashes = 0
-----------------------------------------------------------------------------
(* The collector: one loop that reads, and sends when a batch is full or    *)
(* the input has ended.                                                     *)

NeverWaits == TRUE
Free == sending = Nobody

ReadLine ==
  /\ Free
  /\ lines < MaxLines /\ Len(batch) < BatchSize
  /\ lines' = lines + 1
  /\ batch' = Append(batch, lines + 1)
  /\ UNCHANGED <<sending, late, ingestVars, store, connVars, crashes>>

BatchReady == Free /\ (Len(batch) = BatchSize \/ (lines = MaxLines /\ batch # <<>>))

SendBatch(h) ==
  /\ BatchReady
  /\ at[h] = "idle"
  /\ at' = [at EXCEPT ![h] = "append"]
  /\ todo' = [todo EXCEPT ![h] = batch]
  /\ sending' = h
  /\ batch' = <<>>
  /\ UNCHANGED <<lines, late, targets, orphan, store, connVars, crashes>>

\* The request does not reach a handler. The batch is logged and dropped.
SendFails ==
  /\ BatchReady
  /\ batch' = <<>>
  /\ UNCHANGED <<lines, sending, late, ingestVars, store, connVars, crashes>>

\* Five seconds pass, or the connection breaks, while the handler is at work.
GiveUp ==
  /\ sending # Nobody
  /\ orphan' = orphan \cup {sending}
  /\ sending' = Nobody
  /\ late' = TRUE
  /\ UNCHANGED <<lines, batch, at, todo, targets, store, connVars, crashes>>
-----------------------------------------------------------------------------
(* The handler Ingest.                                                      *)

\* Handler h goes on with `rest'; after the last entry Ingest answers.
GoOn(h, rest) ==
  /\ todo' = [todo EXCEPT ![h] = rest]
  /\ at' = [at EXCEPT ![h] = IF rest = <<>> THEN "idle" ELSE "append"]
  /\ sending' = IF rest = <<>> /\ sending = h THEN Nobody ELSE sending
  /\ orphan' = IF rest = <<>> THEN orphan \ {h} ELSE orphan

\* Append: an entry is broadcast if Mongo acknowledged it, and passed over if
\* not, although Mongo may have taken it.
BroadcastsAnyway(took, ok) == TRUE
Broadcasts(took, ok) == ok

AppendEntry(h) ==
  /\ at[h] = "append"
  /\ \E took, ok \in BOOLEAN :
       /\ ok => took
       /\ store' = IF took THEN Append(store, Head(todo[h])) ELSE store
       /\ \/ /\ Broadcasts(took, ok)
             /\ at' = [at EXCEPT ![h] = "lock"]
             /\ UNCHANGED <<todo, sending, orphan>>
          \/ /\ ~Broadcasts(took, ok)
             /\ GoOn(h, Tail(todo[h]))
  /\ UNCHANGED <<lines, batch, late, targets, connVars, crashes>>

\* The context of a request ends some time after its client went away; then
\* every Append that is left fails.
ContextEnds(h) ==
  /\ h \in orphan
  /\ at[h] = "append"
  /\ GoOn(h, <<>>)
  /\ UNCHANGED <<lines, batch, late, targets, store, connVars, crashes>>

\* RLock waits for a Join or Leave that waits for its turn.
LockWanted == \E c \in Conn : conn[c] \in {"joining", "leaving"}

StartBroadcast(h) ==
  /\ at[h] = "lock"
  /\ ~LockWanted
  /\ at' = [at EXCEPT ![h] = "send"]
  /\ targets' = [targets EXCEPT ![h] = hub]
  /\ UNCHANGED <<collectorVars, todo, orphan, store, connVars, crashes>>

AlwaysRoom(c) == TRUE
Room(c) == Len(buffer[c]) < BufferSize

\* Which connections are left after that one.
FullEndsIt(h, c) == IF Room(c) THEN targets[h] \ {c} ELSE {}
LeftAfter(h, c) == targets[h] \ {c}

BlockingOffer(h, c) ==
  /\ at[h] = "send" /\ c \in targets[h] /\ Room(c)
  /\ buffer' = [buffer EXCEPT ![c] = Append(@, Head(todo[h]))]
  /\ targets' = [targets EXCEPT ![h] = LeftAfter(h, c)]
  /\ UNCHANGED <<collectorVars, at, todo, orphan, store, conn, gone, hub, seen, dropped, crashes>>

\* A send that never waits: an entry that finds the channel full is dropped.
Offer(h, c) ==
  /\ at[h] = "send" /\ c \in targets[h]
  /\ \/ /\ Room(c)
        /\ buffer' = [buffer EXCEPT ![c] = Append(@, Head(todo[h]))]
        /\ UNCHANGED dropped
     \/ /\ ~Room(c)
        /\ dropped' = [dropped EXCEPT ![c] = @ \cup {Head(todo[h])}]
        /\ UNCHANGED buffer
  /\ targets' = [targets EXCEPT ![h] = LeftAfter(h, c)]
  /\ UNCHANGED <<collectorVars, at, todo, orphan, store, conn, gone, hub, seen, crashes>>

EndBroadcast(h) ==
  /\ at[h] = "send" /\ targets[h] = {}
  /\ GoOn(h, Tail(todo[h]))
  /\ UNCHANGED <<lines, batch, late, targets, store, connVars, crashes>>
-----------------------------------------------------------------------------
(* The connections: Stream, Join and Leave.                                 *)

Unlocked == \A h \in Handler : at[h] # "send"

Accept(c) ==
  /\ conn[c] = "new"
  /\ conn' = [conn EXCEPT ![c] = "joining"]
  /\ UNCHANGED <<collectorVars, ingestVars, store, gone, hub, buffer, seen, dropped, crashes>>

Join(c) ==
  /\ conn[c] = "joining" /\ Unlocked
  /\ conn' = [conn EXCEPT ![c] = "open"]
  /\ hub' = hub \cup {c}
  /\ UNCHANGED <<collectorVars, ingestVars, store, gone, buffer, seen, dropped, crashes>>

ClientGoes(c) ==
  /\ conn[c] = "open" /\ c \notin gone \cup Stalled
  /\ gone' = gone \cup {c}
  /\ UNCHANGED <<collectorVars, ingestVars, store, conn, hub, buffer, seen, dropped, crashes>>

\* The goroutine only writes: it learns that its client is gone from a Write
\* that fails, and the first one to a dead peer need not.
Deliver(c) ==
  /\ c \notin Stalled
  /\ conn[c] = "open" /\ buffer[c] # <<>>
  /\ buffer' = [buffer EXCEPT ![c] = Tail(@)]
  /\ \/ /\ c \notin gone
        /\ seen' = [seen EXCEPT ![c] = Append(@, Head(buffer[c]))]
        /\ UNCHANGED conn
     \/ /\ c \in gone
        /\ conn' \in {conn, [conn EXCEPT ![c] = "leaving"]}
        /\ UNCHANGED seen
  /\ UNCHANGED <<collectorVars, ingestVars, store, gone, hub, dropped, crashes>>

Leave(c) ==
  /\ conn[c] = "leaving" /\ Unlocked
  /\ conn' = [conn EXCEPT ![c] = "left"]
  /\ hub' = hub \ {c}
  /\ buffer' = [buffer EXCEPT ![c] = <<>>]
  /\ UNCHANGED <<collectorVars, ingestVars, store, gone, seen, dropped, crashes>>

\* The server stops: only the store survives, and the collector gets an error.
Crash ==
  /\ crashes < MaxCrashes
  /\ crashes' = crashes + 1
  /\ sending' = Nobody
  /\ at' = [h \in Handler |-> "idle"]
  /\ todo' = [h \in Handler |-> <<>>]
  /\ targets' = [h \in Handler |-> {}]
  /\ orphan' = {}
  /\ conn' = [c \in Conn |-> IF conn[c] = "new" THEN "new" ELSE "left"]
  /\ hub' = {}
  /\ buffer' = [c \in Conn |-> <<>>]
  /\ UNCHANGED <<lines, batch, late, store, gone, seen, dropped>>
-----------------------------------------------------------------------------
IngestStep(h) ==
  \/ AppendEntry(h) \/ StartBroadcast(h) \/ EndBroadcast(h)
  \/ \E c \in Conn : Offer(h, c)

Next ==
  \/ ReadLine \/ SendFails \/ GiveUp
  \/ \E h \in Handler : SendBatch(h) \/ ContextEnds(h) \/ IngestStep(h)
  \/ \E c \in Conn : Accept(c) \/ Join(c) \/ ClientGoes(c) \/ Deliver(c) \/ Leave(c)
  \/ Crash

Spec == Init /\ [][Next]_vars

\* Goroutines of the server that can run do, Mongo answers, and a Write to a
\* client that is not stalled returns. Nothing is assumed of the collector, of
\* the arrival of lines or of clients.
Fairness ==
  /\ \A h \in Handler : WF_vars(IngestStep(h))
  /\ \A c \in Conn : WF_vars(Join(c)) /\ WF_vars(Leave(c)) /\ WF_vars(Deliver(c))

FairSpec == Spec /\ Fairness
-----------------------------------------------------------------------------
(* Properties.                                                              *)

Ascending(s) == \A i, j \in DOMAIN s : i < j => s[i] < s[j]

\* Lines are stored, and reach every client, in the order the collector read
\* them, as long as it never gives up on a handler: two handlers then never
\* work on its lines at once (cmd/collector/main.go 46-61).
LinesInOrder ==
  ~late => Ascending(store) /\ \A c \in Conn : Ascending(seen[c])

Book == INSTANCE LogBook WITH Reader <- Conn, book <- store, shown <- seen

\* The store and what clients receive are a log book: stored before shown, and
\* nothing twice, whatever fails, overtakes or restarts.
ImplementsLogBook == Book!BookSpec

\* Neither the lock of the hub nor a client that stops reading holds up a
\* handler or a connection that joins or leaves: the send of
\* Broadcast never waits (hub.go 61-64).
NobodyHeldUp ==
  /\ \A h \in Handler : at[h] # "idle" ~> at[h] = "idle"
  /\ \A c \in Conn :
       conn[c] \in {"joining", "leaving"} ~> conn[c] \in {"open", "left"}

\* An entry that Mongo acknowledged while a connection was in the hub arrives
\* there, unless it finds that connection's own buffer full or the connection
\* ends: neighbours that are slow do not matter.
AcknowledgedArrives ==
  \A c \in Conn \ Stalled : \A e \in Entry :
    (c \in hub /\ \E h \in Handler : at[h] = "lock" /\ Head(todo[h]) = e)
      ~> (e \in ToSet(seen[c]) \cup dropped[c] \/ c \in gone \/ conn[c] # "open")

\* The safety half of it: e is owed to c until c is through with it, and stands in
\* its buffer in between. What ends it is the client, its full buffer or the end of
\* the connection, never another connection, handler or collector.
OnItsWay(c, e) ==
  /\ c \in hub
  /\ \E h \in Handler :
       /\ at[h] = "lock" \/ (at[h] = "send" /\ c \in targets[h])
       /\ Head(todo[h]) = e

Through(c, e) ==
  e \in ToSet(seen[c]) \cup dropped[c] \/ c \in gone \/ conn[c] \in {"leaving", "left"}

Kept(c, e) == OnItsWay(c, e) \/ e \in ToSet(buffer[c]) \/ Through(c, e)

\* The hub knows the connections that are open: nobody is offered anything, and
\* nothing is in a buffer, outside it (hub.go 27-44).
HubKnows ==
  /\ \A c \in Conn :
       /\ c \in hub => conn[c] \in {"open", "leaving"}
       /\ buffer[c] # <<>> => c \in hub
  /\ \A h \in Handler : at[h] = "send" => targets[h] \subseteq hub
=============================================================================
