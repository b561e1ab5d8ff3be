------------------------------ MODULE Migrator ------------------------------
(***************************************************************************)
(* The start of a server: the migrations its build brings along, each in a *)
(* transaction with its record, then the seed, statement by statement, and *)
(* only then the server serves. A start that fails ends the process, which *)
(* is started again. Several servers may start at once, of builds with     *)
(* different migrations.                                                   *)
(*                                                                         *)
(* Bodies of migrations may be repeated (IF NOT EXISTS and the like); what *)
(* counts is which of them are committed, and in which order.              *)
(***************************************************************************)
EXTENDS Naturals, Sequences, FiniteSets, FiniteSetsExt, SequencesExt

CONSTANTS
  Server,
  Build,      \* Build[s]: the migrations of its build, as numbers in the order of names
  SeedRows,   \* the statements of the seed; each is "upsert" or "release"
  MaxFaults   \* bound on crashes and failing calls

Migration == UNION {Build[s] : s \in Server}

ASSUME ServerAssumption == IsFiniteSet(Server)
ASSUME BuildAssumption == Build \in [Server -> SUBSET Nat]
ASSUME SeedAssumption == SeedRows \in Seq({"upsert", "release"}) /\ SeedRows # <<>>
ASSUME FaultAssumption == MaxFaults \in Nat

VARIABLES
  pc,        \* pc[s]: how far server s has come
  todo,      \* todo[s]: migrations it has not passed yet
  item,      \* item[s]: the statement of the seed it is at
  absent,    \* absent[s]: its INSERT found no such release
  recorded,  \* schema_migrations
  schema,    \* history: the bodies in the order they were committed
  rows,      \* rows[i]: how many rows statement i of the seed has left
  faults     \* faults so far

database == <<recorded, schema, rows>>
vars == <<pc, todo, item, absent, database, faults>>

Item == DOMAIN SeedRows

TypeOK ==
  /\ pc \in [Server -> {"down", "check", "execute", "record", "commit", "seed", "insert", "up"}]
  /\ todo \in [Server -> SUBSET Migration]
  /\ item \in [Server -> Item]
  /\ absent \in [Server -> BOOLEAN]
  /\ recorded \subseteq Migration
  /\ schema \in Seq(Migration)
  /\ rows \in [Item -> Nat]
  /\ faults \in 0..MaxFaults

Init ==
  /\ pc = [s \in Server |-> "down"]
  /\ todo = [s \in Server |-> {}]
  /\ item = [s \in Server |-> 1]
  /\ absent = [s \in Server |-> FALSE]
  /\ recorded = {}
  /\ schema = <<>>
  /\ rows = [i \in Item |-> 0]
  /\ faults = 0
-----------------------------------------------------------------------------
(* Up. schema_migrations is created if it is not there.                    *)

Stop(s) ==
  /\ pc' = [pc EXCEPT ![s] = "down"]
  /\ todo' = [todo EXCEPT ![s] = {}]
  /\ item' = [item EXCEPT ![s] = 1]
  /\ absent' = [absent EXCEPT ![s] = FALSE]

Start(s) ==
  /\ pc[s] = "down"
  /\ pc' = [pc EXCEPT ![s] = "check"]
  /\ todo' = [todo EXCEPT ![s] = Build[s]]
  /\ UNCHANGED <<item, absent, database, faults>>

LastName(names) == Max(names)
FirstName(names) == Min(names)

NeverApplied(name) == FALSE
AppliedUpTo(name) == \E last \in recorded : name <= last
Applied(name) == name \in recorded

\* A migration that is recorded is passed; after the last one the seed begins.
Check(s) ==
  /\ pc[s] = "check"
  /\ \/ /\ todo[s] = {}
        /\ pc' = [pc EXCEPT ![s] = "seed"]
        /\ UNCHANGED todo
     \/ /\ todo[s] # {}
        /\ LET name == FirstName(todo[s])
           IN  \/ /\ Applied(name)
                  /\ todo' = [todo EXCEPT ![s] = @ \ {name}]
                  /\ UNCHANGED pc
               \/ /\ ~Applied(name)
                  /\ pc' = [pc EXCEPT ![s] = "execute"]
                  /\ UNCHANGED todo
  /\ UNCHANGED <<item, absent, database, faults>>

\* The transaction of another server holds the locks of what the body alters.
Locked(s) ==
  \E t \in Server \ {s} :
    /\ pc[t] \in {"record", "commit"}
    /\ FirstName(todo[t]) = FirstName(todo[s])

Execute(s) ==
  /\ pc[s] = "execute"
  /\ ~Locked(s)
  /\ pc' = [pc EXCEPT ![s] = "record"]
  /\ UNCHANGED <<todo, item, absent, database, faults>>

\* version is the primary key: a second record of a migration fails, and its
\* transaction is rolled back.
NoKey(name) == FALSE
Duplicate(name) == name \in recorded

Record(s) ==
  /\ pc[s] = "record"
  /\ \/ /\ Duplicate(FirstName(todo[s]))
        /\ Stop(s)
     \/ /\ ~Duplicate(FirstName(todo[s]))
        /\ pc' = [pc EXCEPT ![s] = "commit"]
        /\ UNCHANGED <<todo, item, absent>>
  /\ UNCHANGED <<database, faults>>

Commit(s) ==
  /\ pc[s] = "commit"
  /\ LET name == FirstName(todo[s])
     IN  /\ recorded' = recorded \cup {name}
         /\ schema' = Append(schema, name)
         /\ todo' = [todo EXCEPT ![s] = @ \ {name}]
  /\ pc' = [pc EXCEPT ![s] = "check"]
  /\ UNCHANGED <<item, absent, rows, faults>>
-----------------------------------------------------------------------------
(* SeedAll.                                                                *)

PastLast(s) == item[s] > Len(SeedRows)
AtLast(s) == item[s] = Len(SeedRows)

\* After the last statement the server listens.
Advance(s) ==
  IF AtLast(s)
  THEN pc' = [pc EXCEPT ![s] = "up"] /\ UNCHANGED item
  ELSE pc' = [pc EXCEPT ![s] = "seed"] /\ item' = [item EXCEPT ![s] = @ + 1]

\* ON CONFLICT: there is one row, whoever comes first.
SeedUpsert(s) ==
  /\ pc[s] = "seed" /\ SeedRows[item[s]] = "upsert"
  /\ rows' = [rows EXCEPT ![item[s]] = 1]
  /\ Advance(s)
  /\ UNCHANGED <<todo, absent, recorded, schema, faults>>

\* INSERT ... WHERE NOT EXISTS looks first, and sees nothing of inserts that
\* are not committed by then.
LooksAway(i) == TRUE
NotExists(i) == rows[i] = 0

SeedLook(s) ==
  /\ pc[s] = "seed" /\ SeedRows[item[s]] = "release"
  /\ absent' = [absent EXCEPT ![s] = NotExists(item[s])]
  /\ pc' = [pc EXCEPT ![s] = "insert"]
  /\ UNCHANGED <<todo, item, database, faults>>

SeedInsert(s) ==
  /\ pc[s] = "insert"
  /\ rows' = [rows EXCEPT ![item[s]] = IF absent[s] THEN @ + 1 ELSE @]
  /\ absent' = [absent EXCEPT ![s] = FALSE]
  /\ Advance(s)
  /\ UNCHANGED <<todo, recorded, schema, faults>>
-----------------------------------------------------------------------------
\* The process dies, or a call fails and log.Fatal ends it; an open transaction
\* is rolled back. A lost acknowledgement is a crash after the statement.
Fault(s) ==
  /\ pc[s] # "down" /\ faults < MaxFaults
  /\ faults' = faults + 1
  /\ Stop(s)
  /\ UNCHANGED database

Step(s) ==
  \/ Start(s) \/ Check(s) \/ Execute(s) \/ Record(s) \/ Commit(s)
  \/ SeedUpsert(s) \/ SeedLook(s) \/ SeedInsert(s)

Next == \E s \in Server : Step(s) \/ Fault(s)

Spec == Init /\ [][Next]_vars

\* A server that is down is started again (compose.yaml: restart), Postgres
\* answers, and a lock that is free is granted.
FairSpec == Spec /\ \A s \in Server : WF_vars(Step(s))
-----------------------------------------------------------------------------
(* Properties.                                                             *)

\* Every migration is committed once and with its record, whoever else starts at
\* the same time and wherever a server dies: check and record are two statements
\* (postgres.go 39-64), and only the key keeps the second server out.
AppliedOnce == ToSet(schema) = recorded /\ IsInjective(schema)

\* Migrations are committed in the order of their names, except one that a build
\* which had the later one did not have yet (postgres.go 35).
OrderKept ==
  \A i, j \in DOMAIN schema :
    i < j /\ schema[i] > schema[j] =>
      \E s \in Server : schema[i] \in Build[s] /\ schema[j] \notin Build[s]

\* A server that listens has all its migrations and a complete seed below it.
UpMeansReady ==
  \A s \in Server : pc[s] = "up" =>
    Build[s] \subseteq recorded /\ \A i \in Item : rows[i] > 0

\* Restarts do not pile up demo releases: servers that seed at the same time may
\* each add one (demo.go 134-141), a server that seeds again adds none.
SeededPerServer == \A i \in Item : rows[i] <= Cardinality(Server)

\* Every server comes up in the end: losing the race for a migration costs one
\* restart, not a loop of restarts.
ComesUp == \A s \in Server : <>[](pc[s] = "up")
=============================================================================
