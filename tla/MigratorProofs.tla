---------------------------- MODULE MigratorProofs ----------------------------
(***************************************************************************)
(* Proofs about Migrator for any servers, builds, seed and number of       *)
(* faults.                                                                 *)
(***************************************************************************)
EXTENDS Migrator, FiniteSetTheorems, SequenceTheorems, WellFoundedInduction, TLAPS

\* What server s has passed is recorded, and its pc says what it has left.
Passed(s) ==
  /\ pc[s] # "down" => todo[s] \subseteq Build[s] /\ Build[s] \ todo[s] \subseteq recorded
  /\ pc[s] \in {"execute", "record", "commit"} => todo[s] # {}
  /\ pc[s] \in {"seed", "insert", "up"} => todo[s] = {}

\* Only one server is inside the transaction of a migration, and one that is
\* about to commit has seen that nobody recorded it.
Alone(s) ==
  /\ pc[s] = "commit" => FirstName(todo[s]) \notin recorded
  /\ \A t \in Server \ {s} :
       pc[s] \in {"record", "commit"} /\ pc[t] \in {"record", "commit"} =>
         FirstName(todo[s]) # FirstName(todo[t])

\* The seed below the statement that server s is at is there.
Seeded(s) ==
  /\ pc[s] \in {"down", "check", "execute", "record", "commit"} => item[s] = 1
  /\ \A i \in Item : i < item[s] => rows[i] > 0
  /\ pc[s] = "insert" => SeedRows[item[s]] = "release" /\ (absent[s] \/ rows[item[s]] > 0)
  /\ pc[s] = "up" => \A i \in Item : rows[i] > 0

\* The servers that will add a row for statement i.
Inserting(i) == {s \in Server : pc[s] = "insert" /\ item[s] = i /\ absent[s]}

\* Each server adds at most one row while it still finds none.
RowsToCome == \A i \in Item : rows[i] + Cardinality(Inserting(i)) <= Cardinality(Server)

\* Whatever was committed comes after everything smaller in some build with it.
InOrder ==
  \A i \in DOMAIN schema : \E s \in Server :
    /\ schema[i] \in Build[s]
    /\ \A n \in Build[s] : n < schema[i] => \E k \in DOMAIN schema : k < i /\ schema[k] = n

ServersInv == \A s \in Server : Passed(s) /\ Alone(s) /\ Seeded(s)

\* The inductive invariant.
MigratorInv == TypeOK /\ ServersInv /\ RowsToCome /\ InOrder /\ AppliedOnce
-----------------------------------------------------------------------------
(* Facts about the operators.                                               *)

\* The first name of a set of migrations is in it, and none comes before it.
LEMMA FirstIsFirst ==
  ASSUME NEW T \in SUBSET Nat, T # {}
  PROVE  FirstName(T) \in T /\ \A n \in T : FirstName(T) <= n
<1>1. PICK x \in T : \A y \in T : <<y, x>> \notin OpToRel(<, Nat)
  BY WFMin, NatLessThanWellFounded
<1>2. \A y \in T : ~(y < x)
  BY <1>1 DEF OpToRel
<1>3. \A y \in T : x <= y
  BY <1>2
<1> QED
  BY <1>3 DEF FirstName, Min

LEMMA MigrationNumbers ==
  /\ Migration \subseteq Nat
  /\ \A s \in Server : Build[s] \subseteq Migration /\ Build[s] \subseteq Nat
  BY BuildAssumption DEF Migration

\* The statements of the seed are numbered from 1.
LEMMA SeedItems ==
  /\ Len(SeedRows) \in Nat \ {0} /\ Item = 1..Len(SeedRows)
  /\ \A i \in Item : SeedRows[i] \in {"upsert", "release"}
  BY SeedAssumption, EmptySeq DEF Item

\* What a server that is about to take a migration knows of it.
LEMMA NextMigration ==
  ASSUME MigratorInv, NEW s \in Server, pc[s] # "down", todo[s] # {}
  PROVE  /\ todo[s] \subseteq Build[s]
         /\ FirstName(todo[s]) \in todo[s] /\ FirstName(todo[s]) \in Migration
         /\ \A n \in Build[s] : n < FirstName(todo[s]) => n \in recorded
<1>1. todo[s] \subseteq Build[s] /\ Build[s] \ todo[s] \subseteq recorded
  BY DEF MigratorInv, ServersInv, Passed
<1>2. FirstName(todo[s]) \in todo[s] /\ \A n \in todo[s] : FirstName(todo[s]) <= n
  BY <1>1, FirstIsFirst, MigrationNumbers
<1>3. \A n \in Build[s] : n < FirstName(todo[s]) => n \notin todo[s]
  BY <1>1, <1>2, MigrationNumbers
<1> QED
  BY <1>1, <1>2, <1>3, MigrationNumbers

\* Sets of servers can be counted.
LEMMA ServersFinite ==
  ASSUME NEW S \in SUBSET Server
  PROVE  /\ IsFiniteSet(S) /\ Cardinality(S) \in Nat /\ Cardinality(Server) \in Nat
         /\ Cardinality(S) <= Cardinality(Server)
  BY ServerAssumption, FS_Subset, FS_CardinalityType
-----------------------------------------------------------------------------
(* What steps keep that write neither schema nor rows.                      *)

LEMMA SchemaQuiet ==
  ASSUME MigratorInv, UNCHANGED <<recorded, schema>>
  PROVE  InOrder' /\ AppliedOnce'
  BY DEF MigratorInv, InOrder, AppliedOnce, ToSet, IsInjective

LEMMA RowsQuiet ==
  ASSUME MigratorInv, UNCHANGED rows,
         \A i \in Item : Inserting(i)' \subseteq Inserting(i)
  PROVE  RowsToCome'
<1> SUFFICES ASSUME NEW i \in Item
             PROVE  rows[i] + Cardinality(Inserting(i)') <= Cardinality(Server)
  BY DEF RowsToCome
<1>1. Inserting(i) \in SUBSET Server /\ Inserting(i)' \in SUBSET Inserting(i)
  BY DEF Inserting
<1>2. /\ Cardinality(Inserting(i)') <= Cardinality(Inserting(i))
      /\ Cardinality(Inserting(i)) \in Nat /\ Cardinality(Inserting(i)') \in Nat
      /\ Cardinality(Server) \in Nat
  BY <1>1, ServersFinite, FS_Subset, FS_CardinalityType
<1>3. rows[i] \in Nat /\ rows[i] + Cardinality(Inserting(i)) <= Cardinality(Server)
  BY DEF MigratorInv, TypeOK, RowsToCome
<1> QED
  BY <1>2, <1>3
-----------------------------------------------------------------------------
LEMMA InitMigrator == Init => MigratorInv
<1> SUFFICES ASSUME Init PROVE MigratorInv
  OBVIOUS
<1>1. TypeOK
  BY SeedItems, FaultAssumption, EmptySeq DEF Init, TypeOK
<1>2. ServersInv
  BY SeedItems DEF Init, ServersInv, Passed, Alone, Seeded
<1>3. RowsToCome
  <2> SUFFICES ASSUME NEW i \in Item
               PROVE  rows[i] + Cardinality(Inserting(i)) <= Cardinality(Server)
    BY DEF RowsToCome
  <2>1. Inserting(i) = {} /\ rows[i] = 0
    BY DEF Init, Inserting
  <2> QED
    BY <2>1, FS_EmptySet, ServersFinite
<1>4. InOrder /\ AppliedOnce
  BY DEF Init, InOrder, AppliedOnce, ToSet, IsInjective
<1> QED
  BY <1>1, <1>2, <1>3, <1>4 DEF MigratorInv

\* A process that ends leaves the database as it is.
LEMMA StopKeeps ==
  ASSUME MigratorInv, NEW s \in Server, Stop(s), UNCHANGED database,
         faults' \in 0..MaxFaults
  PROVE  MigratorInv'
<1>1. TypeOK'
  BY SeedItems DEF MigratorInv, TypeOK, Stop, database
<1>2. ServersInv'
  <2> SUFFICES ASSUME NEW t \in Server PROVE Passed(t)' /\ Alone(t)' /\ Seeded(t)'
    BY DEF ServersInv
  <2>1. CASE t = s
    BY <2>1, SeedItems
       DEF MigratorInv, TypeOK, Stop, ServersInv, Passed, Alone, Seeded, database
  <2>2. CASE t # s
    BY <2>2 DEF MigratorInv, TypeOK, Stop, ServersInv, Passed, Alone, Seeded, database
  <2> QED
    BY <2>1, <2>2
<1>3. RowsToCome'
  BY RowsQuiet DEF MigratorInv, TypeOK, Stop, Inserting, database
<1>4. InOrder' /\ AppliedOnce'
  BY SchemaQuiet DEF database
<1> QED
  BY <1>1, <1>2, <1>3, <1>4 DEF MigratorInv

LEMMA StartKeeps ==
  ASSUME MigratorInv, NEW s \in Server, Start(s)
  PROVE  MigratorInv'
<1>1. TypeOK'
  BY MigrationNumbers DEF MigratorInv, TypeOK, Start, database
<1>2. ServersInv'
  BY DEF MigratorInv, TypeOK, Start, ServersInv, Passed, Alone, Seeded, database
<1>3. RowsToCome'
  BY RowsQuiet DEF MigratorInv, TypeOK, Start, Inserting, database
<1>4. InOrder' /\ AppliedOnce'
  BY SchemaQuiet DEF Start, database
<1> QED
  BY <1>1, <1>2, <1>3, <1>4 DEF MigratorInv

LEMMA CheckKeeps ==
  ASSUME MigratorInv, NEW s \in Server, Check(s)
  PROVE  MigratorInv'
<1>0. todo[s] # {} => FirstName(todo[s]) \in todo[s]
  BY NextMigration DEF Check
<1>1. TypeOK'
  BY DEF MigratorInv, TypeOK, Check, database
<1>2. ServersInv'
  <2> SUFFICES ASSUME NEW t \in Server PROVE Passed(t)' /\ Alone(t)' /\ Seeded(t)'
    BY DEF ServersInv
  <2>1. CASE t = s
    BY <1>0, <2>1 DEF MigratorInv, TypeOK, Check, Applied, ServersInv, Passed, Alone, Seeded,
                      database
  <2>2. CASE t # s
    BY <2>2 DEF MigratorInv, TypeOK, Check, ServersInv, Passed, Alone, Seeded, database
  <2> QED
    BY <2>1, <2>2
<1>3. RowsToCome'
  BY RowsQuiet DEF MigratorInv, TypeOK, Check, Inserting, database
<1>4. InOrder' /\ AppliedOnce'
  BY SchemaQuiet DEF Check, database
<1> QED
  BY <1>1, <1>2, <1>3, <1>4 DEF MigratorInv

\* The lock keeps a second server out of the transaction.
LEMMA ExecuteKeeps ==
  ASSUME MigratorInv, NEW s \in Server, Execute(s)
  PROVE  MigratorInv'
<1>1. TypeOK'
  BY DEF MigratorInv, TypeOK, Execute, database
<1>2. ServersInv'
  BY DEF MigratorInv, TypeOK, Execute, Locked, ServersInv, Passed, Alone, Seeded, database
<1>3. RowsToCome'
  BY RowsQuiet DEF MigratorInv, TypeOK, Execute, Inserting, database
<1>4. InOrder' /\ AppliedOnce'
  BY SchemaQuiet DEF Execute, database
<1> QED
  BY <1>1, <1>2, <1>3, <1>4 DEF MigratorInv

\* The key ends a server that finds its migration recorded.
LEMMA RecordKeeps ==
  ASSUME MigratorInv, NEW s \in Server, Record(s)
  PROVE  MigratorInv'
<1>1. CASE Stop(s)
  BY <1>1, StopKeeps DEF Record, MigratorInv, TypeOK
<1>2. CASE /\ ~Duplicate(FirstName(todo[s]))
           /\ pc' = [pc EXCEPT ![s] = "commit"]
           /\ UNCHANGED <<todo, item, absent>>
  <2>1. TypeOK'
    BY <1>2 DEF MigratorInv, TypeOK, Record, database
  <2>2. ServersInv'
    BY <1>2 DEF MigratorInv, TypeOK, Record, Duplicate, ServersInv, Passed, Alone, Seeded,
                database
  <2>3. RowsToCome'
    BY <1>2, RowsQuiet DEF MigratorInv, TypeOK, Record, Inserting, database
  <2>4. InOrder' /\ AppliedOnce'
    BY SchemaQuiet DEF Record, database
  <2> QED
    BY <2>1, <2>2, <2>3, <2>4 DEF MigratorInv
<1> QED
  BY <1>1, <1>2 DEF Record

\* A commit adds a migration that nobody recorded, after all that come before it.
LEMMA CommitKeeps ==
  ASSUME MigratorInv, NEW s \in Server, Commit(s)
  PROVE  MigratorInv'
<1> DEFINE name == FirstName(todo[s])
<1>0. /\ pc[s] = "commit" /\ recorded' = recorded \cup {name}
      /\ schema' = Append(schema, name)
      /\ todo' = [todo EXCEPT ![s] = @ \ {name}]
      /\ pc' = [pc EXCEPT ![s] = "check"]
      /\ UNCHANGED <<item, absent, rows, faults>>
  BY DEF Commit
<1>1. /\ name \in todo[s] /\ name \in Migration /\ name \in Build[s] /\ name \notin recorded
      /\ \A n \in Build[s] : n < name => n \in recorded
  BY <1>0, NextMigration DEF MigratorInv, ServersInv, Passed, Alone
<1>2. /\ schema \in Seq(Migration) /\ Len(schema) \in Nat
      /\ DOMAIN schema = 1..Len(schema) /\ DOMAIN schema' = 1..(Len(schema) + 1)
      /\ \A i \in DOMAIN schema : schema'[i] = schema[i]
      /\ schema'[Len(schema) + 1] = name
  BY <1>0, <1>1, AppendProperties, LenProperties DEF MigratorInv, TypeOK
<1>3. TypeOK'
  BY <1>0, <1>1, AppendProperties DEF MigratorInv, TypeOK
<1>4. ServersInv'
  <2> SUFFICES ASSUME NEW t \in Server PROVE Passed(t)' /\ Alone(t)' /\ Seeded(t)'
    BY DEF ServersInv
  <2>1. CASE t = s
    BY <1>0, <1>1, <2>1 DEF MigratorInv, TypeOK, ServersInv, Passed, Alone, Seeded
  <2>2. CASE t # s
    BY <1>0, <1>1, <2>2 DEF MigratorInv, TypeOK, ServersInv, Passed, Alone, Seeded
  <2> QED
    BY <2>1, <2>2
<1>5. RowsToCome'
  BY <1>0, RowsQuiet DEF MigratorInv, TypeOK, Inserting
<1>6. \A n \in recorded : \E k \in DOMAIN schema : schema[k] = n
  BY DEF MigratorInv, AppliedOnce, ToSet
<1>7. InOrder'
  <2> SUFFICES ASSUME NEW i \in DOMAIN schema'
               PROVE  \E t \in Server :
                        /\ schema'[i] \in Build[t]
                        /\ \A n \in Build[t] : n < schema'[i] =>
                             \E k \in DOMAIN schema' : k < i /\ schema'[k] = n
    BY DEF InOrder
  <2>1. CASE i \in DOMAIN schema
    <3>1. PICK t \in Server :
            /\ schema[i] \in Build[t]
            /\ \A n \in Build[t] : n < schema[i] =>
                 \E k \in DOMAIN schema : k < i /\ schema[k] = n
      BY <2>1 DEF MigratorInv, InOrder
    <3> QED
      BY <1>2, <2>1, <3>1
  <2>2. CASE i = Len(schema) + 1
    <3>1. \A n \in Build[s] : n < schema'[i] =>
            \E k \in DOMAIN schema' : k < i /\ schema'[k] = n
      BY <1>1, <1>2, <1>6, <2>2
    <3> QED
      BY <1>1, <1>2, <2>2, <3>1
  <2> QED
    BY <1>2, <2>1, <2>2
<1>8. AppliedOnce'
  <2>1. ToSet(schema) = recorded /\ IsInjective(schema)
    BY DEF MigratorInv, AppliedOnce
  <2>2. ToSet(schema') = recorded'
    BY <1>0, <1>2, <2>1 DEF ToSet
  <2>3. \A i \in DOMAIN schema : schema[i] # name
    BY <1>1, <2>1 DEF ToSet
  <2>4. IsInjective(schema')
    BY <1>2, <2>1, <2>3 DEF IsInjective
  <2> QED
    BY <2>2, <2>4 DEF AppliedOnce
<1> QED
  BY <1>3, <1>4, <1>5, <1>7, <1>8 DEF MigratorInv
-----------------------------------------------------------------------------
(* The seed.                                                                *)

\* Where a server goes after a statement whose row is there.
LEMMA AdvanceSeeds ==
  ASSUME MigratorInv, NEW s \in Server, pc[s] \in {"seed", "insert"}, Advance(s),
         absent' \in [Server -> BOOLEAN], UNCHANGED <<todo, recorded, schema, faults>>,
         \A t \in Server \ {s} : absent'[t] = absent[t],
         rows' \in [Item -> Nat], \A i \in Item : rows[i] > 0 => rows'[i] > 0,
         rows'[item[s]] > 0
  PROVE  TypeOK' /\ ServersInv'
<1>1. pc' \in [Server -> {"down", "check", "execute", "record", "commit", "seed", "insert", "up"}]
  BY DEF MigratorInv, TypeOK, Advance
<1>2. item[s] \in 1..Len(SeedRows) /\ item' \in [Server -> Item]
  <2>1. item[s] \in 1..Len(SeedRows) /\ item \in [Server -> Item]
    BY SeedItems DEF MigratorInv, TypeOK
  <2>2. ~AtLast(s) => item[s] + 1 \in Item
    BY <2>1, SeedItems DEF AtLast
  <2> QED
    BY <2>1, <2>2 DEF Advance
<1>3. TypeOK'
  BY <1>1, <1>2 DEF MigratorInv, TypeOK
<1>4. ASSUME NEW t \in Server
      PROVE  Passed(t)' /\ Alone(t)' /\ Seeded(t)'
  <2>1. Passed(t)' /\ Alone(t)'
    BY DEF MigratorInv, TypeOK, Advance, ServersInv, Passed, Alone
  <2>2. ASSUME t = s PROVE Seeded(t)'
    <3>1. \A i \in Item : i <= item[s] => rows'[i] > 0
      BY <1>2, SeedItems DEF MigratorInv, TypeOK, ServersInv, Seeded
    <3>2. CASE AtLast(s)
      <4>1. pc'[s] = "up" /\ item'[s] = item[s]
        BY <3>2 DEF MigratorInv, TypeOK, Advance
      <4>2. \A i \in Item : rows'[i] > 0
        BY <3>1, <3>2, SeedItems DEF AtLast
      <4> QED
        BY <2>2, <4>1, <4>2 DEF Seeded
    <3>3. CASE ~AtLast(s)
      <4>1. pc'[s] = "seed" /\ item'[s] = item[s] + 1
        BY <3>3 DEF MigratorInv, TypeOK, Advance
      <4>2. \A i \in Item : i < item[s] + 1 => rows'[i] > 0
        BY <1>2, <3>1, SeedItems
      <4> QED
        BY <2>2, <4>1, <4>2 DEF Seeded
    <3> QED
      BY <3>2, <3>3
  <2>3. ASSUME t # s PROVE Seeded(t)'
    <3>1. pc'[t] = pc[t] /\ item'[t] = item[t] /\ absent'[t] = absent[t]
      BY <2>3 DEF MigratorInv, TypeOK, Advance
    <3>2. Seeded(t) /\ item[t] \in Item
      BY DEF MigratorInv, ServersInv, TypeOK
    <3>3. \A i \in Item : rows[i] > 0 => rows'[i] > 0
      OBVIOUS
    <3> QED
      BY <3>1, <3>2, <3>3 DEF Seeded
  <2> QED
    BY <2>1, <2>2, <2>3
<1> QED
  BY <1>3, <1>4 DEF ServersInv

LEMMA SeedUpsertKeeps ==
  ASSUME MigratorInv, NEW s \in Server, SeedUpsert(s)
  PROVE  MigratorInv'
<1>0. /\ pc[s] = "seed" /\ SeedRows[item[s]] = "upsert" /\ Advance(s)
      /\ rows' = [rows EXCEPT ![item[s]] = 1]
      /\ UNCHANGED <<todo, absent, recorded, schema, faults>>
  BY DEF SeedUpsert
<1>1. /\ item[s] \in Item /\ rows \in [Item -> Nat] /\ rows' \in [Item -> Nat]
      /\ absent \in [Server -> BOOLEAN]
  BY <1>0 DEF MigratorInv, TypeOK
<1>2. TypeOK' /\ ServersInv'
  BY <1>0, <1>1, AdvanceSeeds
<1>3. RowsToCome'
  <2> SUFFICES ASSUME NEW i \in Item
               PROVE  rows'[i] + Cardinality(Inserting(i)') <= Cardinality(Server)
    BY DEF RowsToCome
  <2>1. Inserting(i)' \subseteq Inserting(i)
    BY <1>0 DEF Inserting, Advance, MigratorInv, TypeOK
  <2>2. CASE i = item[s]
    <3>1. Inserting(i) = {}
      BY <1>0, <2>2 DEF Inserting, MigratorInv, ServersInv, Seeded
    <3>2. Cardinality(Inserting(i)') = 0
      BY <2>1, <3>1, FS_EmptySet
    <3>3. Cardinality({s}) = 1 /\ {s} \in SUBSET Server
      BY FS_Singleton
    <3>4. 1 <= Cardinality(Server) /\ Cardinality(Server) \in Nat
      BY <3>3, ServersFinite
    <3> QED
      BY <1>0, <1>1, <2>2, <3>2, <3>4
  <2>3. CASE i # item[s]
    <3>1. Inserting(i) \in SUBSET Server /\ Inserting(i)' \in SUBSET Inserting(i)
      BY <2>1 DEF Inserting
    <3>2. /\ Cardinality(Inserting(i)') <= Cardinality(Inserting(i))
          /\ Cardinality(Inserting(i)) \in Nat /\ Cardinality(Inserting(i)') \in Nat
          /\ Cardinality(Server) \in Nat
      BY <3>1, ServersFinite, FS_Subset, FS_CardinalityType
    <3> QED
      BY <1>0, <1>1, <2>3, <3>2 DEF MigratorInv, RowsToCome
  <2> QED
    BY <2>2, <2>3
<1>4. InOrder' /\ AppliedOnce'
  BY <1>0, SchemaQuiet
<1> QED
  BY <1>2, <1>3, <1>4 DEF MigratorInv

\* A server that looks is one of those that will insert only if it finds no row;
\* then nobody has inserted, and all servers together are few enough.
LEMMA SeedLookKeeps ==
  ASSUME MigratorInv, NEW s \in Server, SeedLook(s)
  PROVE  MigratorInv'
<1>0. /\ pc[s] = "seed" /\ SeedRows[item[s]] = "release"
      /\ absent' = [absent EXCEPT ![s] = NotExists(item[s])]
      /\ pc' = [pc EXCEPT ![s] = "insert"]
      /\ UNCHANGED <<todo, item, recorded, schema, rows, faults>>
  BY DEF SeedLook, database
<1>1. TypeOK'
  BY <1>0 DEF MigratorInv, TypeOK, NotExists
<1>2. ServersInv'
  <2> SUFFICES ASSUME NEW t \in Server PROVE Passed(t)' /\ Alone(t)' /\ Seeded(t)'
    BY DEF ServersInv
  <2>1. Passed(t)' /\ Alone(t)'
    BY <1>0 DEF MigratorInv, TypeOK, ServersInv, Passed, Alone
  <2>2. Seeded(t) /\ item[t] \in Item /\ rows \in [Item -> Nat]
    BY DEF MigratorInv, TypeOK, ServersInv
  <2>3. ASSUME t = s PROVE Seeded(t)'
    <3>1. pc'[s] = "insert" /\ absent'[s] = NotExists(item[s])
      BY <1>0 DEF MigratorInv, TypeOK
    <3>2. NotExists(item[s]) \/ rows[item[s]] > 0
      BY <2>2, <2>3 DEF NotExists
    <3> QED
      BY <1>0, <2>2, <2>3, <3>1, <3>2 DEF Seeded
  <2>4. ASSUME t # s PROVE Seeded(t)'
    <3>1. pc'[t] = pc[t] /\ absent'[t] = absent[t]
      BY <1>0, <2>4 DEF MigratorInv, TypeOK
    <3> QED
      BY <1>0, <2>2, <3>1 DEF Seeded
  <2> QED
    BY <2>1, <2>3, <2>4
<1>3. RowsToCome'
  <2> SUFFICES ASSUME NEW i \in Item
               PROVE  rows[i] + Cardinality(Inserting(i)') <= Cardinality(Server)
    BY <1>0 DEF RowsToCome
  <2>1. CASE rows[i] = 0
    <3>1. Inserting(i)' \in SUBSET Server
      BY DEF Inserting
    <3> QED
      BY <2>1, <3>1, ServersFinite
  <2>2. CASE rows[i] # 0
    <3>1. Inserting(i)' \subseteq Inserting(i)
      BY <1>0, <2>2 DEF Inserting, NotExists, MigratorInv, TypeOK
    <3>2. Inserting(i) \in SUBSET Server /\ Inserting(i)' \in SUBSET Inserting(i)
      BY <3>1 DEF Inserting
    <3>3. /\ Cardinality(Inserting(i)') <= Cardinality(Inserting(i))
          /\ Cardinality(Inserting(i)) \in Nat /\ Cardinality(Inserting(i)') \in Nat
          /\ Cardinality(Server) \in Nat
      BY <3>2, ServersFinite, FS_Subset, FS_CardinalityType
    <3> QED
      BY <3>3 DEF MigratorInv, TypeOK, RowsToCome
  <2> QED
    BY <2>1, <2>2
<1>4. InOrder' /\ AppliedOnce'
  BY <1>0, SchemaQuiet
<1> QED
  BY <1>1, <1>2, <1>3, <1>4 DEF MigratorInv

\* A server that inserts is no longer one of those that will.
LEMMA SeedInsertKeeps ==
  ASSUME MigratorInv, NEW s \in Server, SeedInsert(s)
  PROVE  MigratorInv'
<1>0. /\ pc[s] = "insert" /\ Advance(s)
      /\ rows' = [rows EXCEPT ![item[s]] = IF absent[s] THEN @ + 1 ELSE @]
      /\ absent' = [absent EXCEPT ![s] = FALSE]
      /\ UNCHANGED <<todo, recorded, schema, faults>>
  BY DEF SeedInsert
<1>1. /\ item[s] \in Item /\ rows \in [Item -> Nat] /\ rows' \in [Item -> Nat]
      /\ absent' \in [Server -> BOOLEAN]
      /\ rows'[item[s]] > 0 /\ \A i \in Item : rows[i] > 0 => rows'[i] > 0
      /\ \A t \in Server \ {s} : absent'[t] = absent[t]
  BY <1>0 DEF MigratorInv, TypeOK, ServersInv, Seeded
<1>2. TypeOK' /\ ServersInv'
  BY <1>0, <1>1, AdvanceSeeds
<1>3. RowsToCome'
  <2> SUFFICES ASSUME NEW i \in Item
               PROVE  rows'[i] + Cardinality(Inserting(i)') <= Cardinality(Server)
    BY DEF RowsToCome
  <2>1. Inserting(i)' \subseteq Inserting(i) \ {s}
    BY <1>0 DEF Inserting, Advance, MigratorInv, TypeOK
  <2>2. /\ Inserting(i) \in SUBSET Server
        /\ Inserting(i) \ {s} \in SUBSET Server
        /\ Inserting(i)' \in SUBSET (Inserting(i) \ {s})
    BY <2>1 DEF Inserting
  <2>3. /\ Cardinality(Inserting(i)') <= Cardinality(Inserting(i) \ {s})
        /\ Cardinality(Inserting(i) \ {s}) =
             IF s \in Inserting(i) THEN Cardinality(Inserting(i)) - 1
                                   ELSE Cardinality(Inserting(i))
        /\ Cardinality(Inserting(i)) \in Nat /\ Cardinality(Inserting(i)') \in Nat
        /\ Cardinality(Inserting(i) \ {s}) \in Nat /\ Cardinality(Server) \in Nat
    BY <2>2, ServersFinite, FS_Subset, FS_RemoveElement, FS_CardinalityType
  <2>4. rows[i] + Cardinality(Inserting(i)) <= Cardinality(Server)
    BY DEF MigratorInv, RowsToCome
  <2>5. CASE i = item[s] /\ absent[s]
    <3>1. s \in Inserting(i) /\ rows'[i] = rows[i] + 1
      BY <1>0, <1>1, <2>5 DEF Inserting
    <3> QED
      BY <1>1, <2>3, <2>4, <3>1
  <2>6. CASE ~(i = item[s] /\ absent[s])
    <3>1. rows'[i] = rows[i]
      BY <1>0, <1>1, <2>6
    <3> QED
      BY <1>1, <2>3, <2>4, <3>1
  <2> QED
    BY <2>5, <2>6
<1>4. InOrder' /\ AppliedOnce'
  BY <1>0, SchemaQuiet
<1> QED
  BY <1>2, <1>3, <1>4 DEF MigratorInv
-----------------------------------------------------------------------------
LEMMA NextKeepsMigrator == MigratorInv /\ [Next]_vars => MigratorInv'
<1> SUFFICES ASSUME MigratorInv, [Next]_vars PROVE MigratorInv'
  OBVIOUS
<1>1. CASE UNCHANGED vars
  <2>1. TypeOK' /\ ServersInv'
    BY <1>1 DEF MigratorInv, TypeOK, ServersInv, Passed, Alone, Seeded, vars, database
  <2>2. RowsToCome'
    BY <1>1, RowsQuiet DEF Inserting, vars, database
  <2>3. InOrder' /\ AppliedOnce'
    BY <1>1, SchemaQuiet DEF vars, database
  <2> QED
    BY <2>1, <2>2, <2>3 DEF MigratorInv
<1>2. ASSUME NEW s \in Server, Step(s)
      PROVE  MigratorInv'
  BY <1>2, StartKeeps, CheckKeeps, ExecuteKeeps, RecordKeeps, CommitKeeps,
     SeedUpsertKeeps, SeedLookKeeps, SeedInsertKeeps DEF Step
<1>3. ASSUME NEW s \in Server, Fault(s)
      PROVE  MigratorInv'
  BY <1>3, StopKeeps, FaultAssumption DEF Fault, MigratorInv, TypeOK
<1> QED
  BY <1>1, <1>2, <1>3 DEF Next

LEMMA MigratorInvariant == Spec => []MigratorInv
  BY InitMigrator, NextKeepsMigrator, PTL DEF Spec

\* A later migration can be smaller than an earlier one only if a build that has
\* the earlier one lacks it: with it, the build would have brought it first.
LEMMA OrderFollows == MigratorInv => OrderKept
<1> SUFFICES ASSUME MigratorInv, NEW i \in DOMAIN schema, NEW j \in DOMAIN schema,
                    i < j, schema[i] > schema[j]
             PROVE  \E s \in Server : schema[i] \in Build[s] /\ schema[j] \notin Build[s]
  BY DEF OrderKept
<1>1. /\ schema \in Seq(Migration) /\ DOMAIN schema = 1..Len(schema)
      /\ schema[i] \in Nat /\ schema[j] \in Nat
  BY MigrationNumbers, LenProperties, ElementOfSeq DEF MigratorInv, TypeOK
<1>2. PICK s \in Server :
        /\ schema[i] \in Build[s]
        /\ \A n \in Build[s] : n < schema[i] => \E k \in DOMAIN schema : k < i /\ schema[k] = n
  BY DEF MigratorInv, InOrder
<1>3. schema[j] \notin Build[s]
  <2> SUFFICES ASSUME schema[j] \in Build[s] PROVE FALSE
    OBVIOUS
  <2>1. PICK k \in DOMAIN schema : k < i /\ schema[k] = schema[j]
    BY <1>1, <1>2
  <2>2. k = j
    BY <2>1 DEF MigratorInv, AppliedOnce, IsInjective
  <2> QED
    BY <1>1, <2>1, <2>2
<1> QED
  BY <1>2, <1>3

\* Every variable keeps its type: no server takes a migration its build lacks.
THEOREM MigratorTypeCorrect == Spec => []TypeOK
<1>1. MigratorInv => TypeOK
  BY DEF MigratorInv
<1> QED
  BY <1>1, MigratorInvariant, PTL

\* However many servers start at the same time and wherever they die, each
\* migration is committed once and with its record (postgres.go 39-64).
THEOREM EachAppliedOnce == Spec => []AppliedOnce
<1>1. MigratorInv => AppliedOnce
  BY DEF MigratorInv
<1> QED
  BY <1>1, MigratorInvariant, PTL

\* Whatever builds start, in any order, migrations are committed in the order of
\* names, but for those an older build did not have (postgres.go 35).
THEOREM OrderIsKept == Spec => []OrderKept
  BY MigratorInvariant, OrderFollows, PTL

\* A server listens only on a database that has all its build asks for.
THEOREM UpIsReady == Spec => []UpMeansReady
<1>1. MigratorInv => UpMeansReady
  <2> SUFFICES ASSUME MigratorInv, NEW s \in Server, pc[s] = "up"
               PROVE  Build[s] \subseteq recorded /\ \A i \in Item : rows[i] > 0
    BY DEF UpMeansReady
  <2>1. Passed(s) /\ Seeded(s)
    BY DEF MigratorInv, ServersInv
  <2> QED
    BY <2>1 DEF Passed, Seeded
<1> QED
  BY <1>1, MigratorInvariant, PTL

\* For any number of restarts, no statement of the seed leaves more rows than
\* there are servers (demo.go 134-141).
THEOREM SeedDoesNotPileUp == Spec => []SeededPerServer
<1>1. MigratorInv => SeededPerServer
  <2> SUFFICES ASSUME MigratorInv, NEW i \in Item PROVE rows[i] <= Cardinality(Server)
    BY DEF SeededPerServer
  <2>1. Inserting(i) \in SUBSET Server
    BY DEF Inserting
  <2>2. /\ Cardinality(Inserting(i)) \in Nat /\ Cardinality(Server) \in Nat
        /\ rows[i] \in Nat /\ rows[i] + Cardinality(Inserting(i)) <= Cardinality(Server)
    BY <2>1, ServersFinite DEF MigratorInv, TypeOK, RowsToCome
  <2> QED
    BY <2>2
<1> QED
  BY <1>1, MigratorInvariant, PTL
=============================================================================
