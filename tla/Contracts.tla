------------------------------ MODULE Contracts ------------------------------
(***************************************************************************)
(* The contracts of a service: what the handler Get and the parser of      *)
(* project.proto make of the file in the repository, while developers go   *)
(* on writing it.                                                          *)
(*                                                                         *)
(* The parser finds bodies, rpcs and fields with regular expressions: a    *)
(* body ends at the first closing brace, a field of some forms is missed,  *)
(* and text that is no field there may be taken for one. What it finds it  *)
(* unfolds into a tree that has to end although types may contain each     *)
(* other.                                                                  *)
(***************************************************************************)
EXTENDS Naturals, SequencesExt, FiniteSetsExt

CONSTANTS
  Message,   \* names of the messages at the top of the file
  Scalar,    \* every other type, and every other way to write one (pkg.Name)
  Missing,   \* there is no project.proto
  RpcText,   \* what developers write into the service
  FieldText, \* and into a message
  MaxItems   \* bound on the rpcs and fields in the file

ASSUME NameAssumption == Scalar \notin Message
ASSUME ItemsAssumption == MaxItems \in Nat

Type == Message \cup {Scalar}

\* What the text of a body is to fieldRe or rpcRe, each on a line of its own:
\*   plain      a field or rpc they match;
\*   unmatched  one they miss: optional, map<K, V>, a field with [options], the
\*              second of a line; an rpc with `returns(' or of another service;
\*   stray      what they match though the file has no such field or rpc there: in
\*              a comment between /* and */, a field of a message declared inside.
Form == {"plain", "unmatched", "stray"}

\* A closing brace of its own: after the options of an rpc, of a oneof, an enum or
\* a message declared inside.
Brace == [form |-> "brace"]
Rpc == [form : Form, input : Type, output : Type] \cup {Brace}
Field == [form : Form, type : Type] \cup {Brace}

ASSUME TextAssumption == RpcText \subseteq Rpc /\ FieldText \subseteq Field

VARIABLES
  service,   \* the body of the service, Missing without a file
  declared,  \* the messages the file declares
  fields     \* fields[m]: the body of message m

fileVars == <<service, declared, fields>>

FileInit ==
  /\ service = Missing
  /\ declared = {}
  /\ fields = [m \in Message |-> <<>>]
-----------------------------------------------------------------------------
(* Developers.                                                              *)

Items == IF service = Missing THEN 0
         ELSE Len(service) + FoldSet(LAMBDA m, n : n + Len(fields[m]), 0, Message)

AddFile ==
  /\ service = Missing
  /\ service' = <<>>
  /\ UNCHANGED <<declared, fields>>

AddRpc(rpc) ==
  /\ service # Missing /\ Items < MaxItems
  /\ service' = Append(service, rpc)
  /\ UNCHANGED <<declared, fields>>

AddMessage(m) ==
  /\ service # Missing /\ m \notin declared
  /\ declared' = declared \cup {m}
  /\ UNCHANGED <<service, fields>>

AddField(m, field) ==
  /\ m \in declared /\ Items < MaxItems
  /\ fields' = [fields EXCEPT ![m] = Append(@, field)]
  /\ UNCHANGED <<service, declared>>

FileNext ==
  \/ AddFile
  \/ \E rpc \in RpcText : AddRpc(rpc)
  \/ \E m \in Message : AddMessage(m) \/ \E field \in FieldText : AddField(m, field)

FileSpec == FileInit /\ [][FileNext]_fileVars
-----------------------------------------------------------------------------
(* The parser.                                                              *)

\* Where a body, taken to end at the first closing brace, has a match.
Found(items) ==
  {i \in DOMAIN items : /\ items[i].form \in {"plain", "stray"}
                        /\ \A j \in 1 .. i - 1 : items[j] # Brace}

\* parseMessages: the fields of each message that are found.
SeenFields == [m \in declared |-> Found(fields[m])]

\* A node of the tree: the i-th field of message m. The tree is the set of its
\* paths from the root.
Node(m, i) == [message |-> m, field |-> i]

\* What is on the way to the i-th field of m when its type is unfolded. The
\* map is one for the whole tree, but an entry is deleted when its message is
\* done with.
VisitedForGood(visited, m, i) ==
  visited \cup {m} \cup {fields[m][j].type : j \in {l \in SeenFields[m] : l < i}}
Visited(visited, m, i) == visited \cup {m}

\* expandParameters: the fields below each type. A type that is being unfolded
\* already shows its fields and nothing below them.
Expand[visited \in SUBSET Type] ==
  [m \in Type |->
     IF m \notin declared THEN {}
     ELSE UNION { {<<Node(m, i)>>} \cup
                  IF m \in visited THEN {}
                  ELSE { <<Node(m, i)>> \o path :
                           path \in Expand[Visited(visited, m, i)][fields[m][i].type] } :
                  i \in SeenFields[m] }]

BuildMessageSpec(m) == Expand[{}][m]

\* The methods that are found; a method's types are unfolded apart.
ParseProjectProto ==
  [k \in Found(service) |->
     [input |-> BuildMessageSpec(service[k].input),
      output |-> BuildMessageSpec(service[k].output)]]

\* ReadProjectProto reads one version of the file, or finds none.
ProtoFound == service # Missing

\* Get: no file is a 404, no rpc a 400.
Answer ==
  IF ~ProtoFound THEN [code |-> 404]
  ELSE IF Found(service) = {} THEN [code |-> 400]
  ELSE [code |-> 200, methods |-> ParseProjectProto]
-----------------------------------------------------------------------------
(* What a reader of the file would list.                                    *)

IsField(item) == item.form \in {"plain", "unmatched"}

FileNodes ==
  UNION {{Node(m, i) : i \in {j \in DOMAIN fields[m] : IsField(fields[m][j])}} : m \in declared}

\* What the parser finds instead.
FoundNodes == UNION {{Node(m, i) : i \in SeenFields[m]} : m \in declared}

TypeOf(node) == fields[node.message][node.field].type

\* The ways into the types below a message, over these fields, that enter no type
\* twice, except that the last field may belong to one entered before.
Paths(nodes, m) ==
  {path \in SeqOf(nodes, Cardinality(declared) + 1) :
     /\ path # <<>>
     /\ path[1].message = m
     /\ \A k \in 1 .. Len(path) - 1 : path[k + 1].message = TypeOf(path[k])
     /\ \A j, k \in 1 .. Len(path) - 1 : path[j].message = path[k].message => j = k}

Plain(items) == \A i \in DOMAIN items : items[i].form = "plain"
FileIsPlain == Plain(service) /\ \A m \in declared : Plain(fields[m])

\* Whatever types contain one another, the answer unfolds what the regular
\* expressions found completely: below every method each field found, each type
\* until it comes again, however often it is used beside another (parser.go
\* 75-112). What they find is the file only for a file of plain rpcs and fields
\* without inner braces: then all methods are there with all their fields.
TreeShowsFields ==
  Answer.code = 200 =>
    /\ \A k \in DOMAIN Answer.methods :
         LET rpc == service[k]
             method == Answer.methods[k]
         IN  /\ method.input = Paths(FoundNodes, rpc.input)
             /\ method.output = Paths(FoundNodes, rpc.output)
             /\ FileIsPlain => /\ method.input = Paths(FileNodes, rpc.input)
                               /\ method.output = Paths(FileNodes, rpc.output)
    /\ FileIsPlain => DOMAIN Answer.methods = DOMAIN service
=============================================================================
