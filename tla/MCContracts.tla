----------------------------- MODULE MCContracts -----------------------------
(* A bounded instance of Contracts for TLC.                                   *)
EXTENDS Contracts

\* Plain rpcs on messages and plain fields of every type; fields the parser adds of
\* every type, and fields it misses of a message; rpcs it misses or adds; braces.
MCRpcText ==
  [form : {"plain"}, input : Message, output : Type] \cup
  [form : {"unmatched", "stray"}, input : {Scalar}, output : {Scalar}] \cup {Brace}
MCFieldText ==
  [form : {"plain", "stray"}, type : Type] \cup [form : {"unmatched"}, type : Message] \cup
  {Brace}

Symmetry == Permutations(Message)
=============================================================================
