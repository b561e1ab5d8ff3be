SPECIFICATION FileSpec
CONSTANTS
  Message = {m1, m2, m3}
  Scalar = Scalar
  Missing = Missing
  RpcText <- MCRpcText
  FieldText <- MCFieldText
  MaxItems = 4
SYMMETRY Symmetry
INVARIANTS
  TreeShowsFields
CHECK_DEADLOCK FALSE
