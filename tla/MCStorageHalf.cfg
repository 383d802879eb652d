CONSTANTS
  x = x
  y = y
  z = z
  P = P
  Q = Q
  f = f
  g = g
  Names <- MCNames
  Joined <- MCJoined
  FieldNames <- MCFieldNames
  Procs <- MCProcs
  Bare <- MCBare
  Decls <- HalfDecls
  Params <- MCParams
  ScopeMax <- MCScopeMax
  TDescMax <- MCTDescMax
  FieldMax <- MCFieldMax
  MaxGlobals <- MCMaxGlobals
  MaxParams <- MCMaxParams
  MaxLocals <- MCMaxLocals
  Library <- MCLibrary
SPECIFICATION Spec
INVARIANTS AssignmentsStayPut
