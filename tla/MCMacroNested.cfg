SPECIFICATION Spec
CONSTANTS
  Programs <- NestedPrograms
  MaxNesting <- MCNesting
  MacroMax = 4
  ClauseMax = 3
  GenMax = 2
  GenLines = 3
  BodyMax = 30
  ExpandMax = 40
  IncMaxDepth = 4
INVARIANT Expands
