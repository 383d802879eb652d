CONSTANTS
  Trees <- MCTrees
  Texts <- MCTexts
SPECIFICATION Spec
INVARIANTS TreeOfText NothingSkipped
PROPERTY Ends
CHECK_DEADLOCK FALSE
