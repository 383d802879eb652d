SPECIFICATION Spec
CONSTANTS
  main = main
  lib = lib
  ghost = ghost
  a = a
  A = A
  b = b
  one = one
  two = two
  none = none
  Files <- MCFiles
  Main = main
  Names <- MCNames
  Fold <- MCFold
  Values <- MCValues
  Empty = none
  Items <- MCItems
  Texts <- DeepTexts
  IncMaxDepth <- MCIncMaxDepth
  DefMax <- MCDefMax
  CondMax <- MCCondMax
  IterMax <- MCIterMax
INVARIANT EmittingMeansAllTrue
