CONSTANTS
  Base <- MCBase
  HeapSize <- MCHeapSize
  Sizes <- MCSizes
  Marks <- MCMarks
  Forges <- MCForges
SPECIFICATION LifoSpec
INVARIANT RequestedLengthFrees
