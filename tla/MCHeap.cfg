CONSTANTS
  Base <- MCBase
  HeapSize <- MCHeapSize
  Sizes <- MCSizes
  Marks <- MCMarks
  Forges <- MCForges
SPECIFICATION LifoSpec
INVARIANTS TypeOK HeapTiled FreeListExact SentinelExact LifoStaysWhole
PROPERTIES OomIsHonest ImplementsContract CallsReturn
