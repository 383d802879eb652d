CONSTANTS
  ChunkMax <- MCChunkMax
  PerChunk <- MCPerChunk
  MaxLines <- MCMaxLines
  MaxCompiles <- MCMaxCompiles
SPECIFICATION Spec
CHECK_DEADLOCK FALSE
INVARIANTS TypeOK NodesHaveTheirOwnSlots NothingLost
