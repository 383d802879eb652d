SPECIFICATION FairSpec
CONSTANTS
  Bits = 4
  ByteBits = 2
  Statics <- MCStatics
  ByteVars <- MCByteVars
  WordVars <- None
  Arrays <- MCArrays
  Dim <- MCDim
  Programs <- MCPrograms
  Fuel = 12
INVARIANTS MeansSource StackLevel
PROPERTY Ends
