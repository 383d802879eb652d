CONSTANTS
  Byte <- MCByte
  LineMax = 3
  HdrMax = 4
  IncBufSize = 9
  IncMaxFiles = 2
  SrcBufSize = 7
  Transmissions <- MCTransmissions
  Noise <- MCNoise
SPECIFICATION Spec
INVARIANTS TypeOK ScreenMatchesLine
PROPERTIES TransmissionRead FilesStay
CHECK_DEADLOCK FALSE
