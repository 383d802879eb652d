CONSTANTS
  Chars <- MCChars
  BufSize <- MCBufSize
  Cleared <- MCCleared
  MaxText <- MCMaxText
SPECIFICATION Spec
INVARIANT ShortEmissionIsReturned
