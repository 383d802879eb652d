CONSTANTS
  Chars <- MCChars
  BufSize <- MCBufSize
  Cleared <- MCCleared
  MaxText <- MCMaxText
SPECIFICATION Spec
INVARIANTS TypeOK VerdictMatchesDiagnostics
PROPERTIES ImplementsContract
