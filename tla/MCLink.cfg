CONSTANTS
  ByteBase <- MCByteBase
  Symbols <- MCSymbols
  Underscored <- MCUnderscored
  Programs <- MCPrograms
  EntryPlaces <- MCEntryPlaces
  Handmade <- MCHandmade
SPECIFICATION Spec
INVARIANTS LinkTypeOK SymbolsExact OwnBytesKept LinkedMeans RefusedOnlyIfUnsound
