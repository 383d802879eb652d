CONSTANTS
  ByteBase <- MCByteBase
  Symbols <- MCSymbols
  Underscored <- MCUnderscored
  Programs <- NoPrograms
  EntryPlaces <- MCEntryPlaces
  Handmade <- StaleHandmade
SPECIFICATION Spec
INVARIANT OutOfRangeRefused
