SPECIFICATION EncodingSpec
CONSTANTS
  LastAddress = 10
  Programs <- MCPrograms
  EntryLists <- MCEntries
  Sources <- MCSources
  Listings <- MCListings
INVARIANTS
  ReentryIsLeader
  GraphExact
  DecoderFaithful
  AssemblesBack
PROPERTIES
  BothTerminate
CHECK_DEADLOCK FALSE
