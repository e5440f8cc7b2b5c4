SPECIFICATION FairSpec
CONSTANTS
  IsFile <- ShortOrEnded
  Characters <- Letters
  MaxLength = 6
  FlagSets <- AnyFlags
  Tables <- AnyTable
INVARIANTS
  NothingLost
  FitsBuffers
PROPERTIES
  Terminates
