SPECIFICATION FairInstall
CONSTANTS
  Configs <- OneOrTwo
  Pcts <- FromPercent
  Word = 65536
  MaxCalls = 1
  Names <- TwoNames
  Entries <- OneAndTwo
  Published <- AnyManifest
INVARIANTS
  SuccessMeansInstalled
  OnlyVerified
PROPERTIES
  NothingAfterFailure
  InstallEnds
