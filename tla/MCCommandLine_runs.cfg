\* Two commands, with a file saved and a second passing at any point.
CONSTANTS
  NameOrder <- MCNameOrder
  Arguments <- MCArguments
  ConfigPaths <- MCConfigPaths
  FirstDisk <- MCDisk
  Saves <- MCSaves
  Walks <- MCWalks
  MaxRuns = 2
  MaxSaves = 1
  MaxClock = 1
CHECK_DEADLOCK FALSE
SPECIFICATION Spec
INVARIANTS CommandTypeOK UsageErrorIsHopeless ByteStable DecodesWhatWasMinted DiscoveryAnnouncesClaims
