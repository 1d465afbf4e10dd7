\* Up to three edits of a file, loaded after any of them.
CONSTANTS
  HttpURLs <- MCHttpURLs
  SlashURLs <- MCSlashURLs
  AbsoluteURLs <- MCAbsoluteURLs
  FragmentURLs <- MCFragmentURLs
  DurationOf <- MCDurationOf
  InstantOf <- MCInstantOf
  ReservedClaims <- MCReserved
  FirstFile <- MCFile
  Edits <- MCEdits
  ClaimOrders <- MCClaimOrders
  Values <- MCValues
  MaxEdits = 3
SPECIFICATION Spec
INVARIANTS FileTypeOK ReportsAreTrue LoadsOnlyFaultless LoadedIsDeployable EveryEntryIsFound
PROPERTIES NoEditIgnored
