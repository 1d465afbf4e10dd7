\* Files of up to two lines in every layout, and with every fault.
CONSTANTS
  Lines <- MCLines
  MaxLines = 2
SPECIFICATION FairSpec
INVARIANTS ScanTypeOK ReadsBack FaultsAreRefused
PROPERTIES ReaderStops
CHECK_DEADLOCK FALSE
