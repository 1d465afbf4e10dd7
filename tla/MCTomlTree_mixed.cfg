\* Any mixture of headers and keys.  The parser stops at the end of the
\* file and at the first error.
CONSTANTS
  TablePaths <- MCTablePaths
  ArrayPaths <- MCArrayPaths
  KeyValues <- MCKeyValues
  MaxLines = 6
SPECIFICATION Spec
INVARIANTS TreeTypeOK LandsUnderItsHeader NoTableReopened
PROPERTIES NothingOverwritten
CHECK_DEADLOCK FALSE
