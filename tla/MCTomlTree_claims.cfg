\* Persona files with custom claims.
CONSTANTS
  TablePaths <- PersonaTablePaths
  ArrayPaths <- PersonaArrayPaths
  KeyValues <- PersonaKeyValues
  MaxLines = 6
SPECIFICATION Spec
INVARIANT ClaimsForEveryPersona
CHECK_DEADLOCK FALSE
