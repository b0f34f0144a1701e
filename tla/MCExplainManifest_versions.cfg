SPECIFICATION Spec
CONSTANTS
  Packages <- MCPackages
  Arguments <- MCArguments
  Reference <- MCReference
INVARIANTS
  VersionsBelowMax
CHECK_DEADLOCK FALSE
