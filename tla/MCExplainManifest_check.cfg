SPECIFICATION Spec
CONSTANTS
  Packages <- MCPackages
  Arguments <- MCArguments
  Reference <- MCReference
INVARIANTS
  TypeOK
  PassMeansHolds
  FailuresAreReal
  LeftBehindExplained
  ManifestDelivered
CHECK_DEADLOCK FALSE
