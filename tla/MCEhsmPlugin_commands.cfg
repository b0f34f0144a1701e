SPECIFICATION Spec
CONSTANTS
  Workers = {w1, w2}
  MaxEnrolled = 2
  MaxCreated = 1
  MaxEncrypted = 1
SYMMETRY WorkerSymmetry
INVARIANTS
  TypeOK
  CredPairs
  FilesExplained
