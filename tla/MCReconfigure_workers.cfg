SPECIFICATION FairSpec
CONSTANTS
  w1 = w1
  a = a
  b = b
  NoHash = NoHash
  Workers = {w1}
  Routes = {a, b}
  Configs <- ThreeConfigs
  FailingPosts = TRUE
  MaxLoads = 4
INVARIANTS
  TypeOK
  WorkersServeConfig
PROPERTIES
  WorkersCatchUp
