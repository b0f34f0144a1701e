SPECIFICATION Spec
CONSTANTS
  w1 = w1
  a = a
  b = b
  NoHash = NoHash
  Workers = {w1}
  Routes = {a, b}
  Configs <- TwoUpstreams
  FailingPosts = FALSE
  MaxLoads = 1
INVARIANTS
  BalancerReinitialized
