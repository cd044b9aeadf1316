SPECIFICATION SelectionSpec
CONSTANTS
  n1 = n1
  n2 = n2
  g1 = g1
  g2 = g2
  g3 = g3
  Direct = Direct
  Names <- MCNames
  Seeds <- MCSeeds
  Targets <- MCTargets
  Rollout = {g1}
  MemberCount = 2
  Tasks = {t1, t2}
  Upstreams = {x1, x2}
  MinSuccess = 600
  MinSamples = 1
  MaxActive = 1
  Limit = 2
INVARIANTS
  ValidatorExact
  SelectionSound
PROPERTIES
  SeedWalksEnd
  
  
  EveryNodeRetried
