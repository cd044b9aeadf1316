SPECIFICATION FairSpec
CONSTANTS
  r1 = r1
  r2 = r2
  s1 = s1
  Reloaders = {r1, r2}
  Sessions = {s1}
  Configs <- MCConfigs
  Buildable <- MCBuildable
  InvalidFile = InvalidFile
  NoConfig = NoConfig
  NoOne = NoOne
  Retained = 2
  AuditLimit = 2
  MaxRequests = 2
INVARIANTS
  CommitNeverConflicts AllOrNothing AuditChain
PROPERTIES ImplementsPinned RequestAnswered
