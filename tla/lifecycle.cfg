SPECIFICATION LifecycleSpec
CONSTANTS
  admin = admin
  supervisor = supervisor
  Operators = {admin}
  Supervisor = supervisor
  Contested = {"rule6", "router", "table"}
  MaxInvocations = 3
  MaxTroubles = 2
  Tasks = 2
  QueueCapacity = 1
  ReloadTime = 2
  MaxObservations = 2
INVARIANTS
  MarkedIsRouted CleanupIsComplete RollbackIsExact
  CleanExitFlushed  ExitsInBudget
PROPERTIES
  ForeignIsKept ShutdownCompletes
CHECK_DEADLOCK FALSE
