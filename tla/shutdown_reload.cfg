SPECIFICATION ProcessSpec
CONSTANTS
  Tasks = 1
  QueueCapacity = 1
  ReloadTime = 2
  MaxObservations = 1
INVARIANTS
  GracefulWithinBudget
