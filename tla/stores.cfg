SPECIFICATION StoresSpec
CONSTANTS
  Tasks = {t1, t2}
  BatchSize = 1
  QueueCapacity = 2
  MaxTime = 4
  MaxRuns = 2
  TrafficTime = 1
  MaxDatagrams = 2
INVARIANTS
  SessionIdsOfOneRun
  CopiesAgree

  
