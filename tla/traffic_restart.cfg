SPECIFICATION Spec
CONSTANTS
  MaxTime = 2
  MaxDatagrams = 1
INVARIANTS
  RestartPreserves
