SPECIFICATION Spec
CHECK_DEADLOCK FALSE
CONSTANTS
  Workers = {"w1"}
  Conns = {"c1", "c2"}
  Callers = {"grace"}
  Faults = {}
  MaxStarts = 2
PROPERTIES GraceSparesVisitors
