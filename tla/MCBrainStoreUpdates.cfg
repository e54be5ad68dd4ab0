\* Checks UpdatesArrive.
SPECIFICATION Spec
CONSTANTS
  Requests = {"ends", "begins", "cli"}
  StoreOf <- MCStoreOf
  Registered = {"registry"}
  Kinds <- MCKinds
  Authored <- MCAuthored
  Mapped <- MCMapped
  Failing = FALSE
  MaxStarts = 3
CHECK_DEADLOCK FALSE
PROPERTY UpdatesArrive
