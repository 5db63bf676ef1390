\* The worker can lag behind, die at once, or die on any frame.
CONSTANTS
  Worker = worker
  Capacity = 2
  MaxFragments = 4
SPECIFICATION Spec
INVARIANTS
  OkMeansSent
  ShortPayloadsNotRefused
PROPERTIES
  SendReturns
  UsesSendQueue
CHECK_DEADLOCK FALSE
