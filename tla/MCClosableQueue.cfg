\* Two frame contents and a capacity below MaxPush: the queue fills, empties and refills.
CONSTANTS
  Frame = {f1, f2}
  Consumer = {c1, c2}
  Capacity = 2
  MaxPush = 4
SPECIFICATION Spec
INVARIANTS
  TypeOK
  NoLostWakeup
  DrainedWhenDone
PROPERTIES
  ImplementsChannel
  CloseReleasesAll
  EveryAcceptedPopped
CHECK_DEADLOCK FALSE
