\* Two datagrams in two fragments each: one that fits, one whose total length
\* overflows 16 bits (here 6) and panics the worker.
CONSTANTS
  Host = {h1}
  Length = {24, 36}
  MaxFragmentPayload = 20
  OffsetRange = 8
  HeaderLen = 36
  IdentRange = 2
  MaxDatagrams = 2
  FragmentTimeout = 1
  MaxTime = 1
  Worker = w
  Capacity = 2
  MaxPush = 3
  Foreign = foreign
SPECIFICATION RecvSpec
INVARIANT
  ReturnsAfterWorker
PROPERTIES
  ImplementsPath
  ArrivedIsHandedUp
  ReceptionEnds
CHECK_DEADLOCK FALSE
