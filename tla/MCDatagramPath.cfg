\* Two datagrams: of one host, or of two hosts with the same identification.
CONSTANTS
  Host = {h1, h2}
  Length = {20, 40}
  MaxFragmentPayload = 20
  OffsetRange = 16
  HeaderLen = 60
  IdentRange = 2
  MaxDatagrams = 2
  FragmentTimeout = 2
  MaxTime = 3
SPECIFICATION Spec
INVARIANTS
  Integrity
  FragmentsTile
PROPERTIES
  ReturnsWhenComplete
CHECK_DEADLOCK FALSE
