\* One host, restarted after its first datagram.
CONSTANTS
  Host = {h1}
  Length = {36, 40}
  MaxFragmentPayload = 20
  OffsetRange = 16
  HeaderLen = 60
  IdentRange = 2
  MaxDatagrams = 2
  FragmentTimeout = 1
  MaxTime = 0
SPECIFICATION RestartSpec
INVARIANT
  Integrity
CHECK_DEADLOCK FALSE
