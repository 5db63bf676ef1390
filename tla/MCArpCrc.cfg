\* The peer runs the same program, so its CRC stands before the padding.
CONSTANTS
  Thread = {t1}
  LocalIp = local
  PeerIp = {peer}
  Mac = {m0, m1, m2}
  LocalMac = m0
  Broadcast = all
  CacheTtl = 1
  MaxRetries = 2
  ReplyTimeout = 1
  MaxDelay = 1
  PaddedFirst = FALSE
  MaxWire = 1
SPECIFICATION Spec
INVARIANTS
  AnswersRequests
CHECK_DEADLOCK FALSE
