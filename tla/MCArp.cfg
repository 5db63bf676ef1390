\* One caller and one peer that moves between two adapters, every time at its smallest.
CONSTANTS
  Thread = {t1}
  LocalIp = local
  PeerIp = {peer}
  Mac = {m0, m1, m2}
  LocalMac = m0
  Broadcast = all
  CacheTtl = 1
  MaxRetries = 2
  ReplyTimeout = 1
  MaxDelay = 1
  PaddedFirst = TRUE
  MaxWire = 1
SPECIFICATION Spec
INVARIANTS
  ArpTypeOK
  GivesUpLate
PROPERTIES
  AnswersAreRecent
  CallsReturn
CHECK_DEADLOCK FALSE
