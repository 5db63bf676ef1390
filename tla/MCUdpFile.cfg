\* Four datagrams: a whole file and one or two more, doubled, damaged or of the other sender.
CONSTANTS
  s1 = s1
  s2 = s2
  Receiver = receiver
  Sender = {s1, s2}
  Chunks <- MCChunks
  Junk <- MCJunk
  Ip = {local, any}
  LocalIp = local
  AnyIp = any
  ListenPort = 1
  FirstPort = 2
  PortRange = 4
  MaxDatagrams = 4
SPECIFICATION Spec
INVARIANTS
  FileTypeOK
  WholeOfOne
PROPERTIES
  EndsWhenAllQueued
CHECK_DEADLOCK FALSE
