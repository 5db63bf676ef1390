\* Two sockets that may come to share a port; two threads read and close them while the
\* worker enqueues.  The port counter wraps after them.
CONSTANTS
  Thread = {t1, t2}
  Ip = {local, any, broadcast}
  LocalIp = local
  AnyIp = any
  Broadcast = broadcast
  BindTo <- MCBindTo
  Datagram <- MCDatagram
  PortRange = 4
  FirstPort = 2
  MaxSockets = 2
  MaxDatagrams = 2
SPECIFICATION Spec
INVARIANTS
  TypeOK
  NoLostWakeup
  ClosedIsGone
PROPERTIES
  Addressed
  ImplementsChannels
  CloseReleases
  NobodySleepsOnData
CHECK_DEADLOCK FALSE
