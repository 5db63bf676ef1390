\* Two hosts, one of another kind and one message, with at most one damaged byte.
CONSTANTS
  Station <- MCStation
  Outsider <- MCOutsider
  Port = {7}
  Data <- MCData
  Damage = {1}
SPECIFICATION Spec
INVARIANTS
  ArrivesAsSent
  SocketsGetWhatWasSent
  ChecksumsVerify
  AnswersRight
CHECK_DEADLOCK FALSE
