CONSTANTS
  a = a
  b = b
  w = w
  c = c
  None = none
  Modules = {a, b}
  Threads = {w, c}
  MayAsk <- AskChain
  MayNotify <- NotifyChain
  MayAttach <- Joins
  MayExit = {c}
  MaxPackets = 1
  MaxSignals = 1
  Waiter = a
  Sender = b
SPECIFICATION MCSpec
CHECK_DEADLOCK FALSE
INVARIANTS
  MdispTypeOK
  OnePlace
PROPERTIES
  OwnAnswer
  AnswerNotTorn
  ImplementsRendezvous
  SelftestEnds
