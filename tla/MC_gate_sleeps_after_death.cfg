\* A signal ends one thread's sleep in the handshake gate; another thread reaches the gate later.
CONSTANTS
  Req = {r1, r2}
  Slot = {s1, s2, s3}
  NoSlot = NoSlot
  MaxOps <- MCMaxOps
  MaxFree <- MCMaxFreeUnlimited
  Replies <- MCRepliesOk
  TimeoutOn = FALSE
  NoAlerts = FALSE
  AnswerSignals = FALSE
  GateSignals = TRUE
  AllocCanFail = FALSE
  TornTicketer = FALSE
  InterruptOn = FALSE
  MaxTickets = 0
  DaemonCloses = FALSE
  InitTimeoutOn = FALSE
  CanfailReq = {}
SPECIFICATION Spec
PROPERTY GateEventuallyPasses
CHECK_DEADLOCK FALSE
