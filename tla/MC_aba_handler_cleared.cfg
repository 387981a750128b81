\* Signals during the reply wait; a reply whose buffer cannot be grown kills its ticket.
CONSTANTS
  Req = {r1, r2}
  Slot = {s1, s2, s3}
  NoSlot = NoSlot
  MaxOps <- MCMaxOps
  MaxFree <- MCMaxFreeUnlimited
  Replies <- MCRepliesOk
  TimeoutOn = FALSE
  NoAlerts = FALSE
  AnswerSignals = TRUE
  GateSignals = FALSE
  AllocCanFail = TRUE
  TornTicketer = FALSE
  InterruptOn = FALSE
  MaxTickets = 0
  DaemonCloses = FALSE
  InitTimeoutOn = FALSE
  CanfailReq = {}
SPECIFICATION Spec
INVARIANT WaiterKeepsHandler
CHECK_DEADLOCK FALSE
