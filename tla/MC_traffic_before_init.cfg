\* Two threads issue operations while the INIT handshake is under way.
CONSTANTS
  Req = {r1, r2}
  Slot = {s1, s2, s3}
  NoSlot = NoSlot
  MaxOps <- MCMaxOps
  MaxFree <- MCMaxFreeUnlimited
  Replies <- MCRepliesOk
  TimeoutOn = FALSE
  NoAlerts = FALSE
  AnswerSignals = FALSE
  GateSignals = FALSE
  AllocCanFail = FALSE
  TornTicketer = FALSE
  InterruptOn = FALSE
  MaxTickets = 0
  DaemonCloses = FALSE
  InitTimeoutOn = FALSE
  CanfailReq = {}
SPECIFICATION Spec
INVARIANT NoTrafficBeforeHandshake
CHECK_DEADLOCK FALSE
