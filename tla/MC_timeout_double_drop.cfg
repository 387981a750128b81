\* One thread; the daemon timeout fires (FSESS_NO_ALERTS) while its reply is being handled.
CONSTANTS
  Req = {r1}
  Slot = {s1, s2, s3}
  NoSlot = NoSlot
  MaxOps <- MCMaxOps
  MaxFree <- MCMaxFreeUnlimited
  Replies <- MCRepliesOk
  TimeoutOn = TRUE
  NoAlerts = TRUE
  AnswerSignals = FALSE
  GateSignals = FALSE
  AllocCanFail = FALSE
  TornTicketer = FALSE
  InterruptOn = FALSE
  MaxTickets = 0
  DaemonCloses = FALSE
  InitTimeoutOn = FALSE
  CanfailReq = {}
SPECIFICATION Spec
INVARIANT FreeListSound
CHECK_DEADLOCK FALSE
