\* Two threads allocate tickets while data->ticketer++ runs outside ticket_mtx.
CONSTANTS
  Req = {r1, r2}
  Slot = {s1, s2, s3}
  NoSlot = NoSlot
  MaxOps <- MCMaxOps
  MaxFree <- MCMaxFreeUnlimited
  Replies <- MCRepliesOk
  TimeoutOn = FALSE
  NoAlerts = FALSE
  AnswerSignals = FALSE
  GateSignals = FALSE
  AllocCanFail = FALSE
  TornTicketer = TRUE
  InterruptOn = FALSE
  MaxTickets = 0
  DaemonCloses = FALSE
  InitTimeoutOn = FALSE
  CanfailReq = {}
SPECIFICATION Spec
INVARIANT UniqueCorrelation
CHECK_DEADLOCK FALSE
