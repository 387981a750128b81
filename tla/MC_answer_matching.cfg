\* Two threads, one operation each, a daemon that answers every request
\* (ok, error or malformed), signals during the reply wait that send an
\* interrupt notice, no timeout.
CONSTANTS
  Req = {r1, r2}
  Slot = {s1, s2, s3}
  NoSlot = NoSlot
  MaxOps <- MCMaxOps
  MaxFree <- MCMaxFreeUnlimited
  Replies <- MCReplies
  TimeoutOn = FALSE
  NoAlerts = FALSE
  AnswerSignals = TRUE
  GateSignals = FALSE
  AllocCanFail = FALSE
  TornTicketer = FALSE
  InterruptOn = TRUE
  MaxTickets = 0
  DaemonCloses = FALSE
  InitTimeoutOn = FALSE
  CanfailReq = {}
SPECIFICATION Spec
INVARIANT TypeOK
INVARIANT UniqueCorrelation
INVARIANT FreeListSound
INVARIANT SuccessCarriesOwnReply
INVARIANT WaiterKeepsHandler
INVARIANT MsQueueSound
PROPERTY OpsComplete
PROPERTY DispatchRefined
\* The bounded workload ends with every thread idle.
CHECK_DEADLOCK FALSE
