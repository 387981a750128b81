\* Daemon timeouts with the alert panel, gate signals, fuse_max_tickets,
\* interrupt notices, one thread whose fdisp_make_canfail may fail, the
\* INIT timeout callout, an unlocked ticketer and a daemon that may close
\* the device.
CONSTANTS
  Req = {r1, r2}
  Slot = {s1, s2, s3}
  NoSlot = NoSlot
  MaxOps <- MCMaxOps
  MaxFree <- MCMaxFreeZero
  Replies <- MCRepliesOk
  TimeoutOn = TRUE
  NoAlerts = FALSE
  AnswerSignals = TRUE
  GateSignals = TRUE
  AllocCanFail = FALSE
  TornTicketer = TRUE
  InterruptOn = TRUE
  MaxTickets = 2
  DaemonCloses = TRUE
  InitTimeoutOn = TRUE
  CanfailReq = {r1}
SPECIFICATION Spec
INVARIANT TimeoutAlertExclusive
INVARIANT DeadSignalledOnce
\* The bounded workload ends with every thread idle, or every thread
\* blocked on a session the daemon has left.
CHECK_DEADLOCK FALSE
