\* Two callers building, answering and dropping requests against a daemon
\* that sends any body length, with fallible reallocation and the
\* free-list and ticket limits low enough to be reached.
CONSTANTS
  c1 = c1
  c2 = c2
  s1 = s1
  s2 = s2
  s3 = s3
  Callers <- MCCallers
  Slots <- MCSlots
  Ops <- MCOps
  HdrSize <- MCHdrSize
  IoSizes <- MCIoSizes
  ReadSizes <- MCReadSizes
  BodyLens <- MCBodyLens
  Sz <- MCSz
  PageSize <- MCPageSize
  AbiGeq74 = TRUE
  MinIov <- MCMinIov
  Credit <- MCCredit
  Permanent <- MCPermanent
  MaxFree <- MCMaxFree
  MaxTickets <- MCMaxTickets
  AllocCanFail = TRUE
  MaxOps <- MCMaxOps
SPECIFICATION Spec
INVARIANT TypeOK
INVARIANT BuffersHoldTheirLength
INVARIANT CountersTrackRegistry
\* The workload is bounded by MaxOps: the callers stop when it is spent.
CHECK_DEADLOCK FALSE
