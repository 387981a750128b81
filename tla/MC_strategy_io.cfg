\* Reads and writes of every buffer shape against a daemon that replies
\* with any size the audit admits and acknowledges at most what it got.
CONSTANTS
  BlockSize <- MCBlockSize
  IoSize <- MCIoSize
  BufCounts <- MCBufCounts
  FileSizes <- MCFileSizes
  BlkNos <- MCBlkNos
  VTypes <- MCVTypes
  Modes <- MCModes
  MaxReply <- MCMaxReply
  MaxAck <- MCMaxAck
  AckOver = FALSE
  FhCanFail = TRUE
  MapCanFail = TRUE
  MaxRounds <- MCMaxRounds
  UWidth <- MCUWidth
SPECIFICATION Spec
INVARIANT TypeOK
INVARIANT BufferRangesSound
INVARIANT OffsetsTrackBuffer
INVARIANT TicketReleasedOnce
INVARIANT CompletedOnceSent
INVARIANT HandleAllowsTransfer
INVARIANT XlateAgree
PROPERTY StrategyUsesDispatch
PROPERTY ReadsTerminate
PROPERTY WritesTerminate
\* The routine returns; a write whose daemon acknowledges nothing stops
\* at the round bound.
CHECK_DEADLOCK FALSE
