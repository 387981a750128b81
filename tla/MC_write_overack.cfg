\* Writes against a daemon that may acknowledge more bytes than it was sent.
CONSTANTS
  BlockSize <- MCBlockSize
  IoSize <- MCIoSize
  BufCounts <- MCBufCounts
  FileSizes <- MCFileSizes
  BlkNos <- MCBlkNos
  VTypes <- MCVTypes
  Modes <- MCWriteModes
  MaxReply <- MCMaxReply
  MaxAck <- MCMaxAck
  AckOver = TRUE
  FhCanFail = FALSE
  MapCanFail = FALSE
  MaxRounds <- MCMaxRounds
  UWidth <- MCUWidth
SPECIFICATION Spec
INVARIANT BufferRangesSound
\* The routine returns.
CHECK_DEADLOCK FALSE
