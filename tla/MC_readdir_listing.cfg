\* Listing directories in getdirentries calls, with replies that may end
\* inside a record and names of bad length, against buffers that hold at
\* least one wire record.
CONSTANTS
  Directories <- MCDirs
  NameOffset <- MCNameOffset
  DirentAlign <- MCDirentAlign
  HostHdr <- MCHostHdr
  MaxNameLen <- MCMaxNameLenSmall
  InoWidth <- MCInoWidth
  IoSize <- MCIoSize
  UserBufs <- MCUserBufs
  Truncates = TRUE
  WaitCanFail = TRUE
  MaxCalls <- MCMaxCalls
SPECIFICATION Spec
INVARIANT TypeOK
INVARIANT TranscodeMatchesReference
INVARIANT ListingExact
INVARIANT TicketReleasedOnce
PROPERTY ListingTerminates
\* A listing ends at the end of the directory or at an error.
CHECK_DEADLOCK FALSE
