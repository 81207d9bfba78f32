SPECIFICATION FairSpec
CONSTANTS
  Words <- MCWords
  Fds = {4}
  session_thread_num = 1
  disk_thread_num = 1
  PipeCap = 3
  Files <- MCThreeFiles
  Ports = {2, 3, 5}
  start_port = 1
  end_port = 6
  RestArgs = {0, 1, 4}
  UserArgs <- MCUserArgs
  PassArgs <- MCPassArgs
  Payloads <- MCPayloads
  FILEBUFSIZE = 2
  Byte <- MCBytes
  Hole = 0
  NULL = NULL
  Handles = {8, 9}
  InitialFiles <- MCThreeInitialFiles
  Users <- MCUsers
  user_map <- MCUserMap
  named_by <- MCNamedBy
  FreedUsers = {}
  Orders <- MCThreeOrders
  line_of <- MCThreeLines
  PieceEntries = 2
  WritesMayFail = FALSE
  FILEBUFWTIRESIZE = 1
  DATASIZE = 1
  Scripts <- OrderlyScripts
  SlowData = TRUE
  SlowCtrl = FALSE
  Timeouts = FALSE
  Habits = {"no_pasv"}
  Connections = 1
INVARIANTS
  
  TransferIsPermitted
  OneBlockInFlight
  MarkBefore226
  
  DownloadIntact
  UploadIntact
  
  
  NoHandleLeaks
  NoUnsolicitedAnswer
PROPERTY
  TransfersAreAtomic
  
CHECK_DEADLOCK FALSE
