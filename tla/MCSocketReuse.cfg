SPECIFICATION Spec
CONSTANTS
  Words <- MCWords
  Fds = {4}
  session_thread_num = 1
  disk_thread_num = 1
  PipeCap = 3
  Files <- MCFiles
  Ports = {1, 2, 3}
  start_port = 2
  end_port = 4
  RestArgs = {0, 1, 4}
  UserArgs <- MCUserArgs
  PassArgs <- MCPassArgs
  Payloads <- MCPayloads
  FILEBUFSIZE = 2
  Byte <- MCBytes
  Hole = 0
  NULL = NULL
  Handles = {8, 9}
  InitialFiles <- MCInitialFiles
  Users <- MCUsers
  user_map <- MCUserMap
  named_by <- MCNamedBy
  FreedUsers = {}
  Orders <- MCOrders
  line_of <- MCLineOf
  PieceEntries = 1
  WritesMayFail = TRUE
  FILEBUFWTIRESIZE = 1
  DATASIZE = 1
  Scripts <- ReuseScripts
  SlowData = FALSE
  SlowCtrl = FALSE
  Timeouts = TRUE
  Habits = {"no_pasv", "early_data", "reset_data", "quit", "reset_ctrl"}
  Connections = 2
INVARIANTS
  
  TransferNeedsLogin
  UploadBufferBounded
CHECK_DEADLOCK FALSE
