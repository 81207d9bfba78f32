SPECIFICATION Spec
CONSTANTS
  Words <- MCWords
  Fds = {4}
  session_thread_num = 1
  disk_thread_num = 1
  PipeCap = 3
  Files <- MCFiles
  Ports = {2, 3}
  start_port = 1
  end_port = 4
  RestArgs = {0, 1, 4}
  UserArgs <- MCUserArgs
  PassArgs <- MCPassArgs
  Payloads <- MCPayloads
  FILEBUFSIZE = 3
  Byte <- MCBytes
  Hole = 0
  NULL = NULL
  Handles = {8, 9}
  InitialFiles <- MCInitialFiles
  Users <- MCUsers
  user_map <- MCUserMap
  named_by <- MCNamedBy
  FreedUsers = {}
  Orders <- MCOrders
  line_of <- MCLineOf
  PieceEntries = 1
  WritesMayFail = TRUE
  FILEBUFWTIRESIZE = 1
  DATASIZE = 2
  Scripts <- AnyScripts
  SlowData = TRUE
  SlowCtrl = TRUE
  Timeouts = TRUE
  Habits = {"pipeline", "no_pasv", "early_connect", "early_data", "abort",
            "reset_data", "quit", "reset_ctrl"}
  Connections = 1
INVARIANTS
  TypeOK
  
  TransferNeedsLogin
  UploadBufferBounded
CHECK_DEADLOCK FALSE
