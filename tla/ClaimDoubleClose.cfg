SPECIFICATION Spec
CONSTANTS
  Words <- MCWords
  Fds = {4, 5}
  session_thread_num = 2
  disk_thread_num = 2
  PipeCap = 3
  Files <- MCFiles
  Ports = {2, 3}
  start_port = 1
  end_port = 4
  RestArgs = {0, 1, 4}
  UserArgs <- MCUserArgs
  PassArgs <- MCPassArgs
  Payloads <- MCPayloads
  FILEBUFSIZE = 2
  Byte <- MCBytes
  Hole = 0
  NULL = NULL
  Handles = {8, 9}
  InitialFiles <- MCInitialFiles
  Users <- MCUsers
  user_map <- MCUserMap
  named_by <- MCNamedBy
  FreedUsers = {}
  Orders <- MCOrders
  line_of <- MCLineOf
  PieceEntries = 1
  WritesMayFail = FALSE
  FILEBUFWTIRESIZE = 1
  DATASIZE = 1
  Scripts <- DownloadScripts
  SlowData = FALSE
  SlowCtrl = FALSE
  Timeouts = FALSE
  Habits = {}
  Connections = 2
INVARIANTS
  FinishMeansWhole
CHECK_DEADLOCK FALSE
