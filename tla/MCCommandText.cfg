SPECIFICATION FairTextSpec
CONSTANTS
  NULL = NULL
  root_path <- MCRoot
  Dirs <- MCDirs
  Files <- MCPlainFiles
  Lines <- MCLines
  Parts <- MCParts
  MaxLines = 3
  Ahead = 2
INVARIANTS
  TypeOK
  
  
PROPERTIES
  CommandsInOrder
  EveryCommandIsDone
CHECK_DEADLOCK FALSE
