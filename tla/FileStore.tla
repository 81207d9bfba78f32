------------------------------ MODULE FileStore ------------------------------
(***************************************************************************)
(* The file system and the table of open files, as the disk threads use    *)
(* them through open, lseek, read, write and close (disk_info.h:112-154),  *)
(* and the session threads through stat.  The numbers of the table are     *)
(* shared by every disk_info of the process, and the kernel gives the      *)
(* lowest free one to the next open.                                       *)
(***************************************************************************)
EXTENDS TaskPools

CONSTANTS
  Handles,      \* descriptor numbers left for open files
  InitialFiles  \* what is stored below init_path at the start

ASSUME StoreAssumption ==
  /\ Handles \subseteq Nat
  /\ InitialFiles \in [Files -> Block \cup {NULL}]

VARIABLES
  fs,           \* name -> content, or NULL when there is no such file
  open_files    \* handle -> open file description, or NULL when free

fileVars == <<fs, open_files>>

NoHandle == NULL   \* -1 in the code

OpenFile == [path : Files, pos : Nat, mode : {"r", "w"}]

FileTypeOK ==
  /\ fs \in [Files -> Block \cup {NULL}]
  /\ open_files \in [Handles -> OpenFile \cup {NULL}]

FileInit ==
  /\ fs = InitialFiles
  /\ open_files = [h \in Handles |-> NULL]

FreeHandles == {h \in Handles : open_files[h] = NULL}

\* The handle the next open returns, if the table has room.
NextHandle == CHOOSE h \in FreeHandles : \A k \in FreeHandles : h <= k

\* open and lseek of an existing file succeed.
CanOpen(path) == path # NULL /\ FreeHandles # {}

\* The bytes a read of at most FILEBUFSIZE at a position returns.
BytesAt(path, pos) ==
  LET room == Len(fs[path])
      last == IF pos + FILEBUFSIZE < room THEN pos + FILEBUFSIZE ELSE room
  IN  SubSeq(fs[path], pos + 1, last)

\* The content of a file after a write at a position: a gap reads as holes.
Written(content, pos, data) ==
  LET size == IF pos + Len(data) > Len(content)
              THEN pos + Len(data) ELSE Len(content)
  IN  [i \in 1 .. size |->
         IF i > pos /\ i <= pos + Len(data) THEN data[i - pos]
         ELSE IF i <= Len(content) THEN content[i] ELSE Hole]

\* Is the handle open, and for this kind of access?
Usable(h, mode) == h \in Handles /\ open_files[h] # NULL /\ open_files[h].mode = mode

Opened(h, path, pos, mode) ==
  [open_files EXCEPT ![h] = [path |-> path, pos |-> pos, mode |-> mode]]

\* close: of a handle that is not open it has no effect.
Closed(table, h) ==
  [k \in Handles |-> IF k = h THEN NULL ELSE table[k]]
=============================================================================
