------------------------------- MODULE DiskFsm -------------------------------
(***************************************************************************)
(* The disk threads: disk_fsm::roll_state_machine and disk_info.  A disk   *)
(* thread takes one task of its queue and runs it to the end under its     *)
(* mutex.  A transfer is a chain of such tasks, with the disk_info of the  *)
(* control socket as the only memory between them.                         *)
(***************************************************************************)
EXTENDS FileStore, Functions

CONSTANTS
  Orders,         \* the orders readdir may give names in
  line_of,        \* name -> its line of a listing, taken as one byte
  PieceEntries,   \* entries get_dir lists in one go: 32
  WritesMayFail   \* may a write meet a full disk?

\* Each name once.
Lists(order, names) ==
  {order[i] : i \in 1 .. Len(order)} = names /\ IsInjective(order)

ASSUME DiskAssumption ==
  /\ Orders \subseteq Seq(Files)
  /\ \A names \in SUBSET Files : \E order \in Orders : Lists(order, names)
  /\ line_of \in [Files -> Byte]
  /\ PieceEntries \in Nat \ {0}
  /\ WritesMayFail \in BOOLEAN

VARIABLE disks    \* control socket -> its disk_info, or NULL

DiskActions == {"DISK_STOR_START", "DISK_STORING", "DISK_STOR_DONE",
                "DISK_INDEX_LOADING", "DISK_INDEX_FINISH",
                "DISK_RETR_LOADING", "DISK_RETR_FINISH"}

\* cur_dir: the names of a directory that are still to be listed.
DiskInfo == [data_action : DiskActions, file_handle : Handles \cup {NoHandle},
             cur_dir : Seq(Files)]

\* A null pointer is no disk_info.
ASSUME DiskNullAssumption == NULL \notin DiskInfo

DiskTypeOK == disks \in [Fds -> DiskInfo \cup {NULL}]

DiskInit == disks = [fd \in Fds |-> NULL]

-----------------------------------------------------------------------------

\* The insert into the map is refused while an old disk_info is there; the
\* caller goes on with the new object, which nobody can find afterwards.
add_disk(fd, info) ==
  disks' = IF disks[fd] = NULL THEN [disks EXCEPT ![fd] = info] ELSE disks

SetAction(fd, action) == disks' = [disks EXCEPT ![fd].data_action = action]

\* The destructor closes file_handle, whatever was closed before.
del_disk(fd) == disks' = [disks EXCEPT ![fd] = NULL]

TransOk(fd) == post_to_session([fd |-> fd, action |-> "TRANS_OK"])

\* The names opendir and readdir find, in an order of their own.
Present   == {f \in Files : fs[f] # NULL}
Directory == {order \in Orders : Lists(order, Present)}

\* get_dir: the lines of the first names, and the names behind them.  A full
\* piece that happens to be the last one is recognised as the last.
PieceLen(names) == IF Len(names) < PieceEntries THEN Len(names) ELSE PieceEntries
Lines(names)    == [i \in 1 .. PieceLen(names) |-> line_of[names[i]]]
Unlisted(names) == SubSeq(names, PieceLen(names) + 1, Len(names))

IndexAction(rest) == IF rest # <<>> THEN "DISK_INDEX_LOADING" ELSE "DISK_INDEX_FINISH"

\* An empty directory is listed by an empty block.
DiskIndexStart(t) ==
  LET fd == Head(disk_pool[t]).fd IN
  /\ DiskTake(t, "INDEX_START")
  /\ \E names \in Directory :
       /\ add_disk(fd, [data_action |-> IndexAction(Unlisted(names)),
                        file_handle |-> NoHandle, cur_dir |-> Unlisted(names)])
       /\ DataPost(fd, Lines(names))
  /\ UNCHANGED <<session_pool, fault, fileVars>>

\* open_create keeps what the file holds; open_writeonly needs the file.
\* Neither result is looked at.
StorOpens(task) ==
  CanOpen(task.path) /\ (task.rest = 0 \/ fs[task.path] # NULL)

DiskStorStart(t) ==
  LET task == Head(disk_pool[t])
      h    == IF StorOpens(task) THEN NextHandle ELSE NoHandle
  IN
  /\ DiskTake(t, "STOR_START")
  /\ add_disk(task.fd, [data_action |-> "DISK_STOR_START", file_handle |-> h,
                        cur_dir |-> <<>>])
  /\ IF StorOpens(task)
     THEN /\ open_files' = Opened(h, task.path, task.rest, "w")
          /\ fs' = IF fs[task.path] = NULL THEN [fs EXCEPT ![task.path] = <<>>]
                                           ELSE fs
     ELSE UNCHANGED fileVars
  /\ post_to_session([fd |-> task.fd, action |-> "STOR_START"])
  /\ UNCHANGED <<notify_pipe, fault>>

\* The first block; a file with nothing to read is closed at once, and the
\* number stays in the disk_info.
DiskRetrStart(t) ==
  LET task == Head(disk_pool[t])
      h    == NextHandle
      data == BytesAt(task.path, task.rest)
  IN
  /\ DiskTake(t, "RETR_START")
  /\ CanOpen(task.path) /\ fs[task.path] # NULL
  /\ add_disk(task.fd,
       [data_action |-> IF data # <<>> THEN "DISK_RETR_LOADING"
                                       ELSE "DISK_RETR_FINISH",
        file_handle |-> h, cur_dir |-> <<>>])
  /\ open_files' = IF data # <<>>
                   THEN Opened(h, task.path, task.rest + Len(data), "r")
                   ELSE open_files
  /\ DataPost(task.fd, data)
  /\ UNCHANGED <<session_pool, fault, fs>>

\* read of a bad handle returns -1, which ends the file, and data_post then
\* allocates new char[-1].
DiskRetrStartFails(t) ==
  LET task == Head(disk_pool[t]) IN
  /\ DiskTake(t, "RETR_START")
  /\ ~(CanOpen(task.path) /\ fs[task.path] # NULL)
  /\ add_disk(task.fd, [data_action |-> "DISK_RETR_FINISH",
                        file_handle |-> NoHandle, cur_dir |-> <<>>])
  /\ fault' = "bad_alloc"
  /\ UNCHANGED <<session_pool, notify_pipe, fileVars>>

-----------------------------------------------------------------------------
(* The tasks that continue a transfer find its disk_info by control socket *)

ForDisk(t, action) == DiskTake(t, action) /\ disks[Head(disk_pool[t]).fd] # NULL

\* A block went out on the data connection while a listing is on its way.
DiskIndexLoading(t) ==
  LET fd    == Head(disk_pool[t]).fd
      names == disks[fd].cur_dir
  IN
  /\ ForDisk(t, "WRITE_DONE")
  /\ disks[fd].data_action = "DISK_INDEX_LOADING"
  /\ disks' = [disks EXCEPT ![fd].data_action = IndexAction(Unlisted(names)),
                            ![fd].cur_dir = Unlisted(names)]
  /\ DataPost(fd, Lines(names))
  /\ UNCHANGED <<session_pool, fault, fileVars>>

\* The next block of a file, or the empty one that ends it.
DiskRetrLoading(t) ==
  LET fd   == Head(disk_pool[t]).fd
      h    == disks[fd].file_handle
      data == BytesAt(open_files[h].path, open_files[h].pos)
  IN
  /\ ForDisk(t, "WRITE_DONE")
  /\ disks[fd].data_action = "DISK_RETR_LOADING"
  /\ Usable(h, "r")
  /\ IF data # <<>>
     THEN /\ open_files' = [open_files EXCEPT ![h].pos = @ + Len(data)]
          /\ UNCHANGED disks
     ELSE /\ open_files' = Closed(open_files, h)
          /\ SetAction(fd, "DISK_RETR_FINISH")
  /\ DataPost(fd, data)
  /\ UNCHANGED <<session_pool, fault, fs>>

\* The handle was closed under the transfer: -1 again, taken for the end.
DiskRetrLoadingFails(t) ==
  LET fd == Head(disk_pool[t]).fd
      h  == disks[fd].file_handle
  IN
  /\ ForDisk(t, "WRITE_DONE")
  /\ disks[fd].data_action = "DISK_RETR_LOADING"
  /\ ~Usable(h, "r")
  /\ SetAction(fd, "DISK_RETR_FINISH")
  /\ open_files' = Closed(open_files, h)
  /\ fault' = "bad_alloc"
  /\ UNCHANGED <<session_pool, notify_pipe, fs>>

\* Mutant: 226, but the disk_info stays in the map.
DiskDownloadDone_keeps(t) ==
  LET fd == Head(disk_pool[t]).fd IN
  /\ ForDisk(t, "WRITE_DONE")
  /\ disks[fd].data_action \in {"DISK_INDEX_FINISH", "DISK_RETR_FINISH"}
  /\ TransOk(fd)
  /\ UNCHANGED <<notify_pipe, fault, fs, open_files, disks>>

\* The last block went out: answer 226.  The destructor closes the handle a
\* second time, and with it whoever was given that number since.
DiskDownloadDone(t) ==
  LET fd == Head(disk_pool[t]).fd IN
  /\ ForDisk(t, "WRITE_DONE")
  /\ disks[fd].data_action \in {"DISK_INDEX_FINISH", "DISK_RETR_FINISH"}
  /\ TransOk(fd)
  /\ open_files' = Closed(open_files, disks[fd].file_handle)
  /\ del_disk(fd)
  /\ UNCHANGED <<notify_pipe, fault, fs>>

DiskWriteDoneIgnored(t) ==
  /\ ForDisk(t, "WRITE_DONE")
  /\ disks[Head(disk_pool[t]).fd].data_action \in
       {"DISK_STOR_START", "DISK_STORING", "DISK_STOR_DONE"}
  /\ UNCHANGED <<session_pool, notify_pipe, fault, fileVars, disks>>

\* fs after write(h, data), for a usable h.
StoreAt(h, data) ==
  [fs EXCEPT ![open_files[h].path] = Written(@, open_files[h].pos, data)]

\* Mutant: every full buffer is answered as if it were the last.
DiskStoring_acks(t) ==
  LET task == Head(disk_pool[t])
      h    == disks[task.fd].file_handle
  IN
  /\ ForDisk(t, "STORING")
  /\ Usable(h, "w")
  /\ fs' = StoreAt(h, task.data)
  /\ open_files' = [open_files EXCEPT ![h].pos = @ + Len(task.data)]
  /\ SetAction(task.fd, "DISK_STOR_DONE")
  /\ TransOk(task.fd)
  /\ UNCHANGED <<notify_pipe, fault>>

\* A full buffer of an upload.
DiskStoring(t) ==
  LET task == Head(disk_pool[t])
      h    == disks[task.fd].file_handle
  IN
  /\ ForDisk(t, "STORING")
  /\ Usable(h, "w")
  /\ fs' = StoreAt(h, task.data)
  /\ open_files' = [open_files EXCEPT ![h].pos = @ + Len(task.data)]
  /\ SetAction(task.fd, "DISK_STOR_DONE")
  /\ UNCHANGED <<session_pool, notify_pipe, fault>>

DiskStoringFails(t) ==
  LET task == Head(disk_pool[t]) IN
  /\ ForDisk(t, "STORING")
  /\ WritesMayFail \/ ~Usable(disks[task.fd].file_handle, "w")
  /\ SetAction(task.fd, "DISK_STORING")
  /\ UNCHANGED <<session_pool, notify_pipe, fault, fileVars>>

\* Mutant: the rest of the upload is not written.
DiskStorOk_truncates(t) ==
  LET task == Head(disk_pool[t]) IN
  /\ ForDisk(t, "STOR_OK")
  /\ task.data # <<>>
  /\ open_files' = Closed(open_files, disks[task.fd].file_handle)
  /\ TransOk(task.fd)
  /\ del_disk(task.fd)
  /\ UNCHANGED <<notify_pipe, fault, fs>>

\* Mutant: neither run_stor_finish nor the destructor closes the file.
DiskStorOk_leaks(t) ==
  LET task == Head(disk_pool[t])
      h    == disks[task.fd].file_handle
  IN
  /\ ForDisk(t, "STOR_OK")
  /\ Usable(h, "w") /\ task.data # <<>>
  /\ fs' = StoreAt(h, task.data)
  /\ TransOk(task.fd)
  /\ del_disk(task.fd)
  /\ UNCHANGED <<notify_pipe, fault, open_files>>

\* The rest of an upload: write, close, answer 226, forget the disk_info.
DiskStorOk(t) ==
  LET task == Head(disk_pool[t])
      h    == disks[task.fd].file_handle
  IN
  /\ ForDisk(t, "STOR_OK")
  /\ Usable(h, "w") /\ task.data # <<>>
  /\ fs' = StoreAt(h, task.data)
  /\ open_files' = Closed(open_files, h)
  /\ TransOk(task.fd)
  /\ del_disk(task.fd)
  /\ UNCHANGED <<notify_pipe, fault>>

\* A write of nothing returns 0 and a bad write -1: the handle is closed and
\* the disk_info stays behind in DISK_STORING, with no answer.
DiskStorOkFails(t) ==
  LET task == Head(disk_pool[t])
      h    == disks[task.fd].file_handle
  IN
  /\ ForDisk(t, "STOR_OK")
  /\ WritesMayFail \/ ~Usable(h, "w") \/ task.data = <<>>
  /\ open_files' = Closed(open_files, h)
  /\ SetAction(task.fd, "DISK_STORING")
  /\ UNCHANGED <<session_pool, notify_pipe, fault, fs>>

DiskMissing(t) ==
  /\ \E action \in {"WRITE_DONE", "STORING", "STOR_OK"} :
       DiskTake(t, action) /\ disks[Head(disk_pool[t]).fd] = NULL
  /\ UNCHANGED <<session_pool, notify_pipe, fault, fileVars, disks>>

DiskStep(t) ==
  \/ DiskIndexStart(t)
  \/ DiskStorStart(t)
  \/ DiskRetrStart(t)
  \/ DiskRetrStartFails(t)
  \/ DiskIndexLoading(t)
  \/ DiskRetrLoading(t)
  \/ DiskRetrLoadingFails(t)
  \/ DiskDownloadDone(t)
  \/ DiskWriteDoneIgnored(t)
  \/ DiskStoring(t)
  \/ DiskStoringFails(t)
  \/ DiskStorOk(t)
  \/ DiskStorOkFails(t)
  \/ DiskMissing(t)
=============================================================================
