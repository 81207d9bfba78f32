---------------------------- MODULE HyperTransfer ----------------------------
(***************************************************************************)
(* The whole server: the reactor thread, the session threads and the disk  *)
(* threads, joined by the queues of TaskPools, with clients at the sockets *)
(* and a file system below.  Once the process has died nothing happens.    *)
(***************************************************************************)
EXTENDS SessionFsm, DiskFsm, FtpClient, SequencesExt

CONSTANT Connections   \* bound: clients that connect in one behaviour

ASSUME ConnectionsAssumption == Connections \in Nat

vars == <<poolVars, fileVars, sessions, disks, reactorVars>>

Init ==
  /\ PoolInit
  /\ FileInit
  /\ SessionInit
  /\ DiskInit
  /\ ReactorInit(Connections)

SessionThread(t) ==
  fault = "none" /\ SessionStep(t) /\ UNCHANGED <<disks, reactorVars>>

DiskThread(t) ==
  fault = "none" /\ DiskStep(t) /\ UNCHANGED <<sessions, reactorVars>>

Reactor ==
  fault = "none" /\ ReactorStep /\ UNCHANGED <<fileVars, sessions, disks>>

Client ==
  fault = "none" /\ ClientStep /\ UNCHANGED <<fileVars, sessions, disks>>

Next ==
  \/ \E t \in SessionThreads : SessionThread(t)
  \/ \E t \in DiskThreads : DiskThread(t)
  \/ Reactor
  \/ Client

Spec == Init /\ [][Next]_vars

TypeOK ==
  /\ PoolTypeOK
  /\ FileTypeOK
  /\ SessionTypeOK
  /\ DiskTypeOK
  /\ ReactorTypeOK

-----------------------------------------------------------------------------
(* Scheduling.  Pool threads loop for ever, the event loop runs round after *)
(* round, a socket that takes a block in parts takes all of it sooner or    *)
(* later, and orderly clients go on.  Timeouts are not promised.            *)

Inside(A) == fault = "none" /\ A /\ UNCHANGED <<fileVars, sessions, disks>>

Fairness ==
  /\ \A t \in SessionThreads : WF_vars(SessionThread(t))
  /\ \A t \in DiskThreads : WF_vars(DiskThread(t))
  /\ WF_vars(Inside(DispatchStep))
  /\ \A fd \in Fds : SF_vars(Inside(data_write(fd)))
  /\ \A fd \in Fds : WF_vars(Inside(ClientProgress(fd)))

FairSpec == Spec /\ Fairness

-----------------------------------------------------------------------------
(* Observations.                                                           *)

Elements(q) == {q[i] : i \in 1 .. Len(q)}

\* Records of a kind that a queue of tasks or notifications holds for fd.
Count(q, fd, action) ==
  Cardinality({i \in 1 .. Len(q) : q[i].fd = fd /\ q[i].action = action})

\* The queue of the disk tasks for fd: none when the index is out of range.
DiskQueue(fd) ==
  IF ThreadOf(fd) \in DiskThreads THEN disk_pool[ThreadOf(fd)] ELSE <<>>

\* Answers that end a command, among answers and among the records for fd.
Finals(replies) == Cardinality({i \in 1 .. Len(replies) : replies[i].code # 150})

FinalNotices(fd) ==
  Cardinality({i \in 1 .. Len(notify_pipe) :
    /\ notify_pipe[i].fd = fd /\ notify_pipe[i].action \in {"CTRL_WRITE", "TRANS_OK"}
    /\ notify_pipe[i].reply.code # 150})

\* Answers the reactor has for a client, the next to arrive first.
Replies(fd) == peers[fd].outq \o clients[fd].write_q

\* A record that carries an answer.
Says(n, fd, code) ==
  n.fd = fd /\ n.action \in {"CTRL_WRITE", "TRANS_OK"} /\ n.reply.code = code

Connected(fd) == clients[fd] # NULL

\* The reactor has announced the end of the transfer in hand.
Acknowledged(fd) ==
  /\ Connected(fd) /\ peers[fd].xfer # NULL
  /\ \E r \in Elements(Replies(fd)) : r.code = 226

DownloadStates == {"DISK_INDEX_LOADING", "DISK_INDEX_FINISH",
                   "DISK_RETR_LOADING", "DISK_RETR_FINISH"}
UploadStates   == {"DISK_STOR_START", "DISK_STORING", "DISK_STOR_DONE"}

-----------------------------------------------------------------------------
(* Safety, whatever the clients do.                                        *)

\* A client with anything of a transfer at the reactor.
Transferring(c) ==
  \/ c.listen_fd # NULL \/ c.data_fd # NULL \/ c.ev_data_accept # NULL
  \/ c.data_write_q # <<>> \/ c.file_buffer # <<>>

\* Nothing of a transfer exists for a client that has not logged in: no data
\* state, no listener, no block, no disk work, in any queue or thread
\* (com_PASV, com_STOR, com_RETR, com_LIST, com_APPE, and that sessions are
\* kept: a client that is given an old number inherits its login).
TransferNeedsLogin ==
  LET LoggedIn(fd) == sessions[fd] # NULL /\ sessions[fd].log_in IN
  /\ \A fd \in Fds :
       /\ sessions[fd] # NULL /\ sessions[fd].data_action # "DATA_WAITING" => LoggedIn(fd)
       /\ disks[fd] # NULL => LoggedIn(fd)
       /\ Connected(fd) /\ Transferring(clients[fd]) => LoggedIn(fd)
  /\ \A t \in SessionThreads : \A task \in Elements(session_pool[t]) :
       task.action \in {"PASV", "STOR_START", "TRANS_OK"} => LoggedIn(task.fd)
  /\ \A t \in DiskThreads : \A task \in Elements(disk_pool[t]) :
       task.action \in {"INDEX_START", "STOR_START", "RETR_START"} => LoggedIn(task.fd)
  /\ \A n \in Elements(notify_pipe) :
       n.action \in {"PASV", "TRANS_OK", "DATA_WRITE"} => LoggedIn(n.fd)

\* The upload buffer never holds more than data_read expects when it adds
\* one more read, so its exit(1) is dead code and the copy stays inside
\* FILEBUFSIZE, whatever resets and restarts happen between the reads.
UploadBufferBounded ==
  /\ fault # "buffer_exit"
  /\ \A fd \in Fds : Connected(fd) => Len(clients[fd].file_buffer) <= FILEBUFWTIRESIZE

-----------------------------------------------------------------------------
(* Safety with orderly clients.                                            *)

\* No path a client can take by the rules ends in one of the five ways the
\* process dies of: a notification for a client that is gone, a read of a
\* closed handle, a missing account, an index beyond the disk threads, an
\* event that is set anew before its callback ran.
StaysUp == fault = "none"

\* A file is only written or read for an account that may, although the
\* permission is looked at when the command arrives and the file is opened
\* two threads later (com_STOR, com_APPE, com_RETR).
TransferIsPermitted ==
  \A fd \in Fds : disks[fd] # NULL /\ sessions[fd] # NULL =>
    /\ disks[fd].data_action \in UploadStates => sessions[fd].upload_per
    /\ disks[fd].data_action \in {"DISK_RETR_LOADING", "DISK_RETR_FINISH"}
         => sessions[fd].download_per

\* Of a download there is one block between the disk thread and the socket,
\* never two and never none: in the pipe, in data_write_q, or as the
\* WRITE_DONE that asks for the next one.
OneBlockInFlight ==
  fault = "none" => \A fd \in Fds : Connected(fd) =>
    Count(notify_pipe, fd, "DATA_WRITE") + Len(clients[fd].data_write_q)
        + Count(DiskQueue(fd), fd, "WRITE_DONE")
      = IF disks[fd] # NULL /\ disks[fd].data_action \in DownloadStates THEN 1 ELSE 0

\* A 226 never overtakes the 150 of its transfer, though the two take
\* different ways through the session and disk threads: whether it is still
\* in the pipe or with the reactor already, the 150 is before it.
MarkBefore226 ==
  \A fd \in Fds : Connected(fd) =>
    /\ \A i \in 1 .. Len(Replies(fd)) : Replies(fd)[i].code = 226 =>
         peers[fd].started \/ \E j \in 1 .. i - 1 : Replies(fd)[j].code = 150
    /\ \A i \in 1 .. Len(notify_pipe) : Says(notify_pipe[i], fd, 226) =>
         \/ peers[fd].started \/ \E r \in Elements(Replies(fd)) : r.code = 150
         \/ \E j \in 1 .. i - 1 : Says(notify_pipe[j], fd, 150)

\* The session thread and the disk thread agree on what is going on while a
\* disk_info exists, though neither can look at the other.
PhasesAgree ==
  \A fd \in Fds : disks[fd] # NULL =>
    /\ sessions[fd] # NULL
    /\ disks[fd].data_action \in {"DISK_INDEX_LOADING", "DISK_INDEX_FINISH"}
         => sessions[fd].data_action = "DATA_INDEX_DOWNLOAD"
    /\ disks[fd].data_action \in {"DISK_RETR_LOADING", "DISK_RETR_FINISH"}
         => sessions[fd].data_action = "DATA_FILE_DOWNLOAD"
    /\ disks[fd].data_action \in UploadStates
         => sessions[fd].data_action = "DATA_STOR"

\* When the 226 of a download leaves the reactor, the client's socket has
\* been given the whole of it, in order and once: from the position of the
\* last REST of the session, or the end of its last APPE, to the end; and of
\* a directory the line of every file, once, however it was cut into pieces.
DownloadIntact ==
  \A fd \in Fds : Acknowledged(fd) =>
    LET x == peers[fd].xfer
        From(file) == SubSeq(fs[file], sessions[fd].rest_size + 1, Len(fs[file]))
    IN
    /\ x.verb = "RETR" => Dial(fd).out = From(x.file)
    /\ x.verb = "LIST" => /\ Elements(Dial(fd).out) = {line_of[f] : f \in Present}
                          /\ IsInjective(Dial(fd).out)

\* When the 226 of an upload leaves the reactor, the file ends with what the
\* client sent, and it is all the file holds unless it was appended to.
UploadIntact ==
  \A fd \in Fds : Acknowledged(fd) =>
    LET x == peers[fd].xfer
        old == IF x.verb = "APPE" /\ InitialFiles[x.file] # NULL
               THEN InitialFiles[x.file] ELSE <<>>
    IN  x.verb \in Uploads => fs[x.file] = old \o x.payload

\* An upload that the session has let in and the reactor has not answered.
UnderWay(fd) ==
  /\ Connected(fd) /\ peers[fd].xfer # NULL /\ peers[fd].xfer.verb \in Uploads
  /\ ~Acknowledged(fd)
  /\ sessions[fd].data_action = "DATA_STOR" \/ Count(notify_pipe, fd, "TRANS_OK") > 0

\* A file without the uploads under way: com_STOR lets none in for a file that
\* is there, and com_APPE leaves the old length in rest_size.
Settled(f) ==
  LET writers == {fd \in Fds : UnderWay(fd) /\ peers[fd].xfer.file = f} IN
  IF writers = {} THEN fs[f]
  ELSE LET fd == CHOOSE w \in writers : TRUE IN
       IF peers[fd].xfer.verb = "STOR" \/ sessions[fd].rest_size = 0 THEN NULL
       ELSE SubSeq(fs[f], 1, sessions[fd].rest_size)

\* The transfer of a 226 that has left the reactor.
Served(fd) ==
  LET x == peers[fd].xfer IN
  IF ~Acknowledged(fd) \/ x.verb = "LIST" THEN NULL
  ELSE [verb |-> x.verb, file |-> x.file,
        pos  |-> IF x.verb = "RETR" THEN sessions[fd].rest_size ELSE 0,
        data |-> IF x.verb = "RETR" THEN Dial(fd).out ELSE x.payload]

Service == INSTANCE FileService WITH
  Clients <- Fds, Nothing <- NULL, Stock <- InitialFiles,
  store <- [f \in Files |-> Settled(f)], served <- [fd \in Fds |-> Served(fd)]

\* The server is a file service in which transfers are single steps: files
\* change by whole uploads only, at the moment the 226 leaves the reactor,
\* and whatever else the threads do in between leaves them as they were.
TransfersAreAtomic == Service!Spec

\* A client that was told a port can use it.  Until it has connected the
\* listener is there and is the one the reactor accepts from, whatever an
\* earlier transfer's end did to the client's sockets since, and the session
\* expects a transfer command until there is one.
AnnouncedPort ==
  \A fd \in Fds : Connected(fd) /\ peers[fd].port # NULL =>
    /\ Dial(fd).peer = "none" =>
         Dial(fd).st = "listening" /\ clients[fd].ev_data_accept = peers[fd].port
    /\ peers[fd].xfer = NULL => sessions[fd].data_action = "DATA_PASV_OK"

\* A 226 leaves nothing of the transfer behind: no listener, no data
\* connection, no block, no disk_info, no state in the session.
CleanAfter226 ==
  \A fd \in Fds : Acknowledged(fd) =>
    /\ Held(fd) = {}
    /\ clients[fd].data_write_q = <<>> /\ clients[fd].file_buffer = <<>>
    /\ disks[fd] = NULL
    /\ sessions[fd].data_action = "DATA_WAITING"
    /\ \A action \in {"WRITE_DONE", "STORING", "STOR_OK"} :
         Count(DiskQueue(fd), fd, action) = 0

\* Every open file belongs to a disk_info that will close it.
NoHandleLeaks ==
  \A h \in Handles : open_files[h] # NULL =>
    \E fd \in Fds : disks[fd] # NULL /\ disks[fd].file_handle = h

\* The server never says more than it was asked: final answers on their way
\* never outnumber the commands (and the greeting) that wait for one.
NoUnsolicitedAnswer ==
  \A fd \in Fds : Connected(fd) =>
    Finals(peers[fd].outq) + Finals(clients[fd].write_q) + FinalNotices(fd)
      <= peers[fd].wait

-----------------------------------------------------------------------------
(* Liveness with orderly clients.                                          *)

\* Everything an orderly client asks for is answered: its whole script gets
\* done and no command is left waiting.
ScriptGetsDone ==
  \A fd \in Fds : Connected(fd) ~> (Connected(fd) /\ peers[fd].todo = <<>> /\ peers[fd].wait = 0)
=============================================================================
