------------------------------ MODULE DocClaims ------------------------------
(***************************************************************************)
(* What comments, messages and configuration files of the repository say   *)
(* of the server and the code does not do.  Each claim has a run of its    *)
(* own that refutes it.                                                    *)
(***************************************************************************)
EXTENDS HyperTransfer

\* common_def.h:164 and 149: the end of an upload is followed by "complete
\* data transfer, return 226".
UploadIsAnswered ==
  \A fd \in Fds :
    (Connected(fd) /\ peers[fd].xfer # NULL /\ peers[fd].started
       /\ peers[fd].xfer.verb \in Uploads /\ peers[fd].left = <<>>)
      ~> (Connected(fd) /\ peers[fd].xfer = NULL)

\* TCP_data_event.cpp:108: a closed data connection that reads empty is the
\* end of the upload.
UploadEndIsSeen ==
  \A fd \in Fds :
    (Connected(fd) /\ clients[fd].data_fd # NULL
       /\ data_sock[clients[fd].data_fd].peer = "fin")
      ~> (Connected(fd) /\ clients[fd].data_fd = NULL)

\* finite_state_machine.cpp:150 and 157: the end of the connection deletes
\* the session.  The next client with the socket number then has a new one.
AcceptOpensFreshSession ==
  [][\A t \in SessionThreads :
       SessionAccept(t) => sessions'[Head(session_pool[t]).fd] = NewSession]_vars

\* TCP_ctrl_event.cpp:169-178: a notification for a client that cannot be
\* found is logged and dropped.
OrphanNoticeIsDropped == fault # "null_client"

\* disk_fsm.cpp:278 and 292: a download is in DISK_RETR_FINISH when the file
\* has been read to its end.
FinishMeansWhole ==
  \A fd \in Fds : disks[fd] # NULL /\ Connected(fd) =>
    (disks[fd].data_action = "DISK_RETR_FINISH" /\ peers[fd].xfer # NULL
       => LET sent == SelectSeq(notify_pipe, LAMBDA n : n.fd = fd /\ n.action = "DATA_WRITE")
          IN  Dial(fd).out \o FlattenSeq(clients[fd].data_write_q)
                \o FlattenSeq([i \in 1 .. Len(sent) |-> sent[i].data])
              = fs[peers[fd].xfer.file])
=============================================================================
