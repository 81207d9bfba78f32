----------------------------- MODULE SafetyProofs -----------------------------
(***************************************************************************)
(* The safety invariants that hold whatever the clients do, proved for     *)
(* every configuration on top of the inductive invariant of TypeProofs.    *)
(* The first is about the upload buffer, the second about logging in.      *)
(***************************************************************************)
EXTENDS TypeProofs

-----------------------------------------------------------------------------
(* The upload buffer.                                                      *)

\* A step that is not data_read's own exit.
NoBufferExit == fault' # "buffer_exit"

\* Posting to the disk pool ends in the bad index or leaves fault alone.
LEMMA PostDiskFault ==
  ASSUME fault = "none", NEW task, post_to_disk(task)
  PROVE  NoBufferExit
  BY DEF post_to_disk, NoBufferExit

\* No command handler reaches data_read's exit.
LEMMA CommandFault ==
  ASSUME fault = "none", NEW fd, NEW s, NEW c, run_fsm_command(fd, s, c)
  PROVE  NoBufferExit
  <1>1. ASSUME NEW r, NEW code, Answer(fd, r, code) \/ AwaitData(fd, r)
        PROVE  NoBufferExit
    BY <1>1 DEF Answer, AwaitData, NoBufferExit
  <1>2. com_USER(fd, s, c) => NoBufferExit
    <2>1. SUFFICES ASSUME com_USER(fd, s, c) PROVE \E r, code : Answer(fd, r, code)
      BY <1>1
    <2>2. CASE c.user = "BGIShare"
      BY <2>1, <2>2, Zenon DEF com_USER
    <2>3. CASE c.user # "BGIShare"
      <3>1. \/ \E u \in Seek(c.user) :
                 Answer(fd, [s EXCEPT !.user_info = u, !.username = u], 331)
            \/ Answer(fd, IF c.user = "Anonymous"
                          THEN [s EXCEPT !.username = "Anonymous"] ELSE s, 530)
        BY <2>1, <2>3, Zenon DEF com_USER
      <3> QED
        BY <3>1, Zenon
    <2> QED
      BY <2>2, <2>3
  <1>3. com_PASS(fd, s, c) => NoBufferExit
    BY <1>1 DEF com_PASS, NoBufferExit
  <1>4. com_PASV(fd, s) => NoBufferExit
    BY <1>1 DEF com_PASV, NoBufferExit
  <1>5. com_LIST(fd, s) \/ com_APPE(fd, s, c) => NoBufferExit
    BY <1>1 DEF com_LIST, com_APPE
  <1>6. com_STOR(fd, s, c) \/ com_RETR(fd, s, c) => NoBufferExit
    BY <1>1 DEF com_STOR, com_RETR
  <1>7. com_SIZE(fd, s, c) \/ com_REST(fd, s, c) \/ com_TYPE(fd, s) \/ com_CWD(fd, s)
          \/ com_PWD(fd, s) \/ com_SYST(fd, s) \/ com_FEAT(fd, s) \/ com_BAD(fd, s)
        => NoBufferExit
    BY <1>1 DEF com_SIZE, com_REST, com_TYPE, com_CWD, com_PWD, com_SYST, com_FEAT, com_BAD
  <1> QED
    BY <1>2, <1>3, <1>4, <1>5, <1>6, <1>7 DEF run_fsm_command

\* Nor does a session thread.
LEMMA SessionFault ==
  ASSUME fault = "none", NEW t, SessionStep(t)
  PROVE  NoBufferExit
  <1>1. CASE SessionAccept(t) \/ SessionDropped(t)
    BY <1>1 DEF SessionAccept, SessionDropped, NoBufferExit
  <1>2. CASE SessionPasv(t)
    BY <1>2 DEF SessionPasv, run_pasv, Answer, NoBufferExit
  <1>3. CASE SessionDataAccept(t)
    BY <1>3, PostDiskFault DEF SessionDataAccept, run_list_load, run_stor_load,
       run_retr_load, NoBufferExit
  <1>4. CASE SessionStorStart(t) \/ SessionTransOk(t)
    BY <1>4 DEF SessionStorStart, run_stor_start, SessionTransOk, run_transfer_ok,
       Answer, NoBufferExit
  <1>5. CASE SessionRead(t)
    BY <1>5, CommandFault DEF SessionRead
  <1> QED
    BY <1>1, <1>2, <1>3, <1>4, <1>5 DEF SessionStep

\* Nor does a disk thread.
LEMMA DiskFault ==
  ASSUME fault = "none", NEW t, DiskStep(t)
  PROVE  NoBufferExit
  BY DEF DiskStep, DiskIndexStart, DiskStorStart, DiskRetrStart, DiskRetrStartFails,
     DiskIndexLoading, DiskRetrLoading, DiskRetrLoadingFails, DiskDownloadDone,
     DiskWriteDoneIgnored, DiskStoring, DiskStoringFails, DiskStorOk,
     DiskStorOkFails, DiskMissing, NoBufferExit

\* One client changes, and its buffer stays below the mark.
LEMMA BufferUpdate ==
  ASSUME ReactorTypeOK, UploadBufferBounded, NoBufferExit, NEW fd \in Fds,
         NEW c \in TCP_client, SetClient(fd, c),
         Len(c.file_buffer) <= FILEBUFWTIRESIZE
  PROVE  UploadBufferBounded'
  BY DEF ReactorTypeOK, UploadBufferBounded, NoBufferExit, Connected, SetClient

\* A client is deleted.
LEMMA BufferDelete ==
  ASSUME ReactorTypeOK, UploadBufferBounded, NoBufferExit, NEW fd \in Fds, del_client(fd)
  PROVE  UploadBufferBounded'
  BY DEF ReactorTypeOK, UploadBufferBounded, NoBufferExit, Connected, del_client

\* No client changes.
LEMMA BuffersStay ==
  ASSUME UploadBufferBounded, NoBufferExit, clients' = clients
  PROVE  UploadBufferBounded'
  BY DEF UploadBufferBounded, NoBufferExit, Connected

\* The callbacks of the control connection.
LEMMA CtrlStepBuffer ==
  ASSUME ReactorOK, UploadBufferBounded, fault = "none", NEW fd \in Fds, CtrlStep(fd)
  PROVE  UploadBufferBounded'
  <1> USE DEF ReactorOK
  <1>1. CASE on_accept(fd)
    <2>1. /\ NewClient \in TCP_client /\ SetClient(fd, NewClient) /\ NoBufferExit
          /\ Len(NewClient.file_buffer) <= FILEBUFWTIRESIZE
      BY <1>1, NewClientType, ReactorAssumption DEF on_accept, NoBufferExit, NewClient
    <2> QED
      BY <2>1, BufferUpdate
  <1>2. CASE on_read_lines(fd)
    BY <1>2, BuffersStay DEF on_read_lines, NoBufferExit
  <1>3. CASE on_read_gone(fd)
    BY <1>3, BufferDelete DEF on_read_gone, NoBufferExit
  <1>4. CASE on_write(fd)
    <2> DEFINE c == clients[fd]
               d == [c EXCEPT !.write_q = Tail(@), !.ev_write = FALSE]
    <2>1. /\ Ran(<<"write", fd>>, {}) /\ SetClient(fd, d) /\ NoBufferExit
      BY <1>4 DEF on_write, NoBufferExit, poolVars
    <2>2. c # NULL /\ c \in TCP_client /\ c.write_q # <<>>
      BY <2>1 DEF Ran, CallbacksValid, CtrlEvents, ReactorTypeOK
    <2>3. Tail(c.write_q) \in Seq(Reply)
      BY <2>2, HeadTailProperties DEF TCP_client
    <2>4. d \in TCP_client /\ d.file_buffer = c.file_buffer
      BY <2>2, <2>3 DEF TCP_client
    <2>5. Len(d.file_buffer) <= FILEBUFWTIRESIZE
      BY <2>2, <2>4 DEF UploadBufferBounded, Connected
    <2> QED
      BY <2>1, <2>4, <2>5, BufferUpdate
  <1>5. CASE on_write_error(fd)
    BY <1>5, BufferDelete DEF on_write_error, NoBufferExit
  <1> QED
    BY <1>1, <1>2, <1>3, <1>4, <1>5 DEF CtrlStep

\* A notification.
LEMMA NotifyStepBuffer ==
  ASSUME ReactorOK, UploadBufferBounded, fault = "none", NotifyStep
  PROVE  UploadBufferBounded'
  <1> USE DEF ReactorOK
  <1> DEFINE n  == Head(notify_pipe)
             fd == n.fd
             c  == clients[fd]
  <1>1. CASE on_notify_null
    BY <1>1, BuffersStay DEF on_notify_null, NoBufferExit
  <1>2. ASSUME NEW action, NEW gone, Notified(action, gone)
        PROVE  /\ n \in Notification /\ n.action = action /\ fd \in Fds
               /\ c # NULL /\ c \in TCP_client
               /\ Len(c.file_buffer) <= FILEBUFWTIRESIZE
    <2>1. notify_pipe \in Seq(Notification) /\ notify_pipe # <<>>
      BY <1>2 DEF Notified, Ran, CallbacksValid, PoolTypeOK
    <2>2. n \in Notification /\ n.action = action /\ c # NULL
      BY <1>2, <2>1, HeadTailProperties DEF Notified
    <2>3. fd \in Fds
      BY <2>2, NotificationFields
    <2> QED
      BY <2>2, <2>3 DEF ReactorTypeOK, UploadBufferBounded, Connected
  <1>3. ASSUME NEW b \in TCP_client, NEW reply \in Reply
        PROVE  Queued(b, reply) \in TCP_client /\ Queued(b, reply).file_buffer = b.file_buffer
    <2>1. Queued(b, reply) \in TCP_client
      BY QueuedType
    <2> QED
      BY <2>1 DEF Queued, TCP_client
  <1>4. CASE on_notify_ctrl_write
    <2> DEFINE d == Queued(c, n.reply)
    <2>1. Notified("CTRL_WRITE", {}) /\ SetClient(fd, d) /\ NoBufferExit
      BY <1>4 DEF on_notify_ctrl_write, NoBufferExit
    <2>2. n.reply \in Reply
      BY <1>2, <2>1, NotificationFields
    <2>3. d \in TCP_client /\ d.file_buffer = c.file_buffer
      BY <1>2, <1>3, <2>1, <2>2
    <2> HIDE DEF d
    <2> QED
      BY <1>2, <2>1, <2>3, BufferUpdate
  <1>5. CASE on_notify_trans_ok
    <2> DEFINE q == Queued(c, n.reply)
               d == clear_datafd(q)
    <2>1. Notified("TRANS_OK", DataEventsOf(fd)) /\ SetClient(fd, d) /\ NoBufferExit
      BY <1>5 DEF on_notify_trans_ok, NoBufferExit
    <2>2. n.reply \in Reply
      BY <1>2, <2>1, NotificationFields
    <2>3. q \in TCP_client /\ q.file_buffer = c.file_buffer
      BY <1>2, <1>3, <2>1, <2>2
    <2> HIDE DEF q
    <2>4. d \in TCP_client /\ d.file_buffer = c.file_buffer
      BY <2>3, ClearedType
    <2> HIDE DEF d
    <2> QED
      BY <1>2, <2>1, <2>4, BufferUpdate
  <1>6. CASE on_notify_pasv
    <2>1. /\ Notified("PASV", {}) /\ NoBufferExit
          /\ \/ clients' = clients
             \/ \E port \in Ports : SetClient(fd, [c EXCEPT !.listen_fd = port])
             \/ \E port \in Ports :
                  SetClient(fd, [c EXCEPT !.listen_fd = port, !.ev_data_accept = port])
      BY <1>6 DEF on_notify_pasv, event_set, FreePorts, NoBufferExit
    <2>2. CASE clients' = clients
      BY <2>1, <2>2, BuffersStay
    <2>3. ASSUME NEW d \in TCP_client, SetClient(fd, d), d.file_buffer = c.file_buffer
          PROVE  UploadBufferBounded'
      BY <1>2, <2>1, <2>3, BufferUpdate
    <2>4. ASSUME NEW port \in Ports, NEW d \in
                 {[c EXCEPT !.listen_fd = port],
                  [c EXCEPT !.listen_fd = port, !.ev_data_accept = port]}
          PROVE  d \in TCP_client /\ d.file_buffer = c.file_buffer
      BY <1>2, <2>1, <2>4 DEF TCP_client
    <2> QED
      BY <2>1, <2>2, <2>3, <2>4
  <1>7. CASE on_notify_data_write
    <2> DEFINE d == [c EXCEPT !.data_write_q = Append(@, n.data),
                              !.ev_data_write = c.data_fd # NULL]
    <2>1. Notified("DATA_WRITE", {}) /\ SetClient(fd, d) /\ NoBufferExit
      BY <1>7 DEF on_notify_data_write, NoBufferExit
    <2>2. n.data \in Block /\ c \in TCP_client
      BY <1>2, <2>1, NotificationFields
    <2>3. Append(c.data_write_q, n.data) \in Seq(Block)
      BY <2>2 DEF TCP_client
    <2>4. d \in TCP_client /\ d.file_buffer = c.file_buffer
      BY <2>2, <2>3 DEF TCP_client
    <2> HIDE DEF d
    <2> QED
      BY <1>2, <2>1, <2>4, BufferUpdate
  <1> QED
    BY <1>1, <1>4, <1>5, <1>6, <1>7 DEF NotifyStep

\* The callbacks of the data connection: data_read adds at most one read to
\* a buffer at the mark, and keeps only what stays at or below it.
LEMMA DataStepBuffer ==
  ASSUME ReactorOK, UploadBufferBounded, fault = "none", NEW fd \in Fds, DataStep(fd)
  PROVE  UploadBufferBounded'
  <1> USE DEF ReactorOK
  <1> DEFINE c == clients[fd]
  <1>1. ASSUME NEW e \in DataEvents, NEW gone, Ran(<<e, fd>>, gone)
        PROVE  /\ c # NULL /\ c \in TCP_client
               /\ Len(c.file_buffer) <= FILEBUFWTIRESIZE
               /\ e = "data_accept" => c.ev_data_accept \in Ports
               /\ e \in {"data_read", "data_write"} =>
                    c.data_fd \in Ports /\ data_sock[c.data_fd] \in DataSock
    <2>1. /\ c # NULL /\ c \in TCP_client
          /\ e = "data_accept" => c.ev_data_accept # NULL
          /\ e \in {"data_read", "data_write"} => c.data_fd # NULL
      BY <1>1 DEF Ran, CallbacksValid, ReactorTypeOK, DataEvents
    <2>2. /\ c.ev_data_accept # NULL => c.ev_data_accept \in Ports
          /\ c.data_fd # NULL => c.data_fd \in Ports /\ data_sock[c.data_fd] \in DataSock
      BY <2>1 DEF TCP_client, ReactorTypeOK
    <2> QED
      BY <2>1, <2>2 DEF UploadBufferBounded, Connected
  <1>2. CASE data_accept(fd)
    <2> DEFINE d == [c EXCEPT !.data_fd = c.ev_data_accept, !.ev_data_write = FALSE]
    <2>1. Ran(<<"data_accept", fd>>, {}) /\ SetClient(fd, d) /\ NoBufferExit
      BY <1>2 DEF data_accept, event_set, NoBufferExit
    <2>2. c \in TCP_client /\ Len(c.file_buffer) <= FILEBUFWTIRESIZE
      BY <1>1, <2>1 DEF DataEvents
    <2>3. d \in TCP_client /\ d.file_buffer = c.file_buffer
      BY <2>2 DEF TCP_client
    <2> HIDE DEF d
    <2> QED
      BY <2>1, <2>2, <2>3, BufferUpdate
  <1>3. CASE data_read_data(fd)
    <2> DEFINE sock == data_sock[c.data_fd]
               n    == IF Len(sock.inq) < DATASIZE THEN Len(sock.inq) ELSE DATASIZE
               full == c.file_buffer \o SubSeq(sock.inq, 1, n)
    <2>1. Ran(<<"data_read", fd>>, {})
      BY <1>3 DEF data_read_data
    <2>2. /\ c \in TCP_client /\ sock \in DataSock
          /\ Len(c.file_buffer) <= FILEBUFWTIRESIZE
      BY <1>1, <2>1 DEF DataEvents
    <2>3. ~(Len(c.file_buffer) > FILEBUFWTIRESIZE)
      BY <2>2, ReactorAssumption DEF TCP_client, Block
    <2>4. \/ /\ Len(full) <= FILEBUFWTIRESIZE
             /\ SetClient(fd, [c EXCEPT !.file_buffer = full]) /\ NoBufferExit
          \/ /\ SetClient(fd, [c EXCEPT !.file_buffer = <<>>])
             /\ post_to_disk([fd |-> fd, action |-> "STORING", data |-> full])
      BY <1>3, <2>3 DEF data_read_data, NoBufferExit
    <2>5. sock.inq \in Block /\ n \in 0 .. Len(sock.inq)
      BY <2>2, ReactorAssumption DEF DataSock, Block
    <2>6. full \in Block
      BY <2>2, <2>5, PieceType, JoinType DEF TCP_client
    <2> HIDE DEF full
    <2>7. ASSUME NEW b \in Block, SetClient(fd, [c EXCEPT !.file_buffer = b]),
                 Len(b) <= FILEBUFWTIRESIZE, NoBufferExit
          PROVE  UploadBufferBounded'
      <3> DEFINE d == [c EXCEPT !.file_buffer = b]
      <3>1. d \in TCP_client /\ d.file_buffer = b
        BY <2>2 DEF TCP_client
      <3>2. SetClient(fd, d)
        BY <2>7
      <3> HIDE DEF d
      <3> QED
        BY <2>7, <3>1, <3>2, BufferUpdate
    <2>8. <<>> \in Block /\ Len(<<>>) <= FILEBUFWTIRESIZE
      BY ReactorAssumption DEF Block
    <2> QED
      BY <2>4, <2>6, <2>7, <2>8, PostDiskFault
  <1>4. CASE data_read_end(fd)
    <2> DEFINE e == [c EXCEPT !.file_buffer = <<>>]
               d == clear_datafd(e)
    <2>1. \/ /\ Ran(<<"data_read", fd>>, DataEventsOf(fd))
             /\ post_to_disk([fd |-> fd, action |-> "STOR_OK", data |-> c.file_buffer])
             /\ SetClient(fd, d)
          \/ clients' = clients /\ NoBufferExit
      BY <1>4 DEF data_read_end, NoBufferExit
    <2>2. CASE clients' = clients /\ NoBufferExit
      BY <2>2, BuffersStay
    <2>3. CASE /\ Ran(<<"data_read", fd>>, DataEventsOf(fd))
               /\ post_to_disk([fd |-> fd, action |-> "STOR_OK", data |-> c.file_buffer])
               /\ SetClient(fd, d)
      <3>1. c \in TCP_client
        BY <1>1, <2>3 DEF DataEvents
      <3>2. e \in TCP_client /\ e.file_buffer = <<>>
        <4>1. <<>> \in Block
          BY DEF Block
        <4> QED
          BY <3>1, <4>1 DEF TCP_client
      <3> HIDE DEF e
      <3>3. d \in TCP_client /\ d.file_buffer = <<>>
        BY <3>2, ClearedType
      <3>4. Len(d.file_buffer) <= FILEBUFWTIRESIZE
        BY <3>3, ReactorAssumption
      <3> HIDE DEF d
      <3> QED
        BY <2>3, <3>3, <3>4, PostDiskFault, BufferUpdate
    <2> QED
      BY <2>1, <2>2, <2>3
  <1>5. CASE data_read_error(fd)
    <2> DEFINE d == clear_datafd(c)
    <2>1. Ran(<<"data_read", fd>>, DataEventsOf(fd)) /\ SetClient(fd, d) /\ NoBufferExit
      BY <1>5 DEF data_read_error, NoBufferExit, poolVars
    <2>2. c \in TCP_client /\ Len(c.file_buffer) <= FILEBUFWTIRESIZE
      BY <1>1, <2>1 DEF DataEvents
    <2>3. d \in TCP_client /\ d.file_buffer = c.file_buffer
      BY <2>2, ClearedType
    <2> HIDE DEF d
    <2> QED
      BY <2>1, <2>2, <2>3, BufferUpdate
  <1>6. CASE data_write(fd)
    <2> DEFINE d == [c EXCEPT !.data_write_q = Tail(@), !.ev_data_write = FALSE]
    <2>1. /\ Ran(<<"data_write", fd>>, {}) /\ SetClient(fd, d)
          /\ c.data_write_q # <<>>
          /\ post_to_disk([fd |-> fd, action |-> "WRITE_DONE"])
      BY <1>6 DEF data_write
    <2>2. c \in TCP_client /\ Len(c.file_buffer) <= FILEBUFWTIRESIZE
      BY <1>1, <2>1 DEF DataEvents
    <2>3. Tail(c.data_write_q) \in Seq(Block)
      BY <2>1, <2>2, HeadTailProperties DEF TCP_client
    <2>4. d \in TCP_client /\ d.file_buffer = c.file_buffer
      BY <2>2, <2>3 DEF TCP_client
    <2> HIDE DEF d
    <2> QED
      BY <2>1, <2>2, <2>4, PostDiskFault, BufferUpdate
  <1>7. CASE data_write_part(fd)
    <2> DEFINE block == Head(c.data_write_q)
    <2>1. PICK n \in 0 .. Len(block) - 1 :
            SetClient(fd, [c EXCEPT !.data_write_q =
                             <<SubSeq(block, n + 1, Len(block))>> \o Tail(@)])
      BY <1>7 DEF data_write_part
    <2> DEFINE d == [c EXCEPT !.data_write_q =
                       <<SubSeq(block, n + 1, Len(block))>> \o Tail(@)]
    <2>2. Ran(<<"data_write", fd>>, {}) /\ c.data_write_q # <<>> /\ NoBufferExit
      BY <1>7 DEF data_write_part, NoBufferExit, poolVars
    <2>3. c \in TCP_client /\ Len(c.file_buffer) <= FILEBUFWTIRESIZE
      BY <1>1, <2>2 DEF DataEvents
    <2>4. block \in Block /\ Tail(c.data_write_q) \in Seq(Block)
      BY <2>2, <2>3, HeadTailProperties DEF TCP_client
    <2> HIDE DEF block
    <2>5. n \in 0 .. Len(block)
      BY <2>1, <2>4 DEF Block
    <2>6. SubSeq(block, n + 1, Len(block)) \in Block
      BY <2>4, <2>5, PieceType
    <2>7. <<SubSeq(block, n + 1, Len(block))>> \o Tail(c.data_write_q) \in Seq(Block)
      BY <2>4, <2>6
    <2>8. d \in TCP_client /\ d.file_buffer = c.file_buffer
      BY <2>3, <2>7 DEF TCP_client
    <2>9. SetClient(fd, d)
      BY <2>1
    <2> HIDE DEF d
    <2> QED
      BY <2>2, <2>3, <2>8, <2>9, BufferUpdate
  <1>8. CASE data_write_nothing(fd)
    <2> DEFINE d == [c EXCEPT !.ev_data_write = FALSE]
    <2>1. Ran(<<"data_write", fd>>, {}) /\ SetClient(fd, d) /\ NoBufferExit
      BY <1>8 DEF data_write_nothing, NoBufferExit, poolVars
    <2>2. c \in TCP_client /\ Len(c.file_buffer) <= FILEBUFWTIRESIZE
      BY <1>1, <2>1 DEF DataEvents
    <2>3. d \in TCP_client /\ d.file_buffer = c.file_buffer
      BY <2>2 DEF TCP_client
    <2> HIDE DEF d
    <2> QED
      BY <2>1, <2>2, <2>3, BufferUpdate
  <1> QED
    BY <1>2, <1>3, <1>4, <1>5, <1>6, <1>7, <1>8 DEF DataStep

\* No step of the server or of a client fills a buffer above the mark.
LEMMA NextBuffer == IInv /\ UploadBufferBounded /\ [Next]_vars => UploadBufferBounded'
  <1> SUFFICES ASSUME IInv, UploadBufferBounded, [Next]_vars PROVE UploadBufferBounded'
    OBVIOUS
  <1>1. ReactorOK
    BY DEF IInv, TypeOK, ReactorOK
  <1>2. CASE UNCHANGED vars
    BY <1>2 DEF vars, poolVars, reactorVars, UploadBufferBounded, Connected
  <1>3. ASSUME NEW t \in SessionThreads, SessionThread(t) PROVE UploadBufferBounded'
    BY <1>3, SessionFault, BuffersStay DEF SessionThread, reactorVars
  <1>4. ASSUME NEW t \in DiskThreads, DiskThread(t) PROVE UploadBufferBounded'
    BY <1>4, DiskFault, BuffersStay DEF DiskThread, reactorVars
  <1>5. CASE Reactor
    <2>1. fault = "none" /\ ReactorStep
      BY <1>5 DEF Reactor
    <2>2. CASE Poll
      BY <2>1, <2>2, BuffersStay DEF Poll, poolVars, NoBufferExit
    <2>3. CASE \E fd \in Fds : on_timeout(fd)
      BY <1>1, <2>1, <2>3, BufferDelete DEF on_timeout, NoBufferExit, ReactorOK
    <2> QED
      BY <1>1, <2>1, <2>2, <2>3, NotifyStepBuffer, CtrlStepBuffer, DataStepBuffer
      DEF ReactorStep, DispatchStep
  <1>6. CASE Client
    <2>1. fault' = fault /\ clients' = clients /\ fault = "none"
      BY <1>6 DEF Client, ClientStep, ClientProgress, poolVars
    <2> QED
      BY <2>1, BuffersStay DEF NoBufferExit
  <1> QED
    BY <1>2, <1>3, <1>4, <1>5, <1>6 DEF Next

\* data_read's exit(1) is dead code and its copies stay inside FILEBUFSIZE,
\* for all buffer sizes with DATASIZE between the mark and the end.
THEOREM UploadBufferIsBounded == Spec => []UploadBufferBounded
  <1>1. Init => UploadBufferBounded
    BY DEF Init, PoolInit, ReactorInit, UploadBufferBounded, Connected
  <1> QED
    BY <1>1, NextBuffer, Invariance, PTL DEF Spec

-----------------------------------------------------------------------------
(* Nothing of a transfer exists for a client that has not logged in.       *)
(* Logging in is asked for by the command handlers only; the argument is   *)
(* that everything after them, in six places of three threads, descends    *)
(* from a command of a session that was logged in, and that no step takes  *)
(* a login back.                                                           *)

\* A session exists and has passed PASS.
LoggedIn(fd) == sessions[fd] # NULL /\ sessions[fd].log_in

\* Of the elements of a queue, those with these actions have a login.
Owned(queue, actions) ==
  \A x \in Elements(queue) : x.action \in actions => LoggedIn(x.fd)

OwnedTasks   == {"PASV", "STOR_START", "TRANS_OK"}
OwnedStarts  == {"INDEX_START", "STOR_START", "RETR_START"}
OwnedNotices == {"PASV", "TRANS_OK", "DATA_WRITE"}

SessionsOwned ==
  \A fd \in Fds : sessions[fd] # NULL /\ sessions[fd].data_action # "DATA_WAITING"
                    => LoggedIn(fd)
DisksOwned        == \A fd \in Fds : disks[fd] # NULL => LoggedIn(fd)
ClientsOwned ==
  \A fd \in Fds : Connected(fd) /\ Transferring(clients[fd]) => LoggedIn(fd)
SessionTasksOwned == \A t \in SessionThreads : Owned(session_pool[t], OwnedTasks)
DiskTasksOwned    == \A t \in DiskThreads : Owned(disk_pool[t], OwnedStarts)
NoticesOwned      == Owned(notify_pipe, OwnedNotices)

\* No step takes a login back.
LoginsKept == \A fd \in Fds : LoggedIn(fd) => LoggedIn(fd)'

\* The property is the conjunction of its six places.
LEMMA LoginParts ==
  TransferNeedsLogin <=> /\ SessionsOwned /\ DisksOwned /\ ClientsOwned
                         /\ SessionTasksOwned /\ DiskTasksOwned /\ NoticesOwned
  BY DEF TransferNeedsLogin, SessionsOwned, DisksOwned, ClientsOwned, SessionTasksOwned,
     DiskTasksOwned, NoticesOwned, Owned, OwnedTasks, OwnedStarts, OwnedNotices,
     LoggedIn

-----------------------------------------------------------------------------
(* Queues.                                                                 *)

\* Appending adds one element to a queue.
LEMMA AppendAdds ==
  ASSUME NEW S, NEW q \in Seq(S), NEW x, NEW y \in Elements(Append(q, x))
  PROVE  y \in Elements(q) \/ y = x
  <1>1. PICK i \in 1 .. Len(Append(q, x)) : y = Append(q, x)[i]
    BY DEF Elements
  <1>2. CASE i \in 1 .. Len(q)
    BY <1>1, <1>2 DEF Elements
  <1>3. CASE i = Len(q) + 1
    BY <1>1, <1>3
  <1> QED
    BY <1>1, <1>2, <1>3

\* A queue whose elements are for known sockets stays owned when logins do.
LEMMA OwnedKept ==
  ASSUME NEW S, NEW q \in Seq(S), NEW actions, Owned(q, actions), LoginsKept,
         \A x \in S : x.fd \in Fds
  PROVE  \A x \in Elements(q) : x.action \in actions => LoggedIn(x.fd)'
  BY ElementsType DEF Owned, LoginsKept

\* It stays owned when its head is taken, ...
LEMMA OwnedTaken ==
  ASSUME NEW S, NEW q \in Seq(S), NEW actions, Owned(q, actions), LoginsKept,
         \A x \in S : x.fd \in Fds, q # <<>>
  PROVE  /\ \A x \in Elements(Tail(q)) : x.action \in actions => LoggedIn(x.fd)'
         /\ Head(q).action \in actions => LoggedIn(Head(q).fd)
  <1>1. Head(q) \in Elements(q) /\ Elements(Tail(q)) \subseteq Elements(q)
    BY TailElements
  <1>2. \A x \in Elements(q) : x.action \in actions => LoggedIn(x.fd)'
    BY OwnedKept
  <1> QED
    BY <1>1, <1>2 DEF Owned

\* ... and when an element is added that has a login, or needs none.
LEMMA OwnedAdded ==
  ASSUME NEW S, NEW q \in Seq(S), NEW actions, Owned(q, actions), LoginsKept,
         \A x \in S : x.fd \in Fds,
         NEW y, y.action \in actions => LoggedIn(y.fd)'
  PROVE  \A x \in Elements(Append(q, y)) : x.action \in actions => LoggedIn(x.fd)'
  <1>1. \A x \in Elements(q) : x.action \in actions => LoggedIn(x.fd)'
    BY OwnedKept
  <1>2. \A x \in Elements(Append(q, y)) : x \in Elements(q) \/ x = y
    BY AppendAdds
  <1> QED
    BY <1>1, <1>2

\* The queues of the session threads: nothing is posted or taken.
LEMMA SessionTasksStay ==
  ASSUME PoolTypeOK, SessionTasksOwned, LoginsKept, session_pool' = session_pool
  PROVE  SessionTasksOwned'
  <1>1. \A t \in SessionThreads : session_pool[t] \in Seq(SessionTask)
    BY DEF PoolTypeOK
  <1>2. \A x \in SessionTask : x.fd \in Fds
    BY SessionTaskFields
  <1>3. ASSUME NEW t \in SessionThreads
        PROVE  \A x \in Elements(session_pool[t]) : x.action \in OwnedTasks => LoggedIn(x.fd)'
    BY <1>1, <1>2, OwnedKept DEF SessionTasksOwned
  <1> QED
    BY <1>3 DEF SessionTasksOwned, Owned, Elements

\* A session thread takes its task.
LEMMA SessionTasksTaken ==
  ASSUME PoolTypeOK, SessionTasksOwned, LoginsKept, NEW t \in SessionThreads,
         NEW action, SessionTake(t, action)
  PROVE  SessionTasksOwned'
  <1>1. \A u \in SessionThreads : session_pool[u] \in Seq(SessionTask)
    BY DEF PoolTypeOK
  <1>2. \A x \in SessionTask : x.fd \in Fds
    BY SessionTaskFields
  <1>3. ASSUME NEW u \in SessionThreads
        PROVE  \A x \in Elements(session_pool'[u]) : x.action \in OwnedTasks => LoggedIn(x.fd)'
    <2>1. CASE u = t
      <3>1. session_pool'[u] = Tail(session_pool[u]) /\ session_pool[u] # <<>>
        BY <2>1 DEF SessionTake, PoolTypeOK
      <3> QED
        BY <1>1, <1>2, <3>1, OwnedTaken DEF SessionTasksOwned
    <2>2. CASE u # t
      <3>1. session_pool'[u] = session_pool[u]
        BY <2>2 DEF SessionTake, PoolTypeOK
      <3> QED
        BY <1>1, <1>2, <3>1, OwnedKept DEF SessionTasksOwned
    <2> QED
      BY <2>1, <2>2
  <1> QED
    BY <1>3 DEF SessionTasksOwned, Owned, Elements

\* A task is posted that has a login, or needs none.
LEMMA SessionTasksAdded ==
  ASSUME PoolTypeOK, SessionTasksOwned, LoginsKept, NEW task,
         post_to_session(task), task.action \in OwnedTasks => LoggedIn(task.fd)'
  PROVE  SessionTasksOwned'
  <1>1. \A u \in SessionThreads : session_pool[u] \in Seq(SessionTask)
    BY DEF PoolTypeOK
  <1>2. \A x \in SessionTask : x.fd \in Fds
    BY SessionTaskFields
  <1>3. ASSUME NEW u \in SessionThreads
        PROVE  \A x \in Elements(session_pool'[u]) : x.action \in OwnedTasks => LoggedIn(x.fd)'
    <2>1. CASE session_pool'[u] = Append(session_pool[u], task)
      BY <1>1, <1>2, <2>1, OwnedAdded DEF SessionTasksOwned
    <2>2. CASE session_pool'[u] = session_pool[u]
      BY <1>1, <1>2, <2>2, OwnedKept DEF SessionTasksOwned
    <2>3. \/ session_pool'[u] = Append(session_pool[u], task)
          \/ session_pool'[u] = session_pool[u]
      BY DEF post_to_session, PoolTypeOK
    <2> QED
      BY <2>1, <2>2, <2>3
  <1> QED
    BY <1>3 DEF SessionTasksOwned, Owned, Elements

\* The queues of the disk threads: nothing is posted or taken.
LEMMA DiskTasksStay ==
  ASSUME PoolTypeOK, DiskTasksOwned, LoginsKept, disk_pool' = disk_pool
  PROVE  DiskTasksOwned'
  <1>1. \A t \in DiskThreads : disk_pool[t] \in Seq(DiskTask)
    BY DEF PoolTypeOK
  <1>2. \A x \in DiskTask : x.fd \in Fds
    BY DiskTaskFields
  <1>3. ASSUME NEW t \in DiskThreads
        PROVE  \A x \in Elements(disk_pool[t]) : x.action \in OwnedStarts => LoggedIn(x.fd)'
    BY <1>1, <1>2, OwnedKept DEF DiskTasksOwned
  <1> QED
    BY <1>3 DEF DiskTasksOwned, Owned, Elements

\* A disk thread takes its task.
LEMMA DiskTasksTaken ==
  ASSUME PoolTypeOK, DiskTasksOwned, LoginsKept, NEW t \in DiskThreads,
         NEW action, DiskTake(t, action)
  PROVE  DiskTasksOwned'
  <1>1. \A u \in DiskThreads : disk_pool[u] \in Seq(DiskTask)
    BY DEF PoolTypeOK
  <1>2. \A x \in DiskTask : x.fd \in Fds
    BY DiskTaskFields
  <1>3. ASSUME NEW u \in DiskThreads
        PROVE  \A x \in Elements(disk_pool'[u]) : x.action \in OwnedStarts => LoggedIn(x.fd)'
    <2>1. CASE u = t
      <3>1. disk_pool'[u] = Tail(disk_pool[u]) /\ disk_pool[u] # <<>>
        BY <2>1 DEF DiskTake, PoolTypeOK
      <3> QED
        BY <1>1, <1>2, <3>1, OwnedTaken DEF DiskTasksOwned
    <2>2. CASE u # t
      <3>1. disk_pool'[u] = disk_pool[u]
        BY <2>2 DEF DiskTake, PoolTypeOK
      <3> QED
        BY <1>1, <1>2, <3>1, OwnedKept DEF DiskTasksOwned
    <2> QED
      BY <2>1, <2>2
  <1> QED
    BY <1>3 DEF DiskTasksOwned, Owned, Elements

\* A task is posted that has a login, or needs none.
LEMMA DiskTasksAdded ==
  ASSUME PoolTypeOK, DiskTasksOwned, LoginsKept, NEW task,
         post_to_disk(task), task.action \in OwnedStarts => LoggedIn(task.fd)'
  PROVE  DiskTasksOwned'
  <1>1. \A u \in DiskThreads : disk_pool[u] \in Seq(DiskTask)
    BY DEF PoolTypeOK
  <1>2. \A x \in DiskTask : x.fd \in Fds
    BY DiskTaskFields
  <1>3. ASSUME NEW u \in DiskThreads
        PROVE  \A x \in Elements(disk_pool'[u]) : x.action \in OwnedStarts => LoggedIn(x.fd)'
    <2>1. CASE disk_pool'[u] = Append(disk_pool[u], task)
      BY <1>1, <1>2, <2>1, OwnedAdded DEF DiskTasksOwned
    <2>2. CASE disk_pool'[u] = disk_pool[u]
      BY <1>1, <1>2, <2>2, OwnedKept DEF DiskTasksOwned
    <2>3. \/ disk_pool'[u] = Append(disk_pool[u], task)
          \/ disk_pool'[u] = disk_pool[u]
      BY DEF post_to_disk, PoolTypeOK
    <2> QED
      BY <2>1, <2>2, <2>3
  <1> QED
    BY <1>3 DEF DiskTasksOwned, Owned, Elements

\* The notification pipe: nothing is written or read.
LEMMA NoticesStayOwned ==
  ASSUME PoolTypeOK, NoticesOwned, LoginsKept, notify_pipe' = notify_pipe
  PROVE  NoticesOwned'
  <1>1. notify_pipe \in Seq(Notification) /\ \A x \in Notification : x.fd \in Fds
    BY NotificationFields DEF PoolTypeOK
  <1>2. \A x \in Elements(notify_pipe) : x.action \in OwnedNotices => LoggedIn(x.fd)'
    BY <1>1, OwnedKept DEF NoticesOwned
  <1> QED
    BY <1>2 DEF NoticesOwned, Owned, Elements

\* The reactor reads a record.
LEMMA NoticesTaken ==
  ASSUME PoolTypeOK, NoticesOwned, LoginsKept, notify_pipe # <<>>,
         notify_pipe' = Tail(notify_pipe)
  PROVE  NoticesOwned'
  <1>1. notify_pipe \in Seq(Notification) /\ \A x \in Notification : x.fd \in Fds
    BY NotificationFields DEF PoolTypeOK
  <1>2. \A x \in Elements(notify_pipe') : x.action \in OwnedNotices => LoggedIn(x.fd)'
    BY <1>1, OwnedTaken DEF NoticesOwned
  <1> QED
    BY <1>2 DEF NoticesOwned, Owned, Elements

\* A record is written that has a login, or needs none.
LEMMA NoticesAdded ==
  ASSUME PoolTypeOK, NoticesOwned, LoginsKept, NEW n, notify(n),
         n.action \in OwnedNotices => LoggedIn(n.fd)'
  PROVE  NoticesOwned'
  <1>1. notify_pipe \in Seq(Notification) /\ \A x \in Notification : x.fd \in Fds
    BY NotificationFields DEF PoolTypeOK
  <1>2. notify_pipe' = Append(notify_pipe, n)
    BY DEF notify
  <1>3. \A x \in Elements(notify_pipe') : x.action \in OwnedNotices => LoggedIn(x.fd)'
    BY <1>1, <1>2, OwnedAdded DEF NoticesOwned
  <1> QED
    BY <1>3 DEF NoticesOwned, Owned, Elements

\* An answer needs no login; the two other records of a session thread do.
LEMMA PostOwned ==
  ASSUME PoolTypeOK, NoticesOwned, LoginsKept, NEW fd, NEW code, NEW port,
         \/ Post(fd, code, port)
         \/ PostTransferOk(fd, code) /\ LoggedIn(fd)'
         \/ PasvPost(fd) /\ LoggedIn(fd)'
  PROVE  NoticesOwned'
  BY NoticesAdded DEF Post, PostTransferOk, PasvPost, OwnedNotices

-----------------------------------------------------------------------------
(* The session threads.                                                    *)

\* What a handler of session fd leaves, s being the session it found.
HandlerOwned == SessionsOwned' /\ LoginsKept /\ DiskTasksOwned' /\ NoticesOwned'

\* The session a handler works on: login and data state as they were stored.
Found(fd, s) ==
  /\ sessions[fd] # NULL
  /\ s.log_in = sessions[fd].log_in
  /\ s.data_action = sessions[fd].data_action

\* Storing a session that keeps its login, and has one if it needs one.
LEMMA StoreOwned ==
  ASSUME SessionTypeOK, SessionsOwned, NEW fd \in Fds, NEW s \in Session,
         LoggedIn(fd) => s.log_in, s.data_action # "DATA_WAITING" => s.log_in,
         Store(fd, s)
  PROVE  SessionsOwned' /\ LoginsKept /\ (s.log_in => LoggedIn(fd)')
  BY SessionNullAssumption DEF SessionTypeOK, SessionsOwned, LoginsKept, LoggedIn, Store

\* One answer.
LEMMA AnswerOwned ==
  ASSUME PoolTypeOK, SessionTypeOK, SessionsOwned, DiskTasksOwned, NoticesOwned,
         NEW fd \in Fds, NEW s \in Session, NEW code,
         LoggedIn(fd) => s.log_in, s.data_action # "DATA_WAITING" => s.log_in,
         Answer(fd, s, code)
  PROVE  HandlerOwned
  <1>1. SessionsOwned' /\ LoginsKept
    BY StoreOwned DEF Answer
  <1>2. NoticesOwned'
    BY <1>1, PostOwned DEF Answer
  <1>3. DiskTasksOwned'
    BY <1>1, DiskTasksStay DEF Answer
  <1> QED
    BY <1>1, <1>2, <1>3 DEF HandlerOwned

\* No answer, and the data state moves on.
LEMMA AwaitDataOwned ==
  ASSUME PoolTypeOK, SessionTypeOK, SessionsOwned, DiskTasksOwned, NoticesOwned,
         NEW fd \in Fds, NEW s \in Session, s.log_in, AwaitData(fd, s)
  PROVE  HandlerOwned
  <1>1. SessionsOwned' /\ LoginsKept
    BY StoreOwned DEF AwaitData
  <1> QED
    BY <1>1, NoticesStayOwned, DiskTasksStay DEF AwaitData, HandlerOwned

\* The command handlers.  The five that start a transfer look at log_in.
LEMMA CommandOwned ==
  ASSUME PoolTypeOK, FileTypeOK, SessionTypeOK, SessionsOwned, DiskTasksOwned,
         NoticesOwned, NEW fd \in Fds, NEW s \in Session, Found(fd, s),
         NEW c \in Command, run_fsm_command(fd, s, c)
  PROVE  HandlerOwned
  <1> DEFINE named == [s EXCEPT !.file_name = c.file]
  <1>1. /\ LoggedIn(fd) <=> s.log_in
        /\ s.data_action # "DATA_WAITING" => s.log_in
    BY DEF Found, LoggedIn, SessionsOwned
  <1>2. ASSUME NEW r \in Session, NEW code, Answer(fd, r, code),
               s.log_in => r.log_in, r.data_action = s.data_action
        PROVE  HandlerOwned
    BY <1>1, <1>2, AnswerOwned
  <1>3. ASSUME NEW code, Answer(fd, s, code) PROVE HandlerOwned
    BY <1>2, <1>3
  <1>4. CASE c.verb = "USER" /\ com_USER(fd, s, c)
    <2>1. c.user \in UserArgs
      BY <1>4, CommandFields
    <2>2. CASE c.user = "BGIShare"
      <3> DEFINE r == [s EXCEPT !.username = "BGIShare"]
      <3>1. r \in Session /\ r.log_in = s.log_in /\ r.data_action = s.data_action
        BY DEF Session, UserNames
      <3>2. Answer(fd, r, 331)
        BY <1>4, <2>2 DEF com_USER
      <3> HIDE DEF r
      <3> QED
        BY <1>2, <3>1, <3>2
    <2>3. CASE \E u \in Seek(c.user) :
                 Answer(fd, [s EXCEPT !.user_info = u, !.username = u], 331)
      <3>1. PICK u \in Seek(c.user) :
                 Answer(fd, [s EXCEPT !.user_info = u, !.username = u], 331)
        BY <2>3
      <3> DEFINE r == [s EXCEPT !.user_info = u, !.username = u]
      <3>2. u \in Users
        BY <2>1, SessionAssumption DEF Seek
      <3>3. r \in Session /\ r.log_in = s.log_in /\ r.data_action = s.data_action
        BY <3>2 DEF Session, UserNames
      <3>4. Answer(fd, r, 331)
        BY <3>1
      <3> HIDE DEF r
      <3> QED
        BY <1>2, <3>3, <3>4
    <2>4. CASE Answer(fd, IF c.user = "Anonymous"
                          THEN [s EXCEPT !.username = "Anonymous"] ELSE s, 530)
      <3> DEFINE r == IF c.user = "Anonymous"
                      THEN [s EXCEPT !.username = "Anonymous"] ELSE s
      <3>1. r \in Session /\ r.log_in = s.log_in /\ r.data_action = s.data_action
        BY DEF Session, UserNames
      <3>2. Answer(fd, r, 530)
        BY <2>4
      <3> HIDE DEF r
      <3> QED
        BY <1>2, <3>1, <3>2
    <2> QED
      BY <1>4, <2>2, <2>3, <2>4 DEF com_USER
  <1>5. CASE c.verb = "PASS" /\ com_PASS(fd, s, c)
    <2> DEFINE r == [s EXCEPT !.log_in = TRUE]
    <2>1. r \in Session /\ r.log_in /\ r.data_action = s.data_action
      BY DEF Session
    <2>2. CASE Answer(fd, r, 230)
      <3> HIDE DEF r
      <3> QED
        BY <1>2, <2>1, <2>2
    <2>3. CASE /\ s.user_info # NULL
               /\ \E account \in Reads(s.user_info) :
                    Answer(fd, [s EXCEPT !.log_in = TRUE,
                                         !.upload_per = account.upload_per,
                                         !.download_per = account.download_per], 230)
      <3>1. PICK account \in Reads(s.user_info) :
                    Answer(fd, [s EXCEPT !.log_in = TRUE,
                                         !.upload_per = account.upload_per,
                                         !.download_per = account.download_per], 230)
        BY <2>3
      <3> DEFINE q == [s EXCEPT !.log_in = TRUE,
                                !.upload_per = account.upload_per,
                                !.download_per = account.download_per]
      <3>2. account \in Account
        BY <2>3, SessionAssumption DEF Session, Reads
      <3>3. q \in Session /\ q.log_in /\ q.data_action = s.data_action
        BY <3>2 DEF Session, Account
      <3>4. Answer(fd, q, 230)
        BY <3>1
      <3> HIDE DEF q
      <3> QED
        BY <1>2, <3>3, <3>4
    <2>4. CASE Store(fd, r) /\ UNCHANGED <<notify_pipe, disk_pool>>
      <3>1. SessionsOwned' /\ LoginsKept
        <4> HIDE DEF r
        <4> QED
          BY <2>1, <2>4, StoreOwned
      <3> QED
        BY <2>4, <3>1, NoticesStayOwned, DiskTasksStay DEF HandlerOwned
    <2>5. CASE Answer(fd, s, 530)
      BY <1>3, <2>5
    <2> QED
      BY <1>5, <2>2, <2>3, <2>4, <2>5 DEF com_PASS
  <1>6. CASE c.verb = "APPE" /\ com_APPE(fd, s, c)
    <2> DEFINE r == [s EXCEPT !.file_name = c.file, !.rest_size = Size(c.file),
                              !.data_action = "DATA_STOR"]
    <2>1. c.file \in Files
      BY <1>6, CommandFields
    <2>2. r \in Session /\ r.log_in = s.log_in
      BY <2>1, SizeType DEF Session, DataActions
    <2>3. \/ s.log_in /\ AwaitData(fd, r)
          \/ \E code \in {530, 550} : Answer(fd, s, code)
      BY <1>6 DEF com_APPE
    <2> HIDE DEF r
    <2> QED
      BY <1>3, <2>2, <2>3, AwaitDataOwned
  <1>7. CASE c.verb = "SIZE" /\ com_SIZE(fd, s, c)
    <2>1. c.file \in Files
      BY <1>7, CommandFields
    <2>2. named \in Session /\ named.log_in = s.log_in /\ named.data_action = s.data_action
      BY <2>1 DEF Session
    <2>3. \E code \in {550, 213} : Answer(fd, named, code)
      BY <1>7 DEF com_SIZE
    <2> HIDE DEF named
    <2> QED
      BY <1>2, <2>2, <2>3
  <1>8. CASE c.verb = "REST" /\ com_REST(fd, s, c)
    <2> DEFINE r == [s EXCEPT !.rest_size = c.rest]
    <2>1. c.rest \in Nat
      BY <1>8, CommandFields, DataAssumption
    <2>2. r \in Session /\ r.log_in = s.log_in /\ r.data_action = s.data_action
      BY <2>1 DEF Session
    <2>3. Answer(fd, r, 350)
      BY <1>8 DEF com_REST
    <2> HIDE DEF r
    <2> QED
      BY <1>2, <2>2, <2>3
  <1>9. CASE c.verb = "PASV" /\ com_PASV(fd, s)
    <2>1. CASE s.log_in
      <3>1. PasvPost(fd) /\ Store(fd, s) /\ UNCHANGED disk_pool
        BY <1>9, <2>1 DEF com_PASV
      <3>2. SessionsOwned' /\ LoginsKept /\ LoggedIn(fd)'
        BY <1>1, <2>1, <3>1, StoreOwned
      <3>3. NoticesOwned'
        BY <3>1, <3>2, PostOwned
      <3> QED
        BY <3>1, <3>2, <3>3, DiskTasksStay DEF HandlerOwned
    <2>2. CASE ~s.log_in
      BY <1>3, <1>9, <2>2 DEF com_PASV
    <2> QED
      BY <2>1, <2>2
  <1>10. CASE c.verb = "LIST" /\ com_LIST(fd, s)
    <2> DEFINE r == [s EXCEPT !.data_action = "DATA_LIST"]
    <2>1. r \in Session /\ r.log_in = s.log_in
      BY DEF Session, DataActions
    <2>2. \/ s.log_in /\ AwaitData(fd, r)
          \/ \E code \in {530, 425} : Answer(fd, s, code)
      BY <1>10 DEF com_LIST
    <2> HIDE DEF r
    <2> QED
      BY <1>3, <2>1, <2>2, AwaitDataOwned
  <1>11. CASE \/ c.verb = "STOR" /\ com_STOR(fd, s, c)
              \/ c.verb = "RETR" /\ com_RETR(fd, s, c)
    <2> DEFINE stor == [named EXCEPT !.data_action = "DATA_STOR"]
               retr == [named EXCEPT !.data_action = "DATA_RETR"]
    <2>1. c.file \in Files
      BY <1>11, CommandFields
    <2>2. /\ named \in Session /\ named.log_in = s.log_in
          /\ named.data_action = s.data_action
      BY <2>1 DEF Session
    <2>3. \/ s.log_in /\ (AwaitData(fd, stor) \/ AwaitData(fd, retr))
          \/ \E code \in {530, 425, 550} : Answer(fd, s, code)
          \/ \E code \in {550, 554} : Answer(fd, named, code)
      BY <1>11 DEF com_STOR, com_RETR
    <2> HIDE DEF named
    <2>4. stor \in Session /\ stor.log_in = s.log_in
      BY <2>2 DEF Session, DataActions
    <2>5. retr \in Session /\ retr.log_in = s.log_in
      BY <2>2 DEF Session, DataActions
    <2> HIDE DEF stor, retr
    <2> QED
      BY <1>2, <1>3, <2>2, <2>3, <2>4, <2>5, AwaitDataOwned
  <1>12. CASE \/ c.verb = "TYPE" /\ com_TYPE(fd, s)
              \/ c.verb = "CWD"  /\ com_CWD(fd, s)
              \/ c.verb = "PWD"  /\ com_PWD(fd, s)
              \/ c.verb = "SYST" /\ com_SYST(fd, s)
              \/ c.verb = "FEAT" /\ com_FEAT(fd, s)
              \/ c.verb = "BAD"  /\ com_BAD(fd, s)
    BY <1>3, <1>12 DEF com_TYPE, com_CWD, com_PWD, com_SYST, com_FEAT, com_BAD
  <1> QED
    BY <1>4, <1>5, <1>6, <1>7, <1>8, <1>9, <1>10, <1>11, <1>12 DEF run_fsm_command

\* A transfer begins: a session that has a login, a task for the disk pool.
LEMMA LoadOwned ==
  ASSUME PoolTypeOK, SessionTypeOK, SessionsOwned, DiskTasksOwned, NoticesOwned,
         NEW fd \in Fds, NEW s \in Session, s.log_in,
         NEW task, task.fd = fd,
         Post(fd, 150, NULL), Store(fd, s), post_to_disk(task)
  PROVE  HandlerOwned
  <1>1. SessionsOwned' /\ LoginsKept /\ LoggedIn(fd)'
    BY StoreOwned
  <1>2. NoticesOwned'
    BY <1>1, PostOwned
  <1>3. DiskTasksOwned'
    BY <1>1, DiskTasksAdded
  <1> QED
    BY <1>1, <1>2, <1>3 DEF HandlerOwned

\* An accepted data connection is served for a data state that has a login.
LEMMA DataAcceptOwned ==
  ASSUME PoolTypeOK, SessionTypeOK, SessionsOwned, DiskTasksOwned, NoticesOwned,
         NEW fd \in Fds, NEW s \in Session, s = sessions[fd], s.log_in,
         run_list_load(fd, s) \/ run_stor_load(fd, s) \/ run_retr_load(fd, s)
  PROVE  HandlerOwned
  <1>1. CASE run_list_load(fd, s)
    <2> DEFINE r    == [s EXCEPT !.data_action = "DATA_INDEX_DOWNLOAD"]
               task == [fd |-> fd, action |-> "INDEX_START"]
    <2>1. r \in Session /\ r.log_in
      BY DEF Session, DataActions
    <2>2. task.fd = fd
      OBVIOUS
    <2>3. Post(fd, 150, NULL) /\ Store(fd, r) /\ post_to_disk(task)
      BY <1>1 DEF run_list_load
    <2> HIDE DEF r, task
    <2> QED
      BY <2>1, <2>2, <2>3, LoadOwned
  <1>2. CASE run_stor_load(fd, s)
    <2> DEFINE task == [fd |-> fd, action |-> "STOR_START",
                        path |-> s.file_name, rest |-> s.rest_size]
    <2>1. task.fd = fd
      OBVIOUS
    <2>2. post_to_disk(task) /\ UNCHANGED <<sessions, notify_pipe>>
      BY <1>2 DEF run_stor_load
    <2> HIDE DEF task
    <2>3. SessionsOwned' /\ LoginsKept /\ LoggedIn(fd)'
      BY <2>2, SessionNullAssumption DEF SessionsOwned, LoginsKept, LoggedIn
    <2> QED
      BY <2>1, <2>2, <2>3, NoticesStayOwned, DiskTasksAdded DEF HandlerOwned
  <1>3. CASE run_retr_load(fd, s)
    <2> DEFINE r    == [s EXCEPT !.data_action = "DATA_FILE_DOWNLOAD"]
               task == [fd |-> fd, action |-> "RETR_START",
                        path |-> s.file_name, rest |-> s.rest_size]
    <2>1. r \in Session /\ r.log_in
      BY DEF Session, DataActions
    <2>2. task.fd = fd
      OBVIOUS
    <2>3. Post(fd, 150, NULL) /\ Store(fd, r) /\ post_to_disk(task)
      BY <1>3 DEF run_retr_load
    <2> HIDE DEF r, task
    <2> QED
      BY <2>1, <2>2, <2>3, LoadOwned
  <1> QED
    BY <1>1, <1>2, <1>3

\* The end of a transfer, and the record that announces it.
LEMMA TransferOkOwned ==
  ASSUME PoolTypeOK, SessionTypeOK, SessionsOwned, DiskTasksOwned, NoticesOwned,
         NEW fd \in Fds, NEW s \in Session, s.log_in, run_transfer_ok(fd, s)
  PROVE  HandlerOwned
  <1> DEFINE r == [s EXCEPT !.data_action = "DATA_WAITING"]
  <1>1. PostTransferOk(fd, 226) /\ Store(fd, r) /\ disk_pool' = disk_pool
    BY DEF run_transfer_ok
  <1>2. r \in Session /\ r.log_in
    BY DEF Session, DataActions
  <1> HIDE DEF r
  <1>3. SessionsOwned' /\ LoginsKept /\ LoggedIn(fd)'
    BY <1>1, <1>2, StoreOwned
  <1>4. NoticesOwned'
    BY <1>1, <1>3, PostOwned
  <1> QED
    BY <1>1, <1>3, <1>4, DiskTasksStay DEF HandlerOwned

\* One task of a session thread.
LEMMA SessionStepOwned ==
  ASSUME PoolTypeOK, FileTypeOK, SessionTypeOK, SessionsOwned, SessionTasksOwned,
         DiskTasksOwned, NoticesOwned, NEW t \in SessionThreads, SessionStep(t)
  PROVE  HandlerOwned /\ SessionTasksOwned'
  <1> DEFINE task == Head(session_pool[t])
             fd   == task.fd
             s    == sessions[fd]
  <1>1. ASSUME NEW action, SessionTake(t, action)
        PROVE  /\ fd \in Fds /\ task \in SessionTask /\ task.action = action
               /\ action \in OwnedTasks => LoggedIn(fd)
               /\ HandlerOwned => SessionTasksOwned'
    <2>1. /\ session_pool[t] \in Seq(SessionTask) /\ session_pool[t] # <<>>
          /\ task \in SessionTask /\ task.action = action /\ fd \in Fds
      BY <1>1, SessionTakeType, SessionTaskFields DEF PoolTypeOK, SessionTake
    <2>2. task \in Elements(session_pool[t])
      BY <2>1, TailElements
    <2> QED
      BY <1>1, <2>1, <2>2, SessionTasksTaken DEF SessionTasksOwned, Owned, HandlerOwned
  <1>2. ASSUME NEW action, ForSession(t, action)
        PROVE  /\ fd \in Fds /\ task \in SessionTask /\ task.action = action
               /\ s # NULL /\ s \in Session
               /\ action \in OwnedTasks => s.log_in
               /\ s.data_action # "DATA_WAITING" => s.log_in
               /\ HandlerOwned => SessionTasksOwned'
    BY <1>1, <1>2 DEF ForSession, SessionTypeOK, SessionsOwned, LoggedIn
  <1>3. UNCHANGED sessions => SessionsOwned' /\ LoginsKept
    BY DEF SessionsOwned, LoginsKept, LoggedIn
  <1>4. CASE SessionAccept(t)
    <2>1. SessionTake(t, "CTRL_ACCEPT") /\ Post(fd, 220, NULL) /\ disk_pool' = disk_pool
      BY <1>4 DEF SessionAccept
    <2>2. fd \in Fds
      BY <1>1, <2>1
    <2>3. SessionsOwned' /\ LoginsKept
      <3>1. CASE sessions[fd] = NULL
        <4>1. NewSession \in Session /\ NewSession.data_action = "DATA_WAITING"
          BY DEF NewSession, Session, DataActions, UserNames
        <4>2. Store(fd, NewSession) /\ ~LoggedIn(fd)
          BY <1>4, <3>1 DEF SessionAccept, LoggedIn
        <4> QED
          BY <2>2, <4>1, <4>2, StoreOwned
      <3>2. CASE sessions[fd] # NULL
        BY <1>3, <1>4, <3>2 DEF SessionAccept
      <3> QED
        BY <3>1, <3>2
    <2>4. NoticesOwned'
      BY <2>1, <2>2, <2>3, PostOwned
    <2> QED
      BY <1>1, <2>1, <2>3, <2>4, DiskTasksStay DEF HandlerOwned
  <1>5. CASE SessionPasv(t)
    <2> DEFINE r == [s EXCEPT !.data_action = "DATA_PASV_OK"]
    <2>1. ForSession(t, "PASV") /\ run_pasv(fd, s, task.port)
      BY <1>5 DEF SessionPasv
    <2>2. /\ fd \in Fds /\ s \in Session /\ s.log_in /\ task.port \in Ports
      BY <1>2, <2>1, SessionTaskFields DEF OwnedTasks
    <2>3. r \in Session /\ r.log_in
      BY <2>2 DEF Session, DataActions
    <2>4. \/ Post(fd, 227, task.port) /\ Store(fd, r) /\ disk_pool' = disk_pool
          \/ Answer(fd, s, 502)
      BY <2>1 DEF run_pasv
    <2> HIDE DEF r
    <2>5. CASE Answer(fd, s, 502)
      BY <1>2, <2>1, <2>2, <2>5, AnswerOwned
    <2>6. CASE Post(fd, 227, task.port) /\ Store(fd, r) /\ disk_pool' = disk_pool
      <3>1. SessionsOwned' /\ LoginsKept
        BY <2>2, <2>3, <2>6, StoreOwned
      <3>2. NoticesOwned'
        BY <2>2, <2>6, <3>1, PostOwned
      <3> QED
        BY <1>2, <2>1, <2>6, <3>1, <3>2, DiskTasksStay DEF HandlerOwned
    <2> QED
      BY <2>4, <2>5, <2>6
  <1>6. CASE SessionDataAccept(t)
    <2>1. ForSession(t, "DATA_ACCEPT")
      BY <1>6 DEF SessionDataAccept
    <2>2. CASE UNCHANGED <<sessions, notify_pipe, disk_pool, fault>>
      BY <1>2, <1>3, <2>1, <2>2, NoticesStayOwned, DiskTasksStay DEF HandlerOwned
    <2>3. CASE /\ s.data_action \in {"DATA_LIST", "DATA_STOR", "DATA_RETR"}
               /\ run_list_load(fd, s) \/ run_stor_load(fd, s) \/ run_retr_load(fd, s)
      <3>1. fd \in Fds /\ s \in Session /\ s.log_in
        BY <1>2, <2>1, <2>3
      <3> QED
        BY <1>2, <2>1, <2>3, <3>1, DataAcceptOwned
    <2> QED
      BY <1>6, <2>2, <2>3 DEF SessionDataAccept
  <1>7. CASE SessionStorStart(t)
    <2>1. ForSession(t, "STOR_START") /\ Answer(fd, s, 150)
      BY <1>7 DEF SessionStorStart, run_stor_start
    <2> QED
      BY <1>2, <2>1, AnswerOwned DEF OwnedTasks
  <1>8. CASE SessionTransOk(t)
    <2>1. ForSession(t, "TRANS_OK") /\ run_transfer_ok(fd, s)
      BY <1>8 DEF SessionTransOk
    <2>2. fd \in Fds /\ s \in Session /\ s.log_in
      BY <1>2, <2>1 DEF OwnedTasks
    <2> QED
      BY <1>2, <2>1, <2>2, TransferOkOwned
  <1>9. CASE SessionRead(t)
    <2> DEFINE lines == s.recv_command \o task.buf
               rest  == [s EXCEPT !.recv_command = Tail(lines)]
    <2>1. ForSession(t, "READ") /\ run_fsm_command(fd, rest, Head(lines))
      BY <1>9 DEF SessionRead
    <2>2. /\ fd \in Fds /\ s # NULL /\ s \in Session
          /\ s.recv_command \in Seq(Command)
          /\ task.buf \in Seq(Command) /\ task.buf # <<>>
      BY <1>2, <2>1, SessionTaskFields DEF Session
    <2>3. lines \in Seq(Command) /\ lines # <<>>
      BY <2>2
    <2> HIDE DEF lines
    <2>4. Head(lines) \in Command /\ Tail(lines) \in Seq(Command)
      BY <2>3, HeadTailProperties
    <2>5. /\ rest \in Session
          /\ rest.log_in = s.log_in /\ rest.data_action = s.data_action
      BY <2>2, <2>4 DEF Session
    <2> HIDE DEF rest
    <2>6. HandlerOwned
      BY <2>1, <2>2, <2>4, <2>5, CommandOwned DEF Found
    <2> QED
      BY <1>2, <2>1, <2>6
  <1>10. CASE SessionDropped(t)
    <2>1. PICK action : SessionTake(t, action)
      BY <1>10 DEF SessionDropped
    <2> QED
      BY <1>1, <1>3, <1>10, <2>1, NoticesStayOwned, DiskTasksStay
      DEF SessionDropped, HandlerOwned
  <1> QED
    BY <1>4, <1>5, <1>6, <1>7, <1>8, <1>9, <1>10 DEF SessionStep

-----------------------------------------------------------------------------
(* The disk threads.                                                       *)

\* Work on the disk_info of a socket that has a login.
LEMMA DisksChange ==
  ASSUME DiskTypeOK, DisksOwned, LoginsKept, NEW fd \in Fds, LoggedIn(fd),
         \A g \in Fds : g # fd => disks'[g] = disks[g]
  PROVE  DisksOwned'
  <1>1. ASSUME NEW g \in Fds, disks'[g] # NULL PROVE LoggedIn(g)'
    BY <1>1 DEF DisksOwned, LoginsKept
  <1> QED
    BY <1>1 DEF DisksOwned

\* No disk_info changes.
LEMMA DisksStay ==
  ASSUME DisksOwned, LoginsKept, disks' = disks
  PROVE  DisksOwned'
  BY DEF DisksOwned, LoginsKept, LoggedIn

\* A signal for a session that has a login.
LEMMA SignalOwned ==
  ASSUME PoolTypeOK, SessionTasksOwned, LoginsKept, NEW fd \in Fds, LoggedIn(fd),
         NEW action, post_to_session([fd |-> fd, action |-> action])
  PROVE  SessionTasksOwned'
  <1>1. LoggedIn(fd)'
    BY DEF LoginsKept
  <1> QED
    BY <1>1, SessionTasksAdded

\* A block for a session that has a login.
LEMMA BlockOwned ==
  ASSUME PoolTypeOK, NoticesOwned, LoginsKept, NEW fd \in Fds, LoggedIn(fd),
         NEW data, DataPost(fd, data)
  PROVE  NoticesOwned'
  <1>1. LoggedIn(fd)'
    BY DEF LoginsKept
  <1> QED
    BY <1>1, NoticesAdded DEF DataPost

\* One task of a disk thread: the task that starts a transfer has a login,
\* and so has the disk_info every other task but DiskMissing works on.
LEMMA DiskStepOwned ==
  ASSUME PoolTypeOK, DiskTypeOK, SessionTasksOwned, DiskTasksOwned, NoticesOwned,
         DisksOwned, LoginsKept, NEW t \in DiskThreads, DiskStep(t)
  PROVE  DisksOwned' /\ SessionTasksOwned' /\ DiskTasksOwned' /\ NoticesOwned'
  <1> DEFINE task == Head(disk_pool[t])
             fd   == task.fd
  <1>1. ASSUME NEW action, DiskTake(t, action)
        PROVE  /\ fd \in Fds /\ DiskTasksOwned'
               /\ action \in OwnedStarts => LoggedIn(fd)
    <2>1. /\ disk_pool[t] \in Seq(DiskTask) /\ disk_pool[t] # <<>>
          /\ task \in DiskTask /\ task.action = action /\ fd \in Fds
      BY <1>1, DiskTakeType, DiskTaskFields DEF PoolTypeOK, DiskTake
    <2>2. task \in Elements(disk_pool[t])
      BY <2>1, TailElements
    <2> QED
      BY <1>1, <2>1, <2>2, DiskTasksTaken DEF DiskTasksOwned, Owned
  <1>2. ASSUME NEW action, ForDisk(t, action)
        PROVE  fd \in Fds /\ DiskTasksOwned' /\ LoggedIn(fd)
    BY <1>1, <1>2 DEF ForDisk, DisksOwned
  <1>3. ASSUME NEW info, NEW action,
               add_disk(fd, info) \/ SetAction(fd, action) \/ del_disk(fd)
        PROVE  \A g \in Fds : g # fd => disks'[g] = disks[g]
    BY <1>3 DEF add_disk, SetAction, del_disk, DiskTypeOK
  <1>4. CASE DiskIndexStart(t) \/ DiskRetrStart(t)
    <2>1. /\ DiskTake(t, "INDEX_START") \/ DiskTake(t, "RETR_START")
          /\ \E info : add_disk(fd, info)
          /\ \E data : DataPost(fd, data)
          /\ session_pool' = session_pool
      BY <1>4, Zenon DEF DiskIndexStart, DiskRetrStart
    <2>2. fd \in Fds /\ LoggedIn(fd) /\ DiskTasksOwned'
      BY <1>1, <2>1 DEF OwnedStarts
    <2> QED
      BY <1>3, <2>1, <2>2, DisksChange, BlockOwned, SessionTasksStay
  <1>5. CASE DiskStorStart(t)
    <2>1. /\ DiskTake(t, "STOR_START")
          /\ \E info : add_disk(fd, info)
          /\ post_to_session([fd |-> fd, action |-> "STOR_START"])
          /\ notify_pipe' = notify_pipe
      BY <1>5, Zenon DEF DiskStorStart
    <2>2. fd \in Fds /\ LoggedIn(fd) /\ DiskTasksOwned'
      BY <1>1, <2>1 DEF OwnedStarts
    <2> QED
      BY <1>3, <2>1, <2>2, DisksChange, SignalOwned, NoticesStayOwned
  <1>6. CASE DiskRetrStartFails(t)
    <2>1. /\ DiskTake(t, "RETR_START")
          /\ \E info : add_disk(fd, info)
          /\ session_pool' = session_pool /\ notify_pipe' = notify_pipe
      BY <1>6, Zenon DEF DiskRetrStartFails
    <2>2. fd \in Fds /\ LoggedIn(fd) /\ DiskTasksOwned'
      BY <1>1, <2>1 DEF OwnedStarts
    <2> QED
      BY <1>3, <2>1, <2>2, DisksChange, SessionTasksStay, NoticesStayOwned
  <1>7. CASE DiskIndexLoading(t)
    <2>1. /\ ForDisk(t, "WRITE_DONE")
          /\ \E rest : disks' = [disks EXCEPT ![fd].data_action = IndexAction(rest),
                                              ![fd].cur_dir = rest]
          /\ \E data : DataPost(fd, data)
          /\ session_pool' = session_pool
      BY <1>7, Zenon DEF DiskIndexLoading
    <2>2. fd \in Fds /\ LoggedIn(fd) /\ DiskTasksOwned'
      BY <1>2, <2>1
    <2>3. \A g \in Fds : g # fd => disks'[g] = disks[g]
      BY <2>1, <2>2 DEF DiskTypeOK
    <2> QED
      BY <2>1, <2>2, <2>3, DisksChange, BlockOwned, SessionTasksStay
  <1>8. CASE DiskRetrLoading(t)
    <2>1. /\ ForDisk(t, "WRITE_DONE")
          /\ disks' = disks \/ SetAction(fd, "DISK_RETR_FINISH")
          /\ \E data : DataPost(fd, data)
          /\ session_pool' = session_pool
      BY <1>8, Zenon DEF DiskRetrLoading
    <2>2. fd \in Fds /\ LoggedIn(fd) /\ DiskTasksOwned'
      BY <1>2, <2>1
    <2>3. \A g \in Fds : g # fd => disks'[g] = disks[g]
      BY <1>3, <2>1
    <2> QED
      BY <2>1, <2>2, <2>3, DisksChange, BlockOwned, SessionTasksStay
  <1>9. CASE DiskDownloadDone(t) \/ DiskStorOk(t)
    <2>1. /\ ForDisk(t, "WRITE_DONE") \/ ForDisk(t, "STOR_OK")
          /\ post_to_session([fd |-> fd, action |-> "TRANS_OK"])
          /\ del_disk(fd) /\ notify_pipe' = notify_pipe
      BY <1>9, Zenon DEF DiskDownloadDone, DiskStorOk, TransOk
    <2>2. fd \in Fds /\ LoggedIn(fd) /\ DiskTasksOwned'
      BY <1>2, <2>1
    <2> QED
      BY <1>3, <2>1, <2>2, DisksChange, SignalOwned, NoticesStayOwned
  <1>10. CASE \/ DiskRetrLoadingFails(t) \/ DiskStoring(t)
              \/ DiskStoringFails(t) \/ DiskStorOkFails(t)
    <2>1. /\ \E action : ForDisk(t, action)
          /\ \E action : SetAction(fd, action)
          /\ session_pool' = session_pool /\ notify_pipe' = notify_pipe
      BY <1>10, Zenon DEF DiskRetrLoadingFails, DiskStoring, DiskStoringFails,
         DiskStorOkFails
    <2>2. fd \in Fds /\ LoggedIn(fd) /\ DiskTasksOwned'
      BY <1>2, <2>1
    <2> QED
      BY <1>3, <2>1, <2>2, DisksChange, SessionTasksStay, NoticesStayOwned
  <1>11. CASE DiskWriteDoneIgnored(t) \/ DiskMissing(t)
    <2>1. /\ \E action : DiskTake(t, action)
          /\ session_pool' = session_pool /\ notify_pipe' = notify_pipe
          /\ disks' = disks
      BY <1>11 DEF DiskWriteDoneIgnored, DiskMissing, ForDisk
    <2> QED
      BY <1>1, <2>1, DisksStay, SessionTasksStay, NoticesStayOwned
  <1> QED
    BY <1>4, <1>5, <1>6, <1>7, <1>8, <1>9, <1>10, <1>11 DEF DiskStep

-----------------------------------------------------------------------------
(* The reactor.                                                            *)

\* One client changes: it had a login, or gained nothing of a transfer.
LEMMA ClientOwned ==
  ASSUME ReactorTypeOK, ClientsOwned, LoginsKept, NEW fd \in Fds, NEW c,
         SetClient(fd, c),
         LoggedIn(fd) \/ (Connected(fd) /\ Transferring(c) => Transferring(clients[fd])),
         Connected(fd) \/ ~Transferring(c)
  PROVE  ClientsOwned'
  <1>1. ASSUME NEW g \in Fds, clients'[g] # NULL, Transferring(clients'[g])
        PROVE  LoggedIn(g)'
    <2>1. CASE g # fd
      BY <1>1, <2>1 DEF ClientsOwned, LoginsKept, Connected, SetClient, ReactorTypeOK
    <2>2. CASE g = fd
      <3>1. clients'[g] = c
        BY <2>2 DEF SetClient, ReactorTypeOK
      <3> QED
        BY <1>1, <2>2, <3>1 DEF ClientsOwned, LoginsKept
    <2> QED
      BY <2>1, <2>2
  <1> QED
    BY <1>1 DEF ClientsOwned, Connected, Transferring

\* A client is deleted.
LEMMA DeleteOwned ==
  ASSUME ReactorTypeOK, ClientsOwned, LoginsKept, NEW fd \in Fds, del_client(fd)
  PROVE  ClientsOwned'
  BY DEF ReactorTypeOK, ClientsOwned, LoginsKept, Connected, Transferring, del_client

\* No client changes.
LEMMA ClientsOwnedStay ==
  ASSUME ClientsOwned, LoginsKept, clients' = clients
  PROVE  ClientsOwned'
  BY DEF ClientsOwned, LoginsKept, Connected, Transferring

\* A signal that needs no login.
LEMMA PlainSignal ==
  ASSUME PoolTypeOK, SessionTasksOwned, LoginsKept, NEW fd, NEW action,
         action \notin OwnedTasks, Signal(fd, action)
  PROVE  SessionTasksOwned'
  BY SessionTasksAdded DEF Signal

\* The callbacks of the control connection only signal what needs no login.
LEMMA CtrlStepOwned ==
  ASSUME PoolTypeOK, ReactorTypeOK, CallbacksValid, ClientsOwned, SessionTasksOwned,
         DiskTasksOwned, NoticesOwned, LoginsKept, NEW fd \in Fds,
         CtrlStep(fd) \/ on_timeout(fd)
  PROVE  ClientsOwned' /\ SessionTasksOwned' /\ DiskTasksOwned' /\ NoticesOwned'
  <1>1. disk_pool' = disk_pool /\ notify_pipe' = notify_pipe
    BY DEF CtrlStep, on_accept, on_read_lines, on_read_gone, on_write, on_write_error,
       on_timeout, poolVars
  <1>2. CASE on_accept(fd) \/ on_read_gone(fd) \/ on_write_error(fd) \/ on_timeout(fd)
    <2>1. PICK action \in {"CTRL_ACCEPT", "DISCONN", "CONN_ERR"} : Signal(fd, action)
      BY <1>2 DEF on_accept, on_read_gone, on_write_error, on_timeout
    <2>2. CASE on_accept(fd)
      <3>1. SetClient(fd, NewClient) /\ ~Transferring(NewClient)
        BY <2>2 DEF on_accept, NewClient, Transferring
      <3> QED
        BY <1>1, <2>1, <3>1, ClientOwned, PlainSignal, DiskTasksStay, NoticesStayOwned
        DEF OwnedTasks
    <2>3. CASE del_client(fd)
      BY <1>1, <2>1, <2>3, DeleteOwned, PlainSignal, DiskTasksStay, NoticesStayOwned
      DEF OwnedTasks
    <2> QED
      BY <1>2, <2>2, <2>3 DEF on_read_gone, on_write_error, on_timeout
  <1>3. CASE on_read_lines(fd)
    <2> DEFINE task == [fd |-> fd, action |-> "READ", buf |-> peers[fd].inq]
    <2>1. post_to_session(task) /\ task.action \notin OwnedTasks /\ clients' = clients
      BY <1>3 DEF on_read_lines, OwnedTasks
    <2> HIDE DEF task
    <2> QED
      BY <1>1, <2>1, ClientsOwnedStay, SessionTasksAdded, DiskTasksStay, NoticesStayOwned
  <1>4. CASE on_write(fd)
    <2> DEFINE c == clients[fd]
               d == [c EXCEPT !.write_q = Tail(@), !.ev_write = FALSE]
    <2>1. <<"write", fd>> \in ready /\ SetClient(fd, d) /\ session_pool' = session_pool
      BY <1>4 DEF on_write, Ran, poolVars
    <2>2. c # NULL /\ c \in TCP_client
      BY <2>1 DEF CallbacksValid, CtrlEvents, ReactorTypeOK
    <2>3. Connected(fd) /\ (Transferring(d) => Transferring(c))
      BY <2>2 DEF Connected, Transferring, TCP_client
    <2> HIDE DEF d
    <2>4. ClientsOwned'
      BY <2>1, <2>3, ClientOwned
    <2> QED
      BY <1>1, <2>1, <2>4, SessionTasksStay, DiskTasksStay, NoticesStayOwned
  <1> QED
    BY <1>2, <1>3, <1>4 DEF CtrlStep

\* A listener's port is signalled for a PASV record, which has a login.
LEMMA NotifyStepOwned ==
  ASSUME PoolTypeOK, ReactorTypeOK, CallbacksValid, ClientsOwned, SessionTasksOwned,
         DiskTasksOwned, NoticesOwned, LoginsKept, NotifyStep
  PROVE  ClientsOwned' /\ SessionTasksOwned' /\ DiskTasksOwned' /\ NoticesOwned'
  <1> DEFINE n == Head(notify_pipe)
  <1>1. /\ <<"notify">> \in ready /\ notify_pipe' = Tail(notify_pipe)
        /\ disk_pool' = disk_pool
    BY DEF NotifyStep, on_notify_null, on_notify_ctrl_write, on_notify_trans_ok,
       on_notify_pasv, on_notify_data_write, Notified, Ran
  <1>2. notify_pipe \in Seq(Notification) /\ notify_pipe # <<>>
    BY <1>1 DEF CallbacksValid, PoolTypeOK
  <1>3. NoticesOwned' /\ DiskTasksOwned'
    BY <1>1, <1>2, NoticesTaken, DiskTasksStay
  <1>4. n \in Notification /\ n.fd \in Fds
    BY <1>2, HeadTailProperties, NotificationFields
  <1>5. n.action \in OwnedNotices => LoggedIn(n.fd)
    BY <1>2, TailElements DEF NoticesOwned, Owned
  <1>6. CASE on_notify_null
    BY <1>3, <1>6, SessionTasksStay, ClientsOwnedStay DEF on_notify_null
  <1>7. CASE on_notify_ctrl_write
    <2> DEFINE c == clients[n.fd]
               d == Queued(c, n.reply)
    <2>1. c # NULL /\ c \in TCP_client
      BY <1>4, <1>7 DEF on_notify_ctrl_write, Notified, ReactorTypeOK
    <2>2. SetClient(n.fd, d) /\ session_pool' = session_pool
      BY <1>7 DEF on_notify_ctrl_write
    <2>3. Connected(n.fd) /\ (Transferring(d) => Transferring(c))
      BY <2>1 DEF Connected, Transferring, TCP_client, Queued
    <2> HIDE DEF d
    <2>4. ClientsOwned'
      BY <1>4, <2>2, <2>3, ClientOwned
    <2> QED
      BY <1>3, <2>2, <2>4, SessionTasksStay
  <1>8. CASE on_notify_trans_ok \/ on_notify_data_write
    <2>1. /\ \E d : SetClient(n.fd, d)
          /\ clients[n.fd] # NULL /\ n.action \in OwnedNotices
          /\ session_pool' = session_pool
      BY <1>8, Zenon DEF on_notify_trans_ok, on_notify_data_write, Notified, OwnedNotices
    <2>2. ClientsOwned'
      BY <1>4, <1>5, <2>1, ClientOwned DEF Connected
    <2> QED
      BY <1>3, <2>1, <2>2, SessionTasksStay
  <1>9. CASE on_notify_pasv
    <2>1. /\ n.action \in OwnedNotices /\ clients[n.fd] # NULL
          /\ clients' = clients \/ \E d : SetClient(n.fd, d)
          /\ \/ session_pool' = session_pool
             \/ \E port : post_to_session([fd |-> n.fd, action |-> "PASV", port |-> port])
      BY <1>9, Zenon DEF on_notify_pasv, Notified, OwnedNotices
    <2>2. ClientsOwned'
      BY <1>4, <1>5, <2>1, ClientOwned, ClientsOwnedStay DEF Connected
    <2>3. ASSUME NEW fd \in Fds, LoggedIn(fd), NEW port,
                 post_to_session([fd |-> fd, action |-> "PASV", port |-> port])
          PROVE  SessionTasksOwned'
      <3>1. LoggedIn(fd)'
        BY <2>3 DEF LoginsKept
      <3> QED
        BY <2>3, <3>1, SessionTasksAdded
    <2> QED
      BY <1>3, <1>4, <1>5, <2>1, <2>2, <2>3, SessionTasksStay
  <1> QED
    BY <1>6, <1>7, <1>8, <1>9 DEF NotifyStep

\* A callback of the data connection has a listener or a data socket, so the
\* client has a login.
LEMMA DataStepClients ==
  ASSUME ReactorTypeOK, CallbacksValid, ClientsOwned, LoginsKept, NEW fd \in Fds,
         DataStep(fd)
  PROVE  ClientsOwned'
  <1>1. \E e \in DataEvents : <<e, fd>> \in ready
    BY DEF DataStep, data_accept, data_read_data, data_read_end, data_read_error,
       data_write, data_write_part, data_write_nothing, Ran, DataEvents
  <1>2. Connected(fd) /\ Transferring(clients[fd])
    BY <1>1 DEF CallbacksValid, DataEvents, Connected, Transferring
  <1>3. LoggedIn(fd)
    BY <1>2 DEF ClientsOwned
  <1>4. clients' = clients \/ \E c : SetClient(fd, c)
    BY Zenon DEF DataStep, data_accept, data_read_data, data_read_end, data_read_error,
       data_write, data_write_part, data_write_nothing
  <1> QED
    BY <1>2, <1>3, <1>4, ClientOwned, ClientsOwnedStay

\* The callbacks of the data connection only post tasks that need no login
\* of their own: a disk thread without a disk_info ignores them.
LEMMA DataStepOwned ==
  ASSUME PoolTypeOK, ReactorTypeOK, CallbacksValid, ClientsOwned, SessionTasksOwned,
         DiskTasksOwned, NoticesOwned, LoginsKept, NEW fd \in Fds, DataStep(fd)
  PROVE  ClientsOwned' /\ SessionTasksOwned' /\ DiskTasksOwned' /\ NoticesOwned'
  <1>0. ClientsOwned'
    BY DataStepClients
  <1>1. notify_pipe' = notify_pipe
    BY DEF DataStep, data_accept, data_read_data, data_read_end, data_read_error,
       data_write, data_write_part, data_write_nothing, poolVars
  <1>2. CASE data_accept(fd)
    BY <1>0, <1>1, <1>2, PlainSignal, DiskTasksStay, NoticesStayOwned DEF data_accept, OwnedTasks
  <1>3. CASE session_pool' = session_pool /\ disk_pool' = disk_pool
    BY <1>0, <1>1, <1>3, SessionTasksStay, DiskTasksStay, NoticesStayOwned
  <1>4. ASSUME NEW task, task.action \notin OwnedStarts, post_to_disk(task),
               session_pool' = session_pool
        PROVE  ClientsOwned' /\ SessionTasksOwned' /\ DiskTasksOwned' /\ NoticesOwned'
    BY <1>0, <1>1, <1>4, SessionTasksStay, DiskTasksAdded, NoticesStayOwned
  <1>5. CASE data_read_data(fd) \/ data_read_end(fd) \/ data_write(fd)
    <2>1. /\ session_pool' = session_pool
          /\ \/ disk_pool' = disk_pool
             \/ \E data : post_to_disk([fd |-> fd, action |-> "STORING", data |-> data])
             \/ \E data : post_to_disk([fd |-> fd, action |-> "STOR_OK", data |-> data])
             \/ post_to_disk([fd |-> fd, action |-> "WRITE_DONE"])
      BY <1>5, Zenon DEF data_read_data, data_read_end, data_write
    <2> QED
      BY <1>3, <1>4, <2>1 DEF OwnedStarts
  <1> QED
    BY <1>2, <1>3, <1>5 DEF DataStep, data_read_error, data_write_part,
       data_write_nothing, poolVars

-----------------------------------------------------------------------------
(* The specification.                                                      *)

\* No step of the server or of a client leaves a transfer without a login.
LEMMA NextOwned == IInv /\ TransferNeedsLogin /\ [Next]_vars => TransferNeedsLogin'
  <1> SUFFICES ASSUME IInv, TransferNeedsLogin, [Next]_vars PROVE TransferNeedsLogin'
    OBVIOUS
  <1> DEFINE Parts == /\ SessionsOwned /\ DisksOwned /\ ClientsOwned
                      /\ SessionTasksOwned /\ DiskTasksOwned /\ NoticesOwned
  <1>1. Parts /\ (Parts' => TransferNeedsLogin')
    <2>1. Parts
      BY LoginParts
    <2>2. Parts' => TransferNeedsLogin'
      BY LoginParts, PTL
    <2> QED
      BY <2>1, <2>2
  <1>2. PoolTypeOK /\ FileTypeOK /\ SessionTypeOK /\ DiskTypeOK
        /\ ReactorTypeOK /\ CallbacksValid
    BY DEF IInv, TypeOK
  <1>3. sessions' = sessions => SessionsOwned' /\ LoginsKept
    BY <1>1 DEF SessionsOwned, LoginsKept, LoggedIn
  <1>4. CASE UNCHANGED vars
    <2>1. /\ sessions' = sessions /\ disks' = disks /\ session_pool' = session_pool
          /\ disk_pool' = disk_pool /\ notify_pipe' = notify_pipe /\ clients' = clients
      BY <1>4 DEF vars, poolVars, reactorVars
    <2> QED
      BY <1>1, <1>2, <1>3, <2>1, ClientsOwnedStay, DisksStay, SessionTasksStay, DiskTasksStay,
         NoticesStayOwned
  <1>5. ASSUME NEW t \in SessionThreads, SessionThread(t) PROVE TransferNeedsLogin'
    <2>1. HandlerOwned /\ SessionTasksOwned' /\ disks' = disks /\ clients' = clients
      BY <1>1, <1>2, <1>5, SessionStepOwned DEF SessionThread, reactorVars
    <2> QED
      BY <1>1, <2>1, DisksStay, ClientsOwnedStay DEF HandlerOwned
  <1>6. ASSUME NEW t \in DiskThreads, DiskThread(t) PROVE TransferNeedsLogin'
    <2>1. DiskStep(t) /\ sessions' = sessions /\ clients' = clients
      BY <1>6 DEF DiskThread, reactorVars
    <2> QED
      BY <1>1, <1>2, <1>3, <2>1, DiskStepOwned, ClientsOwnedStay
  <1>7. CASE Reactor
    <2>1. ReactorStep /\ sessions' = sessions /\ disks' = disks
      BY <1>7 DEF Reactor
    <2>2. SessionsOwned' /\ LoginsKept /\ DisksOwned'
      BY <1>1, <1>3, <2>1, DisksStay
    <2>3. CASE Poll
      <3>1. /\ session_pool' = session_pool /\ disk_pool' = disk_pool
            /\ notify_pipe' = notify_pipe /\ clients' = clients
        BY <2>3 DEF Poll, poolVars
      <3> QED
        BY <1>1, <1>2, <2>2, <3>1, ClientsOwnedStay, SessionTasksStay, DiskTasksStay,
           NoticesStayOwned
    <2>4. ClientsOwned' /\ SessionTasksOwned' /\ DiskTasksOwned' /\ NoticesOwned'
            => TransferNeedsLogin'
      BY <1>1, <2>2
    <2>5. ClientsOwned /\ SessionTasksOwned /\ DiskTasksOwned /\ NoticesOwned
      BY <1>1
    <2>6. CASE NotifyStep
      BY <1>2, <2>2, <2>4, <2>5, <2>6, NotifyStepOwned
    <2>7. ASSUME NEW fd \in Fds, CtrlStep(fd) \/ on_timeout(fd) \/ DataStep(fd)
          PROVE  TransferNeedsLogin'
      BY <1>2, <2>2, <2>4, <2>5, <2>7, CtrlStepOwned, DataStepOwned
    <2> QED
      BY <2>1, <2>3, <2>6, <2>7 DEF ReactorStep, DispatchStep
  <1>8. CASE Client
    <2>1. /\ sessions' = sessions /\ disks' = disks /\ session_pool' = session_pool
          /\ disk_pool' = disk_pool /\ notify_pipe' = notify_pipe /\ clients' = clients
      BY <1>8 DEF Client, ClientStep, ClientProgress, poolVars
    <2> QED
      BY <1>1, <1>2, <1>3, <2>1, ClientsOwnedStay, DisksStay, SessionTasksStay, DiskTasksStay,
         NoticesStayOwned
  <1> QED
    BY <1>4, <1>5, <1>6, <1>7, <1>8 DEF Next

\* No data state, listener, disk work or block, in any queue or thread, is
\* there for a client that has not logged in, for every configuration and
\* whatever the clients send, reuse of socket numbers included.
THEOREM LoginIsNeeded == Spec => []TransferNeedsLogin
  <1>1. Init => TransferNeedsLogin
    BY DEF Init, PoolInit, SessionInit, DiskInit, ReactorInit, TransferNeedsLogin,
       Elements, Connected
  <1> QED
    BY <1>1, NextOwned, Invariance, PTL DEF Spec
=============================================================================
