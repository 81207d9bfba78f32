----------------------------- MODULE TypeProofs -----------------------------
(***************************************************************************)
(* The inductive invariant IInv of the server, and two theorems that       *)
(* follow from it: the type invariant, and that no callback of a round     *)
(* runs for something an earlier one of its round took away.  There is one *)
(* lemma per kind of step, and one per helper the steps are built from.    *)
(* Behind them are the lemmas about the queues between the threads that    *)
(* the other proof modules share.                                          *)
(***************************************************************************)
EXTENDS HyperTransfer, FiniteSetTheorems, SequenceTheorems, WellFoundedInduction, TLAPS

-----------------------------------------------------------------------------
(* The queues.                                                             *)

\* The remainder of a division is below the divisor.
LEMMA RemainderBound ==
  ASSUME NEW x \in Nat, NEW n \in Nat, n > 0
  PROVE  x % n \in 0 .. n - 1
  OBVIOUS

\* Every control socket has a session thread.
LEMMA ThreadOfType ==
  ASSUME NEW fd \in Fds
  PROVE  ThreadOf(fd) \in SessionThreads
  <1>1. fd \in Nat /\ session_thread_num \in Nat /\ session_thread_num > 0
    BY PoolAssumption
  <1> QED
    BY <1>1, RemainderBound DEF ThreadOf, SessionThreads

\* What a session thread may read of a task, by its kind.
LEMMA SessionTaskFields ==
  ASSUME NEW task \in SessionTask
  PROVE  /\ task.fd \in Fds
         /\ task.action = "READ" => task.buf \in Seq(Command) /\ task.buf # <<>>
         /\ task.action = "PASV" => task.port \in Ports
  BY DEF SessionTask, SignalTasks

\* What a disk thread may read of a task, by its kind.
LEMMA DiskTaskFields ==
  ASSUME NEW task \in DiskTask
  PROVE  /\ task.fd \in Fds
         /\ task.action \in {"STOR_START", "RETR_START"} =>
              task.path \in Files \cup {NULL} /\ task.rest \in Nat
         /\ task.action \in {"STORING", "STOR_OK"} => task.data \in Block
  BY DEF DiskTask

\* What on_notify may read of a record, by its kind.
LEMMA NotificationFields ==
  ASSUME NEW n \in Notification
  PROVE  /\ n.fd \in Fds
         /\ n.action \in {"CTRL_WRITE", "TRANS_OK"} => n.reply \in Reply
         /\ n.action = "DATA_WRITE" => n.data \in Block
  BY DEF Notification

\* Posting and taking tasks keeps the queues typed.
LEMMA PostSessionType ==
  ASSUME PoolTypeOK, NEW task \in SessionTask, post_to_session(task)
  PROVE  session_pool' \in [SessionThreads -> Seq(SessionTask)]
  <1>1. ThreadOf(task.fd) \in SessionThreads
    BY SessionTaskFields, ThreadOfType
  <1> QED
    BY <1>1 DEF PoolTypeOK, post_to_session

\* The disk task goes to a queue, or the process dies of the index.
LEMMA PostDiskType ==
  ASSUME PoolTypeOK, NEW task \in DiskTask, post_to_disk(task)
  PROVE  /\ disk_pool' \in [DiskThreads -> Seq(DiskTask)]
         /\ fault' \in Faults
  <1>1. CASE ThreadOf(task.fd) \in DiskThreads
    <2>1. /\ disk_pool' = [disk_pool EXCEPT ![ThreadOf(task.fd)] = Append(@, task)]
          /\ fault' = fault
      BY <1>1 DEF post_to_disk
    <2> QED
      BY <1>1, <2>1 DEF PoolTypeOK
  <1>2. CASE ThreadOf(task.fd) \notin DiskThreads
    BY <1>2 DEF PoolTypeOK, post_to_disk, Faults
  <1> QED
    BY <1>1, <1>2

\* A record written to the pipe keeps it typed and not empty.
LEMMA NotifyType ==
  ASSUME PoolTypeOK, NEW n \in Notification, notify(n)
  PROVE  notify_pipe' \in Seq(Notification) /\ notify_pipe' # <<>>
  BY DEF PoolTypeOK, notify

\* A session thread takes a typed task and leaves a typed queue.
LEMMA SessionTakeType ==
  ASSUME PoolTypeOK, NEW t \in SessionThreads, NEW action, SessionTake(t, action)
  PROVE  /\ Head(session_pool[t]) \in SessionTask
         /\ Head(session_pool[t]).action = action
         /\ session_pool' \in [SessionThreads -> Seq(SessionTask)]
  BY DEF PoolTypeOK, SessionTake

\* A disk thread takes a typed task and leaves a typed queue.
LEMMA DiskTakeType ==
  ASSUME PoolTypeOK, NEW t \in DiskThreads, NEW action, DiskTake(t, action)
  PROVE  /\ Head(disk_pool[t]) \in DiskTask
         /\ Head(disk_pool[t]).action = action
         /\ disk_pool' \in [DiskThreads -> Seq(DiskTask)]
  BY DEF PoolTypeOK, DiskTake

-----------------------------------------------------------------------------
(* The session threads.                                                    *)

\* What a command handler leaves typed, whoever took the task.
HandlerOK ==
  /\ notify_pipe' \in Seq(Notification)
  /\ notify_pipe # <<>> => notify_pipe' # <<>>
  /\ disk_pool' \in [DiskThreads -> Seq(DiskTask)]
  /\ fault' \in Faults
  /\ SessionTypeOK'

\* A handler that stores a session keeps the map typed.
LEMMA StoreType ==
  ASSUME SessionTypeOK, NEW fd \in Fds, NEW s \in Session, Store(fd, s)
  PROVE  SessionTypeOK'
  BY DEF SessionTypeOK, Store

\* The three kinds of record a session thread writes.
LEMMA PostType ==
  ASSUME PoolTypeOK, NEW fd \in Fds, NEW code \in ReplyCodes,
         NEW port \in Ports \cup {NULL},
         \/ Post(fd, code, port)
         \/ PostTransferOk(fd, code)
         \/ PasvPost(fd)
  PROVE  notify_pipe' \in Seq(Notification) /\ notify_pipe' # <<>>
  <1>1. CASE Post(fd, code, port)
    <2>1. [fd |-> fd, action |-> "CTRL_WRITE",
           reply |-> [code |-> code, port |-> port]] \in Notification
      BY DEF Notification, Reply
    <2> QED
      BY <1>1, <2>1, NotifyType DEF Post
  <1>2. CASE PostTransferOk(fd, code)
    <2>1. [fd |-> fd, action |-> "TRANS_OK",
           reply |-> [code |-> code, port |-> NULL]] \in Notification
      BY DEF Notification, Reply
    <2> QED
      BY <1>2, <2>1, NotifyType DEF PostTransferOk
  <1>3. CASE PasvPost(fd)
    <2>1. [fd |-> fd, action |-> "PASV"] \in Notification
      BY DEF Notification
    <2> QED
      BY <1>3, <2>1, NotifyType DEF PasvPost
  <1> QED
    BY <1>1, <1>2, <1>3

\* A handler that ends in one answer.
LEMMA AnswerType ==
  ASSUME PoolTypeOK, SessionTypeOK, NEW fd \in Fds, NEW s \in Session,
         NEW code \in ReplyCodes, Answer(fd, s, code)
  PROVE  HandlerOK
  <1>1. notify_pipe' \in Seq(Notification) /\ notify_pipe' # <<>>
    BY PostType DEF Answer
  <1>2. SessionTypeOK'
    BY StoreType DEF Answer
  <1> QED
    BY <1>1, <1>2 DEF HandlerOK, Answer, PoolTypeOK

\* A handler that ends without an answer.
LEMMA AwaitDataType ==
  ASSUME PoolTypeOK, SessionTypeOK, NEW fd \in Fds, NEW s \in Session,
         AwaitData(fd, s)
  PROVE  HandlerOK
  <1>1. SessionTypeOK'
    BY StoreType DEF AwaitData
  <1> QED
    BY <1>1 DEF HandlerOK, AwaitData, PoolTypeOK

\* stat gives a length.
LEMMA SizeType ==
  ASSUME FileTypeOK, NEW file \in Files
  PROVE  Size(file) \in Nat
  BY DEF FileTypeOK, Size, Block

\* What a command handler may read of a line, by its verb.
LEMMA CommandFields ==
  ASSUME NEW c \in Command
  PROVE  /\ c.verb = "USER" => c.user \in UserArgs
         /\ c.verb = "PASS" => c.pass \in PassArgs
         /\ c.verb = "REST" => c.rest \in RestArgs
         /\ c.verb \in {"SIZE", "RETR", "STOR", "APPE"} => c.file \in Files
         /\ c.verb \in {"STOR", "APPE"} => c.payload \in Payloads
  BY DEF Command, PlainVerbs

\* Every command handler keeps the types (run_fsm_command).
LEMMA CommandType ==
  ASSUME PoolTypeOK, FileTypeOK, SessionTypeOK, NEW fd \in Fds,
         NEW s \in Session, NEW c \in Command, run_fsm_command(fd, s, c)
  PROVE  HandlerOK
  <1> USE DEF ReplyCodes
  <1> DEFINE named == [s EXCEPT !.file_name = c.file]
  <1>1. CASE c.verb = "USER" /\ com_USER(fd, s, c)
    <2>1. c.user \in UserArgs
      BY <1>1, CommandFields
    <2>2. CASE c.user = "BGIShare"
      <3>1. [s EXCEPT !.username = "BGIShare"] \in Session
        BY DEF Session, UserNames
      <3> QED
        BY <1>1, <2>2, <3>1, AnswerType DEF com_USER
    <2>3. CASE \E u \in Seek(c.user) :
                 Answer(fd, [s EXCEPT !.user_info = u, !.username = u], 331)
      <3>1. PICK u \in Seek(c.user) :
                 Answer(fd, [s EXCEPT !.user_info = u, !.username = u], 331)
        BY <2>3
      <3>2. u \in Users
        BY <2>1, SessionAssumption DEF Seek
      <3>3. [s EXCEPT !.user_info = u, !.username = u] \in Session
        BY <3>2 DEF Session, UserNames
      <3> QED
        BY <3>1, <3>3, AnswerType
    <2>4. CASE Answer(fd, IF c.user = "Anonymous"
                          THEN [s EXCEPT !.username = "Anonymous"] ELSE s, 530)
      <3>1. (IF c.user = "Anonymous"
             THEN [s EXCEPT !.username = "Anonymous"] ELSE s) \in Session
        BY DEF Session, UserNames
      <3> QED
        BY <2>4, <3>1, AnswerType
    <2> QED
      BY <1>1, <2>2, <2>3, <2>4 DEF com_USER
  <1>2. CASE c.verb = "PASS" /\ com_PASS(fd, s, c)
    <2>1. [s EXCEPT !.log_in = TRUE] \in Session
      BY DEF Session
    <2>2. CASE Answer(fd, [s EXCEPT !.log_in = TRUE], 230)
      BY <2>1, <2>2, AnswerType
    <2>3. CASE /\ s.user_info # NULL
               /\ \E account \in Reads(s.user_info) :
                    Answer(fd, [s EXCEPT !.log_in = TRUE,
                                         !.upload_per = account.upload_per,
                                         !.download_per = account.download_per], 230)
      <3>1. PICK account \in Reads(s.user_info) :
                    Answer(fd, [s EXCEPT !.log_in = TRUE,
                                         !.upload_per = account.upload_per,
                                         !.download_per = account.download_per], 230)
        BY <2>3
      <3>2. account \in Account
        BY <2>3, SessionAssumption DEF Session, Reads
      <3>3. [s EXCEPT !.log_in = TRUE,
               !.upload_per = account.upload_per,
               !.download_per = account.download_per] \in Session
        BY <3>2 DEF Session, Account
      <3> QED
        BY <3>1, <3>3, AnswerType
    <2>4. CASE /\ fault' = "null_user_info"
               /\ Store(fd, [s EXCEPT !.log_in = TRUE])
               /\ UNCHANGED <<notify_pipe, disk_pool>>
      <3>1. SessionTypeOK'
        BY <2>1, <2>4, StoreType
      <3> QED
        BY <2>4, <3>1 DEF HandlerOK, PoolTypeOK, Faults
    <2>5. CASE Answer(fd, s, 530)
      BY <2>5, AnswerType
    <2> QED
      BY <1>2, <2>2, <2>3, <2>4, <2>5 DEF com_PASS
  <1>3. CASE c.verb = "TYPE" /\ com_TYPE(fd, s)
    BY <1>3, AnswerType DEF com_TYPE
  <1>4. CASE c.verb = "CWD" /\ com_CWD(fd, s)
    BY <1>4, AnswerType DEF com_CWD
  <1>5. CASE c.verb = "PWD" /\ com_PWD(fd, s)
    BY <1>5, AnswerType DEF com_PWD
  <1>6. CASE c.verb = "APPE" /\ com_APPE(fd, s, c)
    <2>1. c.file \in Files
      BY <1>6, CommandFields
    <2>2. [s EXCEPT !.file_name = c.file, !.rest_size = Size(c.file),
                    !.data_action = "DATA_STOR"] \in Session
      BY <2>1, SizeType DEF Session, DataActions
    <2> QED
      BY <1>6, <2>2, AnswerType, AwaitDataType DEF com_APPE
  <1>7. CASE c.verb = "SIZE" /\ com_SIZE(fd, s, c)
    <2>1. c.file \in Files
      BY <1>7, CommandFields
    <2>2. named \in Session
      BY <2>1 DEF Session
    <2> QED
      BY <1>7, <2>2, AnswerType DEF com_SIZE
  <1>8. CASE c.verb = "REST" /\ com_REST(fd, s, c)
    <2>1. c.rest \in Nat
      BY <1>8, CommandFields, DataAssumption
    <2>2. [s EXCEPT !.rest_size = c.rest] \in Session
      BY <2>1 DEF Session
    <2> QED
      BY <1>8, <2>2, AnswerType DEF com_REST
  <1>9. CASE c.verb = "PASV" /\ com_PASV(fd, s)
    <2>1. CASE s.log_in
      <3>1. PasvPost(fd) /\ Store(fd, s) /\ UNCHANGED <<disk_pool, fault>>
        BY <1>9, <2>1 DEF com_PASV
      <3>2. notify_pipe' \in Seq(Notification) /\ notify_pipe' # <<>>
        BY <3>1, PostType
      <3>3. SessionTypeOK'
        BY <3>1, StoreType
      <3> QED
        BY <3>1, <3>2, <3>3 DEF HandlerOK, PoolTypeOK
    <2>2. CASE ~s.log_in
      BY <1>9, <2>2, AnswerType DEF com_PASV
    <2> QED
      BY <2>1, <2>2
  <1>10. CASE c.verb = "LIST" /\ com_LIST(fd, s)
    <2>1. [s EXCEPT !.data_action = "DATA_LIST"] \in Session
      BY DEF Session, DataActions
    <2> QED
      BY <1>10, <2>1, AnswerType, AwaitDataType DEF com_LIST
  <1>11. CASE c.verb = "STOR" /\ com_STOR(fd, s, c)
    <2>1. c.file \in Files
      BY <1>11, CommandFields
    <2>2. named \in Session /\ [named EXCEPT !.data_action = "DATA_STOR"] \in Session
      BY <2>1 DEF Session, DataActions
    <2> QED
      BY <1>11, <2>2, AnswerType, AwaitDataType DEF com_STOR
  <1>12. CASE c.verb = "RETR" /\ com_RETR(fd, s, c)
    <2>1. c.file \in Files
      BY <1>12, CommandFields
    <2>2. named \in Session /\ [named EXCEPT !.data_action = "DATA_RETR"] \in Session
      BY <2>1 DEF Session, DataActions
    <2> QED
      BY <1>12, <2>2, AnswerType, AwaitDataType DEF com_RETR
  <1>13. CASE c.verb = "SYST" /\ com_SYST(fd, s)
    BY <1>13, AnswerType DEF com_SYST
  <1>14. CASE c.verb = "FEAT" /\ com_FEAT(fd, s)
    BY <1>14, AnswerType DEF com_FEAT
  <1>15. CASE c.verb = "BAD" /\ com_BAD(fd, s)
    BY <1>15, AnswerType DEF com_BAD
  <1> QED
    BY <1>1, <1>2, <1>3, <1>4, <1>5, <1>6, <1>7, <1>8, <1>9, <1>10, <1>11,
       <1>12, <1>13, <1>14, <1>15 DEF run_fsm_command

\* The handlers of the data connection.
LEMMA RunPasvType ==
  ASSUME PoolTypeOK, SessionTypeOK, NEW fd \in Fds, NEW s \in Session,
         NEW port \in Ports, run_pasv(fd, s, port)
  PROVE  HandlerOK
  <1> USE DEF ReplyCodes
  <1>1. CASE port > start_port /\ port < end_port
    <2>1. [s EXCEPT !.data_action = "DATA_PASV_OK"] \in Session
      BY DEF Session, DataActions
    <2>2. /\ Post(fd, 227, port)
          /\ Store(fd, [s EXCEPT !.data_action = "DATA_PASV_OK"])
          /\ UNCHANGED <<disk_pool, fault>>
      BY <1>1 DEF run_pasv
    <2>3. notify_pipe' \in Seq(Notification) /\ notify_pipe' # <<>>
      BY <2>2, PostType
    <2>4. SessionTypeOK'
      BY <2>1, <2>2, StoreType
    <2> QED
      BY <2>2, <2>3, <2>4 DEF HandlerOK, PoolTypeOK
  <1>2. CASE ~(port > start_port /\ port < end_port)
    BY <1>2, AnswerType DEF run_pasv
  <1> QED
    BY <1>1, <1>2

\* A download begins: 150 to the client, a task to the disk pool.
LEMMA LoadType ==
  ASSUME PoolTypeOK, SessionTypeOK, NEW fd \in Fds, NEW s \in Session,
         NEW task \in DiskTask,
         Post(fd, 150, NULL), Store(fd, s), post_to_disk(task)
  PROVE  HandlerOK
  <1>1. notify_pipe' \in Seq(Notification) /\ notify_pipe' # <<>>
    BY PostType DEF ReplyCodes
  <1>2. SessionTypeOK'
    BY StoreType
  <1> QED
    BY <1>1, <1>2, PostDiskType DEF HandlerOK

\* An accepted data connection (run_list_load, run_stor_load, run_retr_load).
LEMMA RunDataAcceptType ==
  ASSUME PoolTypeOK, SessionTypeOK, NEW fd \in Fds, NEW s \in Session,
         run_list_load(fd, s) \/ run_stor_load(fd, s) \/ run_retr_load(fd, s)
  PROVE  HandlerOK
  <1>1. /\ [s EXCEPT !.data_action = "DATA_INDEX_DOWNLOAD"] \in Session
        /\ [s EXCEPT !.data_action = "DATA_FILE_DOWNLOAD"] \in Session
    BY DEF Session, DataActions
  <1>2. CASE run_list_load(fd, s)
    <2>1. [fd |-> fd, action |-> "INDEX_START"] \in DiskTask
      BY DEF DiskTask
    <2> QED
      BY <1>1, <1>2, <2>1, LoadType DEF run_list_load
  <1>3. CASE run_stor_load(fd, s)
    <2>1. [fd |-> fd, action |-> "STOR_START",
           path |-> s.file_name, rest |-> s.rest_size] \in DiskTask
      BY DEF DiskTask, Session
    <2> QED
      BY <1>3, <2>1, PostDiskType
      DEF run_stor_load, HandlerOK, PoolTypeOK, SessionTypeOK
  <1>4. CASE run_retr_load(fd, s)
    <2>1. [fd |-> fd, action |-> "RETR_START",
           path |-> s.file_name, rest |-> s.rest_size] \in DiskTask
      BY DEF DiskTask, Session
    <2> QED
      BY <1>1, <1>4, <2>1, LoadType DEF run_retr_load
  <1> QED
    BY <1>2, <1>3, <1>4

\* The end of a transfer (run_transfer_ok).
LEMMA RunTransferOkType ==
  ASSUME PoolTypeOK, SessionTypeOK, NEW fd \in Fds, NEW s \in Session,
         run_transfer_ok(fd, s)
  PROVE  HandlerOK
  <1>1. [s EXCEPT !.data_action = "DATA_WAITING"] \in Session
    BY DEF Session, DataActions
  <1>2. notify_pipe' \in Seq(Notification) /\ notify_pipe' # <<>>
    BY PostType DEF run_transfer_ok, ReplyCodes
  <1>3. SessionTypeOK'
    BY <1>1, StoreType DEF run_transfer_ok
  <1> QED
    BY <1>2, <1>3 DEF HandlerOK, run_transfer_ok, PoolTypeOK

\* One task of a session thread.
LEMMA SessionStepType ==
  ASSUME PoolTypeOK, FileTypeOK, SessionTypeOK, NEW t \in SessionThreads,
         SessionStep(t)
  PROVE  /\ PoolTypeOK' /\ SessionTypeOK'
         /\ notify_pipe # <<>> => notify_pipe' # <<>>
  <1> DEFINE task == Head(session_pool[t])
             s    == sessions[task.fd]
  <1>1. ASSUME NEW action, SessionTake(t, action)
        PROVE  /\ session_pool' \in [SessionThreads -> Seq(SessionTask)]
               /\ task \in SessionTask /\ task.action = action
               /\ task.fd \in Fds
    BY <1>1, SessionTakeType, SessionTaskFields
  <1>2. ASSUME NEW action, ForSession(t, action)
        PROVE  /\ session_pool' \in [SessionThreads -> Seq(SessionTask)]
               /\ task \in SessionTask /\ task.action = action
               /\ task.fd \in Fds /\ s \in Session
    BY <1>1, <1>2 DEF ForSession, SessionTypeOK
  <1>3. SUFFICES session_pool' \in [SessionThreads -> Seq(SessionTask)] /\ HandlerOK
    BY DEF HandlerOK, PoolTypeOK
  <1>4. CASE SessionAccept(t)
    <2>1. NewSession \in Session
      BY DEF NewSession, Session, DataActions, UserNames
    <2>2. SessionTake(t, "CTRL_ACCEPT") /\ task.fd \in Fds
      BY <1>1, <1>4 DEF SessionAccept
    <2>3. notify_pipe' \in Seq(Notification) /\ notify_pipe' # <<>>
      BY <1>4, <2>2, PostType DEF SessionAccept, ReplyCodes
    <2>4. SessionTypeOK'
      BY <1>4, <2>1, <2>2, StoreType DEF SessionAccept, SessionTypeOK
    <2> QED
      BY <1>1, <1>4, <2>2, <2>3, <2>4 DEF SessionAccept, HandlerOK, PoolTypeOK
  <1>5. CASE SessionPasv(t)
    <2>1. ForSession(t, "PASV") /\ run_pasv(task.fd, s, task.port)
      BY <1>5 DEF SessionPasv
    <2>2. task.port \in Ports
      BY <1>2, <2>1, SessionTaskFields
    <2> QED
      BY <1>2, <2>1, <2>2, RunPasvType
  <1>6. CASE SessionDataAccept(t)
    <2>1. ForSession(t, "DATA_ACCEPT")
      BY <1>6 DEF SessionDataAccept
    <2>2. CASE \/ run_list_load(task.fd, s)
               \/ run_stor_load(task.fd, s)
               \/ run_retr_load(task.fd, s)
      BY <1>2, <2>1, <2>2, RunDataAcceptType
    <2>3. CASE UNCHANGED <<sessions, notify_pipe, disk_pool, fault>>
      BY <1>2, <2>1, <2>3 DEF HandlerOK, PoolTypeOK, SessionTypeOK
    <2> QED
      BY <1>6, <2>2, <2>3 DEF SessionDataAccept
  <1>7. CASE SessionStorStart(t)
    <2>1. ForSession(t, "STOR_START") /\ Answer(task.fd, s, 150)
      BY <1>7 DEF SessionStorStart, run_stor_start
    <2> QED
      BY <1>2, <2>1, AnswerType DEF ReplyCodes
  <1>8. CASE SessionTransOk(t)
    <2>1. ForSession(t, "TRANS_OK") /\ run_transfer_ok(task.fd, s)
      BY <1>8 DEF SessionTransOk
    <2> QED
      BY <1>2, <2>1, RunTransferOkType
  <1>9. CASE SessionRead(t)
    <2> DEFINE lines == s.recv_command \o task.buf
               rest  == [s EXCEPT !.recv_command = Tail(lines)]
    <2>1. ForSession(t, "READ") /\ run_fsm_command(task.fd, rest, Head(lines))
      BY <1>9 DEF SessionRead
    <2>2. /\ s.recv_command \in Seq(Command)
          /\ task.buf \in Seq(Command) /\ task.buf # <<>>
      BY <1>2, <2>1, SessionTaskFields DEF Session
    <2>3. lines \in Seq(Command) /\ lines # <<>>
      BY <2>2
    <2>4. Head(lines) \in Command /\ Tail(lines) \in Seq(Command)
      BY <2>3, HeadTailProperties
    <2>5. rest \in Session
      BY <1>2, <2>1, <2>4 DEF Session
    <2> QED
      BY <1>2, <2>1, <2>4, <2>5, CommandType
  <1>10. CASE SessionDropped(t)
    <2>1. PICK action : SessionTake(t, action)
      BY <1>10 DEF SessionDropped
    <2> QED
      BY <1>1, <1>10, <2>1 DEF SessionDropped, HandlerOK, PoolTypeOK, SessionTypeOK
  <1> QED
    BY <1>4, <1>5, <1>6, <1>7, <1>8, <1>9, <1>10 DEF SessionStep

-----------------------------------------------------------------------------
(* The disk threads.                                                       *)

\* A set of numbers that is not empty has a least one: the kernel's choice
\* of a descriptor is well defined.
LEMMA LeastNumber ==
  ASSUME NEW S \in SUBSET Nat, S # {}
  PROVE  \E h \in S : \A k \in S : h <= k
  <1>1. PICK h \in S : \A k \in S : ~ (<<k, h>> \in OpToRel(<, Nat))
    BY NatLessThanWellFounded, WFMin
  <1>2. \A k \in S : ~ (k < h)
    BY <1>1 DEF OpToRel
  <1> QED
    BY <1>2

\* open returns a free handle of the table.
LEMMA NextHandleType ==
  ASSUME FreeHandles # {}
  PROVE  NextHandle \in Handles /\ open_files[NextHandle] = NULL
  <1>1. FreeHandles \in SUBSET Nat
    BY StoreAssumption DEF FreeHandles
  <1>2. \E h \in FreeHandles : \A k \in FreeHandles : h <= k
    BY <1>1, LeastNumber
  <1>3. NextHandle \in FreeHandles
    BY <1>2 DEF NextHandle
  <1> QED
    BY <1>3 DEF FreeHandles

\* Open files are there: nothing in the server deletes or renames a file.
OpenFilesExist ==
  \A h \in Handles : open_files[h] # NULL => fs[open_files[h].path] \in Block

\* A listing on its way has a next piece.
ListingGoesOn ==
  \A fd \in Fds : disks[fd] # NULL /\ disks[fd].data_action = "DISK_INDEX_LOADING"
    => disks[fd].cur_dir # <<>>

\* read returns bytes of the file.
LEMMA BytesAtType ==
  ASSUME NEW path, fs[path] \in Block, NEW pos \in Nat
  PROVE  BytesAt(path, pos) \in Block
  <1> DEFINE room == Len(fs[path])
             last == IF pos + FILEBUFSIZE < room THEN pos + FILEBUFSIZE ELSE room
  <1>1. room \in Nat /\ fs[path] \in [1 .. room -> Byte]
    BY DEF Block
  <1>2. last \in Int /\ last <= room /\ pos + 1 \in Int /\ pos + 1 >= 1
    BY <1>1, DataAssumption
  <1>3. \A i \in pos + 1 .. last : fs[path][i] \in Byte
    BY <1>1, <1>2
  <1>4. SubSeq(fs[path], pos + 1, last) \in Seq(Byte)
    BY <1>2, <1>3, SubSeqProperties
  <1> QED
    BY <1>4 DEF BytesAt, Block

\* A write at any position leaves a file of bytes.
LEMMA WrittenType ==
  ASSUME NEW content \in Block, NEW pos \in Nat, NEW data \in Block
  PROVE  Written(content, pos, data) \in Block
  <1> DEFINE size == IF pos + Len(data) > Len(content)
                     THEN pos + Len(data) ELSE Len(content)
  <1>1. /\ Len(content) \in Nat /\ content \in [1 .. Len(content) -> Byte]
        /\ Len(data) \in Nat /\ data \in [1 .. Len(data) -> Byte]
    BY DEF Block
  <1>2. size \in Nat
    BY <1>1
  <1>3. \A i \in 1 .. size :
          (IF i > pos /\ i <= pos + Len(data) THEN data[i - pos]
           ELSE IF i <= Len(content) THEN content[i] ELSE Hole) \in Byte
    BY <1>1, <1>2, DataAssumption
  <1> HIDE DEF size
  <1>4. [i \in 1 .. size |->
           IF i > pos /\ i <= pos + Len(data) THEN data[i - pos]
           ELSE IF i <= Len(content) THEN content[i] ELSE Hole] \in Seq(Byte)
    BY <1>2, <1>3
  <1> QED
    BY <1>4 DEF Written, Block, size

\* The changes to the open files and to the store.
LEMMA ClosedType ==
  ASSUME FileTypeOK, OpenFilesExist, NEW h,
         open_files' = Closed(open_files, h), fs' = fs
  PROVE  FileTypeOK' /\ OpenFilesExist'
  BY DEF FileTypeOK, OpenFilesExist, Closed

\* A file that is opened at a position, and what lies in it.
LEMMA OpenedType ==
  ASSUME FileTypeOK, OpenFilesExist, NEW h \in Handles, NEW path \in Files,
         NEW pos \in Nat, NEW mode \in {"r", "w"}, fs'[path] \in Block,
         fs' \in [Files -> Block \cup {NULL}],
         \A f \in Files : fs[f] \in Block => fs'[f] \in Block,
         open_files' = Opened(h, path, pos, mode)
  PROVE  FileTypeOK' /\ OpenFilesExist'
  <1>1. [path |-> path, pos |-> pos, mode |-> mode] \in OpenFile
    BY DEF OpenFile
  <1>2. FileTypeOK'
    BY <1>1 DEF FileTypeOK, Opened
  <1>3. ASSUME NEW k \in Handles, open_files'[k] # NULL
        PROVE  fs'[open_files'[k].path] \in Block
    <2>1. CASE k = h
      BY <2>1 DEF FileTypeOK, Opened
    <2>2. CASE k # h
      <3>1. open_files'[k] = open_files[k]
        BY <2>2 DEF FileTypeOK, Opened
      <3>2. open_files[k] \in OpenFile /\ fs[open_files[k].path] \in Block
        BY <1>3, <3>1 DEF FileTypeOK, OpenFilesExist
      <3> QED
        BY <3>1, <3>2 DEF OpenFile
    <2> QED
      BY <2>1, <2>2
  <1> QED
    BY <1>2, <1>3 DEF OpenFilesExist

\* More generally: files stay, and what is open is open on a file.
LEMMA StoreGrowsType ==
  ASSUME FileTypeOK, OpenFilesExist, fs' \in [Files -> Block \cup {NULL}],
         \A f \in Files : fs[f] \in Block => fs'[f] \in Block,
         open_files' \in [Handles -> OpenFile \cup {NULL}],
         \A k \in Handles : open_files'[k] # NULL =>
           open_files[k] # NULL /\ open_files'[k].path = open_files[k].path
  PROVE  FileTypeOK' /\ OpenFilesExist'
  <1>1. FileTypeOK'
    BY DEF FileTypeOK
  <1>2. ASSUME NEW k \in Handles, open_files'[k] # NULL
        PROVE  fs'[open_files'[k].path] \in Block
    <2>1. open_files[k] \in OpenFile /\ fs[open_files[k].path] \in Block
      BY <1>2 DEF FileTypeOK, OpenFilesExist
    <2> QED
      BY <1>2, <2>1 DEF OpenFile
  <1> QED
    BY <1>1, <1>2 DEF OpenFilesExist

\* write keeps the files typed and in place.
LEMMA StoreAtType ==
  ASSUME FileTypeOK, OpenFilesExist, NEW h, Usable(h, "w"), NEW data \in Block,
         fs' = StoreAt(h, data)
  PROVE  /\ fs' \in [Files -> Block \cup {NULL}]
         /\ \A f \in Files : fs[f] \in Block => fs'[f] \in Block
  <1>1. h \in Handles /\ open_files[h] # NULL
    BY DEF Usable
  <1>2. open_files[h] \in OpenFile
    BY <1>1 DEF FileTypeOK
  <1>3. /\ open_files[h].path \in Files /\ open_files[h].pos \in Nat
        /\ fs[open_files[h].path] \in Block
    BY <1>1, <1>2 DEF OpenFilesExist, OpenFile
  <1>4. Written(fs[open_files[h].path], open_files[h].pos, data) \in Block
    BY <1>3, WrittenType
  <1> QED
    BY <1>3, <1>4 DEF StoreAt, FileTypeOK

\* A disk_info that is added, or refused.
LEMMA AddDiskType ==
  ASSUME DiskTypeOK, ListingGoesOn, NEW fd \in Fds, NEW info \in DiskInfo,
         info.data_action = "DISK_INDEX_LOADING" => info.cur_dir # <<>>,
         add_disk(fd, info)
  PROVE  DiskTypeOK' /\ ListingGoesOn'
  BY DEF DiskTypeOK, ListingGoesOn, add_disk

\* A disk_info that changes its phase.
LEMMA SetActionType ==
  ASSUME DiskTypeOK, ListingGoesOn, NEW fd \in Fds, disks[fd] # NULL,
         NEW action \in DiskActions \ {"DISK_INDEX_LOADING"}, SetAction(fd, action)
  PROVE  DiskTypeOK' /\ ListingGoesOn'
  <1>1. disks[fd] \in DiskInfo
    BY DEF DiskTypeOK
  <1>2. [disks[fd] EXCEPT !.data_action = action] \in DiskInfo
    BY <1>1 DEF DiskInfo
  <1>3. disks' = [disks EXCEPT ![fd] = [disks[fd] EXCEPT !.data_action = action]]
    BY DEF SetAction, DiskTypeOK
  <1>4. disks'[fd].data_action = action
    BY <1>1, <1>3 DEF DiskTypeOK, DiskInfo
  <1> QED
    BY <1>2, <1>3, <1>4 DEF DiskTypeOK, ListingGoesOn

\* A disk_info that is deleted.
LEMMA DelDiskType ==
  ASSUME DiskTypeOK, ListingGoesOn, NEW fd \in Fds, del_disk(fd)
  PROVE  DiskTypeOK' /\ ListingGoesOn'
  BY DEF DiskTypeOK, ListingGoesOn, del_disk

\* A block on its way to the reactor.
LEMMA DataPostType ==
  ASSUME PoolTypeOK, NEW fd \in Fds, NEW data \in Block, DataPost(fd, data)
  PROVE  notify_pipe' \in Seq(Notification) /\ notify_pipe' # <<>>
  <1>1. [fd |-> fd, action |-> "DATA_WRITE", data |-> data] \in Notification
    BY DEF Notification
  <1> QED
    BY <1>1, NotifyType DEF DataPost

\* The signals for the session threads.
LEMMA SignalType ==
  ASSUME PoolTypeOK, NEW fd \in Fds, NEW action \in SignalTasks,
         post_to_session([fd |-> fd, action |-> action])
  PROVE  session_pool' \in [SessionThreads -> Seq(SessionTask)]
  <1>1. [fd |-> fd, action |-> action] \in SessionTask
    BY DEF SessionTask
  <1> QED
    BY <1>1, PostSessionType

\* A piece of the listing, and where that leaves the disk_info.
LEMMA ListingPiece ==
  ASSUME NEW names \in Seq(Files)
  PROVE  /\ Lines(names) \in Block /\ Unlisted(names) \in Seq(Files)
         /\ IndexAction(Unlisted(names)) \in DiskActions
         /\ IndexAction(Unlisted(names)) = "DISK_INDEX_LOADING" => Unlisted(names) # <<>>
  <1>1. /\ PieceLen(names) \in Nat /\ PieceLen(names) <= Len(names)
        /\ Len(names) \in Nat
    BY DiskAssumption DEF PieceLen
  <1>2. \A i \in 1 .. PieceLen(names) : line_of[names[i]] \in Byte
    BY <1>1, DiskAssumption
  <1>3. Lines(names) \in Block
    BY <1>1, <1>2 DEF Lines, Block
  <1>4. Unlisted(names) \in Seq(Files)
    BY <1>1 DEF Unlisted
  <1> QED
    BY <1>3, <1>4 DEF IndexAction, DiskActions

\* One task of a disk thread.
LEMMA DiskStepType ==
  ASSUME PoolTypeOK, FileTypeOK, DiskTypeOK, OpenFilesExist, ListingGoesOn,
         NEW t \in DiskThreads, DiskStep(t)
  PROVE  /\ PoolTypeOK' /\ FileTypeOK' /\ DiskTypeOK'
         /\ OpenFilesExist' /\ ListingGoesOn'
         /\ notify_pipe # <<>> => notify_pipe' # <<>>
  <1> DEFINE task == Head(disk_pool[t])
             fd   == task.fd
             h    == disks[fd].file_handle
             Files_OK == FileTypeOK' /\ OpenFilesExist'
             Disks_OK == DiskTypeOK' /\ ListingGoesOn'
             Pipe_OK  == /\ notify_pipe' \in Seq(Notification)
                         /\ notify_pipe # <<>> => notify_pipe' # <<>>
             Taken(action) ==
               /\ disk_pool' \in [DiskThreads -> Seq(DiskTask)]
               /\ task \in DiskTask /\ task.action = action /\ fd \in Fds
  <1> USE DEF DiskActions
  <1>1. ASSUME NEW action, DiskTake(t, action)
        PROVE  Taken(action)
    BY <1>1, DiskTakeType, DiskTaskFields
  <1>2. ASSUME NEW action, ForDisk(t, action)
        PROVE  Taken(action) /\ disks[fd] # NULL /\ disks[fd] \in DiskInfo
    BY <1>1, <1>2 DEF ForDisk, DiskTypeOK
  <1>3. /\ UNCHANGED fileVars => Files_OK
        /\ UNCHANGED disks => Disks_OK
        /\ UNCHANGED notify_pipe => Pipe_OK
        /\ UNCHANGED session_pool => session_pool' \in [SessionThreads -> Seq(SessionTask)]
        /\ UNCHANGED fault => fault' \in Faults
    BY DEF fileVars, FileTypeOK, OpenFilesExist, DiskTypeOK, ListingGoesOn, PoolTypeOK
  <1>4. SUFFICES /\ Files_OK /\ Disks_OK /\ Pipe_OK
                 /\ session_pool' \in [SessionThreads -> Seq(SessionTask)]
                 /\ disk_pool' \in [DiskThreads -> Seq(DiskTask)]
                 /\ fault' \in Faults
    BY DEF PoolTypeOK
  <1> HIDE DEF Files_OK, Disks_OK, Pipe_OK, fd
  <1>5. CASE DiskIndexStart(t)
    <2> DEFINE Info(rest) == [data_action |-> IndexAction(rest), file_handle |-> NoHandle,
                              cur_dir |-> rest]
    <2>1. Taken("INDEX_START")
      BY <1>1, <1>5 DEF DiskIndexStart
    <2>2. PICK names \in Directory :
            add_disk(fd, Info(Unlisted(names))) /\ DataPost(fd, Lines(names))
      BY <1>5 DEF DiskIndexStart, fd
    <2>3. names \in Seq(Files)
      BY DiskAssumption DEF Directory
    <2>4. /\ Info(Unlisted(names)) \in DiskInfo
          /\ Info(Unlisted(names)).data_action = "DISK_INDEX_LOADING"
               => Info(Unlisted(names)).cur_dir # <<>>
      BY <2>3, ListingPiece DEF DiskInfo
    <2> HIDE DEF Info
    <2>5. Disks_OK
      BY <2>1, <2>2, <2>4, AddDiskType DEF Disks_OK
    <2>6. Pipe_OK
      BY <2>1, <2>2, <2>3, ListingPiece, DataPostType DEF Pipe_OK
    <2> QED
      BY <1>3, <1>5, <2>1, <2>5, <2>6 DEF DiskIndexStart
  <1>6. CASE DiskStorStart(t)
    <2> DEFINE k    == IF StorOpens(task) THEN NextHandle ELSE NoHandle
               info == [data_action |-> "DISK_STOR_START", file_handle |-> k,
                        cur_dir |-> <<>>]
    <2>1. Taken("STOR_START") /\ task.path \in Files \cup {NULL} /\ task.rest \in Nat
      BY <1>1, <1>6, DiskTaskFields DEF DiskStorStart
    <2>2. StorOpens(task) => k \in Handles /\ task.path \in Files
      BY <2>1, NextHandleType DEF StorOpens, CanOpen
    <2>3. info \in DiskInfo
      BY <2>2 DEF DiskInfo
    <2>4. Disks_OK
      BY <1>6, <2>1, <2>3, AddDiskType DEF DiskStorStart, Disks_OK, fd
    <2>5. ASSUME StorOpens(task) PROVE Files_OK
      <3>1. /\ open_files' = Opened(k, task.path, task.rest, "w")
            /\ fs' = IF fs[task.path] = NULL THEN [fs EXCEPT ![task.path] = <<>>]
                                             ELSE fs
        BY <1>6, <2>5 DEF DiskStorStart
      <3>2. <<>> \in Block
        BY DEF Block
      <3>3. /\ fs' \in [Files -> Block \cup {NULL}] /\ fs'[task.path] \in Block
            /\ \A f \in Files : fs[f] \in Block => fs'[f] \in Block
        BY <2>2, <2>5, <3>1, <3>2 DEF FileTypeOK
      <3> HIDE DEF k
      <3> QED
        BY <2>1, <2>2, <2>5, <3>1, <3>3, OpenedType DEF Files_OK
    <2>6. ASSUME ~StorOpens(task) PROVE Files_OK
      <3>1. UNCHANGED fileVars
        BY <1>6, <2>6 DEF DiskStorStart
      <3> QED
        BY <1>3, <3>1
    <2>7. Files_OK
      BY <2>5, <2>6
    <2>8. session_pool' \in [SessionThreads -> Seq(SessionTask)]
      BY <1>6, <2>1, SignalType DEF DiskStorStart, SignalTasks, fd
    <2> QED
      BY <1>3, <1>6, <2>1, <2>4, <2>7, <2>8 DEF DiskStorStart
  <1>7. CASE DiskRetrStart(t)
    <2> DEFINE data == BytesAt(task.path, task.rest)
               info == [data_action |-> IF data # <<>> THEN "DISK_RETR_LOADING"
                                                       ELSE "DISK_RETR_FINISH",
                        file_handle |-> NextHandle, cur_dir |-> <<>>]
    <2>1. /\ Taken("RETR_START") /\ task.rest \in Nat
          /\ task.path \in Files /\ fs[task.path] \in Block /\ NextHandle \in Handles
      BY <1>1, <1>7, DiskTaskFields, NextHandleType DEF DiskRetrStart, CanOpen, FileTypeOK
    <2>2. data \in Block
      BY <2>1, BytesAtType
    <2>3. info \in DiskInfo /\ info.data_action # "DISK_INDEX_LOADING"
      BY <2>1 DEF DiskInfo
    <2>4. Disks_OK
      BY <1>7, <2>1, <2>3, AddDiskType DEF DiskRetrStart, Disks_OK, fd
    <2>5. Pipe_OK
      BY <1>7, <2>1, <2>2, DataPostType DEF DiskRetrStart, Pipe_OK, fd
    <2>6. task.rest + Len(data) \in Nat
      BY <2>1, <2>2 DEF Block
    <2> HIDE DEF data
    <2>7. Files_OK
      <3>1. CASE data # <<>>
        <4>1. /\ open_files' = Opened(NextHandle, task.path, task.rest + Len(data), "r")
              /\ fs' = fs
          BY <1>7, <3>1 DEF DiskRetrStart, data
        <4> QED
          BY <2>1, <2>6, <4>1, OpenedType DEF Files_OK, FileTypeOK
      <3>2. CASE data = <<>>
        BY <1>3, <1>7, <3>2 DEF DiskRetrStart, data, fileVars
      <3> QED
        BY <3>1, <3>2
    <2> QED
      BY <1>3, <1>7, <2>1, <2>4, <2>5, <2>7 DEF DiskRetrStart
  <1>8. CASE DiskRetrStartFails(t)
    <2> DEFINE info == [data_action |-> "DISK_RETR_FINISH",
                        file_handle |-> NoHandle, cur_dir |-> <<>>]
    <2>1. Taken("RETR_START")
      BY <1>1, <1>8 DEF DiskRetrStartFails
    <2>2. info \in DiskInfo /\ info.data_action # "DISK_INDEX_LOADING"
      BY DEF DiskInfo
    <2>3. Disks_OK
      BY <1>8, <2>1, <2>2, AddDiskType DEF DiskRetrStartFails, Disks_OK, fd
    <2> QED
      BY <1>3, <1>8, <2>1, <2>3 DEF DiskRetrStartFails, Faults
  <1>9. CASE DiskIndexLoading(t)
    <2> DEFINE names == disks[fd].cur_dir
               rest  == Unlisted(names)
    <2>1. /\ Taken("WRITE_DONE") /\ disks[fd] # NULL /\ disks[fd] \in DiskInfo
          /\ disks[fd].data_action = "DISK_INDEX_LOADING"
      BY <1>2, <1>9 DEF DiskIndexLoading, fd
    <2>2. names \in Seq(Files)
      BY <2>1 DEF DiskInfo
    <2>3. /\ Lines(names) \in Block
          /\ rest \in Seq(Files) /\ IndexAction(rest) \in DiskActions
          /\ IndexAction(rest) = "DISK_INDEX_LOADING" => rest # <<>>
      BY <2>2, ListingPiece
    <2>4. /\ disks' = [disks EXCEPT ![fd].data_action = IndexAction(rest),
                                    ![fd].cur_dir = rest]
          /\ DataPost(fd, Lines(names))
      BY <1>9 DEF DiskIndexLoading, fd
    <2> HIDE DEF names, rest
    <2>5. Disks_OK
      <3> DEFINE info == [disks[fd] EXCEPT !.data_action = IndexAction(rest),
                                           !.cur_dir = rest]
      <3>1. /\ info \in DiskInfo
            /\ info.data_action = IndexAction(rest) /\ info.cur_dir = rest
        BY <2>1, <2>3 DEF DiskInfo
      <3>2. disks' = [disks EXCEPT ![fd] = info]
        BY <2>1, <2>4 DEF DiskTypeOK
      <3> HIDE DEF info
      <3> QED
        BY <2>1, <2>3, <3>1, <3>2 DEF Disks_OK, DiskTypeOK, ListingGoesOn
    <2>6. Pipe_OK
      BY <2>1, <2>3, <2>4, DataPostType DEF Pipe_OK
    <2> QED
      BY <1>3, <1>9, <2>1, <2>5, <2>6 DEF DiskIndexLoading
  <1>10. CASE DiskRetrLoading(t)
    <2> DEFINE data == BytesAt(open_files[h].path, open_files[h].pos)
    <2>1. /\ Taken("WRITE_DONE") /\ disks[fd] # NULL
          /\ h \in Handles /\ open_files[h] # NULL /\ open_files[h] \in OpenFile
      BY <1>2, <1>10 DEF DiskRetrLoading, Usable, FileTypeOK, fd
    <2>2. data \in Block /\ open_files[h].pos \in Nat
      BY <2>1, BytesAtType DEF OpenFilesExist, OpenFile
    <2> HIDE DEF data
    <2>3. CASE data # <<>>
      <3>1. /\ open_files' = [open_files EXCEPT ![h].pos = @ + Len(data)]
            /\ UNCHANGED <<disks, fs>>
        BY <1>10, <2>3 DEF DiskRetrLoading, data, fd
      <3>2. open_files[h].pos + Len(data) \in Nat
        BY <2>2 DEF Block
      <3>3. [open_files[h] EXCEPT !.pos = @ + Len(data)] \in OpenFile
        BY <2>1, <3>2 DEF OpenFile
      <3>4. /\ open_files' \in [Handles -> OpenFile \cup {NULL}]
            /\ \A k \in Handles : open_files'[k] # NULL =>
                 open_files[k] # NULL /\ open_files'[k].path = open_files[k].path
        BY <2>1, <3>1, <3>3 DEF FileTypeOK, OpenFile
      <3>5. Files_OK
        BY <3>1, <3>4, StoreGrowsType DEF FileTypeOK, Files_OK
      <3>6. UNCHANGED <<session_pool, fault, disks>> /\ DataPost(fd, data)
        BY <1>10, <3>1 DEF DiskRetrLoading, data, fd
      <3> QED
        BY <1>3, <2>1, <2>2, <3>5, <3>6, DataPostType DEF Pipe_OK
    <2>4. CASE data = <<>>
      <3>1. /\ open_files' = Closed(open_files, h) /\ SetAction(fd, "DISK_RETR_FINISH")
            /\ UNCHANGED <<session_pool, fault, fs>> /\ DataPost(fd, data)
        BY <1>10, <2>4 DEF DiskRetrLoading, data, fd
      <3>2. Files_OK
        BY <3>1, ClosedType DEF Files_OK
      <3>3. Disks_OK
        BY <2>1, <3>1, SetActionType DEF Disks_OK
      <3> QED
        BY <1>3, <2>1, <2>2, <3>1, <3>2, <3>3, DataPostType DEF Pipe_OK
    <2> QED
      BY <2>3, <2>4
  <1>11. CASE DiskRetrLoadingFails(t)
    <2>1. Taken("WRITE_DONE") /\ disks[fd] # NULL
      BY <1>2, <1>11 DEF DiskRetrLoadingFails
    <2>2. Files_OK
      BY <1>11, ClosedType DEF DiskRetrLoadingFails, Files_OK
    <2>3. Disks_OK
      BY <1>11, <2>1, SetActionType DEF DiskRetrLoadingFails, Disks_OK, fd
    <2> QED
      BY <1>3, <1>11, <2>1, <2>2, <2>3 DEF DiskRetrLoadingFails, Faults
  <1>12. CASE DiskDownloadDone(t)
    <2>1. Taken("WRITE_DONE")
      BY <1>2, <1>12 DEF DiskDownloadDone
    <2>2. Files_OK
      BY <1>12, ClosedType DEF DiskDownloadDone, Files_OK
    <2>3. Disks_OK
      BY <1>12, <2>1, DelDiskType DEF DiskDownloadDone, Disks_OK, fd
    <2>4. session_pool' \in [SessionThreads -> Seq(SessionTask)]
      BY <1>12, <2>1, SignalType DEF DiskDownloadDone, TransOk, SignalTasks, fd
    <2> QED
      BY <1>3, <1>12, <2>1, <2>2, <2>3, <2>4 DEF DiskDownloadDone
  <1>13. CASE DiskWriteDoneIgnored(t)
    <2>1. Taken("WRITE_DONE")
      BY <1>2, <1>13 DEF DiskWriteDoneIgnored
    <2> QED
      BY <1>3, <1>13, <2>1 DEF DiskWriteDoneIgnored
  <1>14. CASE DiskStoring(t)
    <2>1. /\ Taken("STORING") /\ disks[fd] # NULL /\ task.data \in Block
          /\ Usable(h, "w") /\ h \in Handles
          /\ open_files[h] # NULL /\ open_files[h] \in OpenFile
      BY <1>2, <1>14, DiskTaskFields DEF DiskStoring, Usable, FileTypeOK, fd
    <2>2. /\ fs' \in [Files -> Block \cup {NULL}]
          /\ \A f \in Files : fs[f] \in Block => fs'[f] \in Block
      <3>1. fs' = StoreAt(h, task.data)
        BY <1>14 DEF DiskStoring, fd
      <3> QED
        BY <2>1, <3>1, StoreAtType
    <2>3. open_files[h].pos + Len(task.data) \in Nat
      <3>1. open_files[h].pos \in Nat
        BY <2>1 DEF OpenFile
      <3>2. Len(task.data) \in Nat
        BY <2>1 DEF Block
      <3> QED
        BY <3>1, <3>2
    <2>4. [open_files[h] EXCEPT !.pos = @ + Len(task.data)] \in OpenFile
      BY <2>1, <2>3 DEF OpenFile
    <2>5. open_files' = [open_files EXCEPT ![h].pos = @ + Len(task.data)]
      BY <1>14 DEF DiskStoring, fd
    <2>6. /\ open_files' \in [Handles -> OpenFile \cup {NULL}]
          /\ \A k \in Handles : open_files'[k] # NULL =>
               open_files[k] # NULL /\ open_files'[k].path = open_files[k].path
      BY <2>1, <2>4, <2>5 DEF FileTypeOK, OpenFile
    <2>7. Files_OK
      BY <2>2, <2>6, StoreGrowsType DEF Files_OK
    <2>8. Disks_OK
      BY <1>14, <2>1, SetActionType DEF DiskStoring, Disks_OK, fd
    <2> QED
      BY <1>3, <1>14, <2>1, <2>7, <2>8 DEF DiskStoring
  <1>15. CASE DiskStoringFails(t)
    <2>1. Taken("STORING") /\ disks[fd] # NULL
      BY <1>2, <1>15 DEF DiskStoringFails
    <2>2. Disks_OK
      BY <1>15, <2>1, SetActionType DEF DiskStoringFails, Disks_OK, fd
    <2> QED
      BY <1>3, <1>15, <2>1, <2>2 DEF DiskStoringFails
  <1>16. CASE DiskStorOk(t)
    <2>1. Taken("STOR_OK") /\ task.data \in Block /\ Usable(h, "w")
      BY <1>2, <1>16, DiskTaskFields DEF DiskStorOk, fd
    <2>2. /\ fs' \in [Files -> Block \cup {NULL}]
          /\ \A f \in Files : fs[f] \in Block => fs'[f] \in Block
      BY <1>16, <2>1, StoreAtType DEF DiskStorOk, fd
    <2>3. /\ open_files' \in [Handles -> OpenFile \cup {NULL}]
          /\ \A k \in Handles : open_files'[k] # NULL =>
               open_files[k] # NULL /\ open_files'[k].path = open_files[k].path
      BY <1>16 DEF DiskStorOk, Closed, FileTypeOK
    <2>4. Files_OK
      BY <2>2, <2>3, StoreGrowsType DEF Files_OK
    <2>5. Disks_OK
      BY <1>16, <2>1, DelDiskType DEF DiskStorOk, Disks_OK, fd
    <2>6. session_pool' \in [SessionThreads -> Seq(SessionTask)]
      BY <1>16, <2>1, SignalType DEF DiskStorOk, TransOk, SignalTasks, fd
    <2> QED
      BY <1>3, <1>16, <2>1, <2>4, <2>5, <2>6 DEF DiskStorOk
  <1>17. CASE DiskStorOkFails(t)
    <2>1. Taken("STOR_OK") /\ disks[fd] # NULL
      BY <1>2, <1>17 DEF DiskStorOkFails
    <2>2. Files_OK
      BY <1>17, ClosedType DEF DiskStorOkFails, Files_OK
    <2>3. Disks_OK
      BY <1>17, <2>1, SetActionType DEF DiskStorOkFails, Disks_OK, fd
    <2> QED
      BY <1>3, <1>17, <2>1, <2>2, <2>3 DEF DiskStorOkFails
  <1>18. CASE DiskMissing(t)
    <2>1. PICK action : DiskTake(t, action)
      BY <1>18 DEF DiskMissing
    <2> QED
      BY <1>1, <1>3, <1>18, <2>1 DEF DiskMissing
  <1> QED
    BY <1>5, <1>6, <1>7, <1>8, <1>9, <1>10, <1>11, <1>12, <1>13, <1>14, <1>15,
       <1>16, <1>17, <1>18 DEF DiskStep

-----------------------------------------------------------------------------
(* The reactor.                                                            *)

\* A client has a far end, and its write event is only added while there is
\* something to write.
ClientsWhole ==
  \A fd \in Fds : clients[fd] # NULL =>
    /\ peers[fd] \in Peer
    /\ clients[fd].ev_write => clients[fd].write_q # <<>>

\* What the reactor and the clients keep.
ReactorOK == PoolTypeOK /\ ReactorTypeOK /\ CallbacksValid /\ ClientsWhole

\* A callback on a client that stays.
LEMMA ClientUpdate ==
  ASSUME ReactorTypeOK, CallbacksValid, ClientsWhole,
         NEW fd \in Fds, clients[fd] # NULL, NEW c \in TCP_client,
         SetClient(fd, c), ready' \subseteq ready,
         c.ev_write => c.write_q # <<>>,
         <<"write", fd>> \in ready' => c.ev_write,
         <<"data_accept", fd>> \in ready' => c.ev_data_accept # NULL,
         <<"data_read", fd>> \in ready' \/ <<"data_write", fd>> \in ready'
           => c.data_fd # NULL,
         <<"accept">> \in ready' => backlog' > 0,
         <<"notify">> \in ready' => notify_pipe' # <<>>,
         \A f \in Fds : peers[f] \in Peer => peers'[f] \in Peer
  PROVE  /\ clients' \in [Fds -> TCP_client \cup {NULL}]
         /\ ready' \subseteq Callbacks
         /\ CallbacksValid' /\ ClientsWhole'
  <1>1. clients' = [clients EXCEPT ![fd] = c] /\ c # NULL
    BY ClientNullAssumption DEF SetClient
  <1>2. clients' \in [Fds -> TCP_client \cup {NULL}] /\ ready' \subseteq Callbacks
    BY <1>1 DEF ReactorTypeOK
  <1>3. ASSUME NEW f \in Fds
        PROVE  clients'[f] = IF f = fd THEN c ELSE clients[f]
    BY <1>1 DEF ReactorTypeOK
  <1>4. CallbacksValid'
    BY <1>1, <1>3 DEF CallbacksValid
  <1>5. ClientsWhole'
    BY <1>1, <1>3 DEF ClientsWhole
  <1> QED
    BY <1>2, <1>4, <1>5

\* What is left of a round is as valid as the round was.
LEMMA RoundGoesOn ==
  ASSUME CallbacksValid, ClientsWhole, NEW fd \in Fds, ready' \subseteq ready
  PROVE  /\ <<"write", fd>> \in ready' => clients[fd].ev_write
         /\ <<"data_accept", fd>> \in ready' => clients[fd].ev_data_accept # NULL
         /\ <<"data_read", fd>> \in ready' \/ <<"data_write", fd>> \in ready'
              => clients[fd].data_fd # NULL
         /\ <<"accept">> \in ready' => backlog > 0
         /\ <<"notify">> \in ready' => notify_pipe # <<>>
         /\ clients[fd] # NULL /\ clients[fd].ev_write => clients[fd].write_q # <<>>
  BY DEF CallbacksValid, ClientsWhole

\* A callback that leaves every client as it is.
LEMMA ClientsUntouched ==
  ASSUME ReactorTypeOK, CallbacksValid, ClientsWhole,
         clients' = clients, ready' \subseteq ready,
         <<"accept">> \in ready' => backlog' > 0,
         <<"notify">> \in ready' => notify_pipe' # <<>>,
         \A f \in Fds : peers[f] \in Peer => peers'[f] \in Peer
  PROVE  /\ clients' \in [Fds -> TCP_client \cup {NULL}]
         /\ ready' \subseteq Callbacks
         /\ CallbacksValid' /\ ClientsWhole'
  <1>1. clients' \in [Fds -> TCP_client \cup {NULL}] /\ ready' \subseteq Callbacks
    BY DEF ReactorTypeOK
  <1>2. CallbacksValid'
    BY DEF CallbacksValid
  <1>3. ClientsWhole'
    BY DEF ClientsWhole
  <1> QED
    BY <1>1, <1>2, <1>3

\* Closing sockets keeps them typed.
LEMMA ClosedSocksType ==
  ASSUME ReactorTypeOK, NEW fd, data_sock' = ClosedSocks(fd)
  PROVE  data_sock' \in [Ports -> DataSock]
  BY DEF ReactorTypeOK, ClosedSocks, DataSock

\* A callback that deletes its client.
LEMMA ClientDelete ==
  ASSUME ReactorTypeOK, CallbacksValid, ClientsWhole,
         NEW fd \in Fds, del_client(fd), ready' \subseteq ready \ EventsOf(fd),
         backlog' = backlog, notify_pipe' = notify_pipe
  PROVE  /\ clients' \in [Fds -> TCP_client \cup {NULL}]
         /\ peers' \in [Fds -> Peer \cup {NULL}]
         /\ data_sock' \in [Ports -> DataSock]
         /\ ready' \subseteq Callbacks
         /\ CallbacksValid' /\ ClientsWhole'
  <1>1. data_sock' \in [Ports -> DataSock]
    BY ClosedSocksType DEF del_client
  <1>2. /\ clients' = [clients EXCEPT ![fd] = NULL]
        /\ peers' = [peers EXCEPT ![fd] = NULL]
    BY DEF del_client
  <1>3. /\ clients' \in [Fds -> TCP_client \cup {NULL}]
        /\ peers' \in [Fds -> Peer \cup {NULL}]
        /\ ready' \subseteq Callbacks
    BY <1>2 DEF ReactorTypeOK
  <1>4. \A e \in CtrlEvents \cup DataEvents : <<e, fd>> \notin ready'
    BY DEF EventsOf
  <1>5. CallbacksValid'
    BY <1>2, <1>4 DEF CallbacksValid, ReactorTypeOK, CtrlEvents, DataEvents
  <1>6. ClientsWhole'
    BY <1>2 DEF ClientsWhole, ReactorTypeOK
  <1> QED
    BY <1>1, <1>3, <1>5, <1>6

\* A new round asks for the callbacks of clients that are there.
LEMMA PollType ==
  ASSUME ReactorOK, Poll
  PROVE  ReactorOK'
  <1>1. /\ ready' \subseteq ReadyNow
        /\ UNCHANGED <<poolVars, clients, peers, data_sock, backlog, errno_again>>
    BY DEF Poll
  <1>2. ready' \subseteq Callbacks
    BY <1>1 DEF ReadyNow, Callbacks, CtrlEvents, DataEvents
  <1>3. CallbacksValid'
    <2>1. /\ <<"accept">> \in ready' => backlog' > 0
          /\ <<"notify">> \in ready' => notify_pipe' # <<>>
      BY <1>1 DEF ReadyNow, poolVars
    <2>2. ASSUME NEW fd \in Fds
          PROVE  /\ <<"read", fd>> \in ready' => clients[fd] # NULL
                 /\ <<"write", fd>> \in ready' =>
                      clients[fd] # NULL /\ clients[fd].ev_write
                 /\ <<"data_accept", fd>> \in ready' =>
                      clients[fd] # NULL /\ clients[fd].ev_data_accept # NULL
                 /\ <<"data_read", fd>> \in ready' =>
                      clients[fd] # NULL /\ clients[fd].data_fd # NULL
                 /\ <<"data_write", fd>> \in ready' =>
                      clients[fd] # NULL /\ clients[fd].data_fd # NULL
      BY <1>1 DEF ReadyNow
    <2> QED
      BY <1>1, <2>1, <2>2
      DEF CallbacksValid, CtrlEvents, DataEvents, ReactorOK, ClientsWhole
  <1> QED
    BY <1>1, <1>2, <1>3
    DEF ReactorOK, PoolTypeOK, ReactorTypeOK, ClientsWhole, poolVars

\* A client as on_accept makes it.
LEMMA NewClientType ==
  NewClient \in TCP_client /\ NewClient # NULL /\ ~NewClient.ev_write
  <1>1. <<>> \in Seq(Reply) /\ <<>> \in Seq(Block) /\ <<>> \in Block
    BY DEF Block
  <1>2. NewClient \in TCP_client
    BY <1>1 DEF NewClient, TCP_client
  <1>3. ~NewClient.ev_write
    BY DEF NewClient
  <1> QED
    BY <1>2, <1>3, ClientNullAssumption

\* What the two ends of a control connection do to its queues.
LEMMA PeerQueues ==
  ASSUME NEW p \in Peer
  PROVE  /\ [p EXCEPT !.inq = <<>>] \in Peer
         /\ \A r \in Reply : [p EXCEPT !.outq = Append(@, r)] \in Peer
  <1>1. <<>> \in Seq(Command) /\ \A r \in Reply : Append(p.outq, r) \in Seq(Reply)
    BY DEF Peer
  <1> QED
    BY <1>1 DEF Peer

\* A client's end as it connects.
LEMMA NewPeerType ==
  ASSUME NEW fd \in Fds, NEW script \in Scripts[fd]
  PROVE  NewPeer(script) \in Peer
  <1>1. script \in Seq(Command)
    BY ReactorAssumption
  <1> QED
    BY <1>1 DEF NewPeer, Peer, Block

\* The callbacks of the control connection.
LEMMA CtrlStepType ==
  ASSUME ReactorOK, NEW fd \in Fds, CtrlStep(fd)
  PROVE  ReactorOK'
  <1> USE DEF ReactorOK
  <1> DEFINE c == clients[fd]
  <1>1. CASE on_accept(fd)
    <2>1. PICK script \in Scripts[fd] : peers' = [peers EXCEPT ![fd] = NewPeer(script)]
      BY <1>1 DEF on_accept
    <2>2. NewPeer(script) \in Peer
      BY NewPeerType
    <2>3. NewClient \in TCP_client /\ NewClient # NULL /\ ~NewClient.ev_write
      BY NewClientType
    <2>4. /\ clients' = [clients EXCEPT ![fd] = NewClient] /\ c = NULL
          /\ <<"accept">> \in ready /\ ready' = ready \ {<<"accept">>}
          /\ backlog' = backlog - 1
          /\ Signal(fd, "CTRL_ACCEPT")
          /\ UNCHANGED <<disk_pool, notify_pipe, fault, data_sock, errno_again>>
      BY <1>1 DEF on_accept, SetClient, Ran
    <2>5. session_pool' \in [SessionThreads -> Seq(SessionTask)]
      BY <2>4, SignalType DEF Signal, SignalTasks
    <2>6. backlog' \in Nat
      BY <2>4 DEF CallbacksValid, ReactorTypeOK
    <2>7. ReactorTypeOK'
      BY <2>1, <2>2, <2>3, <2>4, <2>6 DEF ReactorTypeOK
    <2>8. ASSUME NEW f \in Fds
          PROVE  /\ clients'[f] = IF f = fd THEN NewClient ELSE clients[f]
                 /\ peers'[f] = IF f = fd THEN NewPeer(script) ELSE peers[f]
      BY <2>1, <2>4 DEF ReactorTypeOK
    <2>9. ASSUME NEW f \in Fds, NEW e \in CtrlEvents \cup DataEvents,
                 <<e, f>> \in ready'
          PROVE  <<e, f>> \in ready /\ clients[f] # NULL /\ clients'[f] = clients[f]
      BY <2>4, <2>8, <2>9 DEF CallbacksValid
    <2>10. CallbacksValid'
      BY <2>4, <2>9 DEF CallbacksValid, CtrlEvents, DataEvents
    <2>11. ClientsWhole'
      BY <2>2, <2>3, <2>8 DEF ClientsWhole
    <2> QED
      BY <2>4, <2>5, <2>7, <2>10, <2>11 DEF PoolTypeOK
  <1>2. CASE on_read_lines(fd)
    <2>1. /\ ready' \subseteq ready
          /\ c # NULL /\ peers[fd].inq # <<>>
          /\ peers' = [peers EXCEPT ![fd].inq = <<>>]
          /\ post_to_session([fd |-> fd, action |-> "READ", buf |-> peers[fd].inq])
          /\ UNCHANGED <<disk_pool, notify_pipe, fault, clients, data_sock,
                         backlog, errno_again>>
      BY <1>2 DEF on_read_lines, Ran, CallbacksValid, CtrlEvents
    <2>2. peers[fd] \in Peer
      BY <2>1 DEF ClientsWhole
    <2>3. [fd |-> fd, action |-> "READ", buf |-> peers[fd].inq] \in SessionTask
      BY <2>1, <2>2 DEF SessionTask, Peer
    <2>4. [peers[fd] EXCEPT !.inq = <<>>] \in Peer
      BY <2>2, PeerQueues
    <2>5. /\ peers' \in [Fds -> Peer \cup {NULL}]
          /\ \A f \in Fds : peers[f] \in Peer => peers'[f] \in Peer
      BY <2>1, <2>4 DEF ReactorTypeOK
    <2>6. /\ ready' \subseteq Callbacks /\ CallbacksValid' /\ ClientsWhole'
      BY <2>1, <2>5, ClientsUntouched DEF CallbacksValid
    <2>7. session_pool' \in [SessionThreads -> Seq(SessionTask)]
      BY <2>1, <2>3, PostSessionType
    <2> QED
      BY <2>1, <2>5, <2>6, <2>7 DEF PoolTypeOK, ReactorTypeOK
  <1>3. CASE on_read_gone(fd) \/ on_write_error(fd)
    <2>1. /\ ready' \subseteq ready \ EventsOf(fd)
          /\ Signal(fd, "DISCONN") \/ Signal(fd, "CONN_ERR")
          /\ errno_again' \in BOOLEAN
          /\ del_client(fd)
          /\ UNCHANGED <<disk_pool, notify_pipe, fault, backlog>>
      BY <1>3 DEF on_read_gone, on_write_error, Ran, ReactorTypeOK
    <2>2. session_pool' \in [SessionThreads -> Seq(SessionTask)]
      BY <2>1, SignalType DEF Signal, SignalTasks
    <2> QED
      BY <2>1, <2>2, ClientDelete DEF PoolTypeOK, ReactorTypeOK
  <1>4. CASE on_write(fd)
    <2> DEFINE d == [c EXCEPT !.write_q = Tail(@), !.ev_write = FALSE]
    <2>1. /\ ready' \subseteq ready /\ <<"write", fd>> \notin ready'
          /\ c # NULL /\ c.write_q # <<>>
          /\ SetClient(fd, d)
          /\ peers' = [peers EXCEPT ![fd].outq = Append(@, Head(c.write_q))]
          /\ UNCHANGED <<poolVars, data_sock, backlog, errno_again>>
      BY <1>4 DEF on_write, Ran, CallbacksValid, CtrlEvents
    <2>2. c \in TCP_client /\ peers[fd] \in Peer
      BY <2>1 DEF ReactorTypeOK, ClientsWhole
    <2>3. Head(c.write_q) \in Reply /\ Tail(c.write_q) \in Seq(Reply)
      BY <2>1, <2>2, HeadTailProperties DEF TCP_client
    <2>4. /\ d \in TCP_client /\ ~d.ev_write
          /\ d.ev_data_accept = c.ev_data_accept /\ d.data_fd = c.data_fd
      BY <2>2, <2>3 DEF TCP_client
    <2>5. [peers[fd] EXCEPT !.outq = Append(@, Head(c.write_q))] \in Peer
      BY <2>2, <2>3, PeerQueues
    <2>6. /\ peers' \in [Fds -> Peer \cup {NULL}]
          /\ \A f \in Fds : peers[f] \in Peer => peers'[f] \in Peer
      BY <2>1, <2>5 DEF ReactorTypeOK
    <2> HIDE DEF d
    <2>7. /\ clients' \in [Fds -> TCP_client \cup {NULL}]
          /\ ready' \subseteq Callbacks /\ CallbacksValid' /\ ClientsWhole'
      BY <2>1, <2>4, <2>6, ClientUpdate DEF CallbacksValid, poolVars
    <2> QED
      BY <2>1, <2>6, <2>7 DEF PoolTypeOK, ReactorTypeOK, poolVars
  <1> QED
    BY <1>1, <1>2, <1>3, <1>4 DEF CtrlStep

\* The timer.
LEMMA TimeoutType ==
  ASSUME ReactorOK, NEW fd \in Fds, on_timeout(fd)
  PROVE  ReactorOK'
  <1>1. /\ ready' \subseteq ready \ EventsOf(fd)
        /\ del_client(fd) /\ Signal(fd, "DISCONN")
        /\ UNCHANGED <<disk_pool, notify_pipe, fault, backlog, errno_again>>
    BY DEF on_timeout
  <1>2. session_pool' \in [SessionThreads -> Seq(SessionTask)]
    BY <1>1, SignalType DEF Signal, SignalTasks, ReactorOK
  <1> QED
    BY <1>1, <1>2, ClientDelete DEF ReactorOK, PoolTypeOK, ReactorTypeOK

\* An answer is queued and its write event added.
LEMMA QueuedType ==
  ASSUME NEW c \in TCP_client, NEW reply \in Reply
  PROVE  /\ Queued(c, reply) \in TCP_client
         /\ Queued(c, reply).ev_write /\ Queued(c, reply).write_q # <<>>
         /\ Queued(c, reply).ev_data_accept = c.ev_data_accept
         /\ Queued(c, reply).data_fd = c.data_fd
  <1>1. Append(c.write_q, reply) \in Seq(Reply) /\ Append(c.write_q, reply) # <<>>
    BY DEF TCP_client
  <1> QED
    BY <1>1 DEF Queued, TCP_client

\* clear_datafd keeps the answers and the upload buffer.
LEMMA ClearedType ==
  ASSUME NEW c \in TCP_client
  PROVE  /\ clear_datafd(c) \in TCP_client
         /\ clear_datafd(c).ev_write = c.ev_write
         /\ clear_datafd(c).write_q = c.write_q
         /\ clear_datafd(c).file_buffer = c.file_buffer
  BY DEF clear_datafd, TCP_client

\* Opening listeners keeps the sockets typed.
LEMMA ListeningType ==
  ASSUME ReactorTypeOK, NEW ports, data_sock' = Listening(ports)
  PROVE  data_sock' \in [Ports -> DataSock]
  BY DEF ReactorTypeOK, Listening, DataSock

\* A record of the notification pipe.
LEMMA NotifyStepType ==
  ASSUME ReactorOK, NotifyStep
  PROVE  ReactorOK'
  <1> USE DEF ReactorOK
  <1> DEFINE n  == Head(notify_pipe)
             fd == n.fd
             c  == clients[fd]
  <1>1. ASSUME NEW gone, Ran(<<"notify">>, gone), notify_pipe' = Tail(notify_pipe)
        PROVE  /\ n \in Notification /\ fd \in Fds
               /\ notify_pipe' \in Seq(Notification)
               /\ ready' \subseteq ready \ gone /\ <<"notify">> \notin ready'
    <2>1. notify_pipe # <<>>
      BY <1>1 DEF Ran, CallbacksValid
    <2>2. n \in Notification /\ notify_pipe' \in Seq(Notification)
      BY <1>1, <2>1, HeadTailProperties DEF PoolTypeOK
    <2> QED
      BY <1>1, <2>2, NotificationFields DEF Ran
  <1>2. ASSUME NEW action, NEW gone, Notified(action, gone)
        PROVE  /\ n \in Notification /\ fd \in Fds /\ n.action = action
               /\ notify_pipe' \in Seq(Notification)
               /\ ready' \subseteq ready \ gone /\ <<"notify">> \notin ready'
               /\ c # NULL /\ c \in TCP_client
    BY <1>1, <1>2 DEF Notified, ReactorTypeOK
  <1> HIDE DEF n, fd
  <1>3. CASE on_notify_null
    <2>1. /\ notify_pipe' \in Seq(Notification)
          /\ ready' \subseteq ready /\ <<"notify">> \notin ready'
          /\ fault' \in Faults
          /\ UNCHANGED <<session_pool, disk_pool, clients, peers, data_sock,
                         backlog, errno_again>>
      BY <1>1, <1>3 DEF on_notify_null, Faults
    <2>2. ready' \subseteq Callbacks /\ CallbacksValid' /\ ClientsWhole'
      BY <2>1, ClientsUntouched DEF CallbacksValid
    <2> QED
      BY <2>1, <2>2 DEF PoolTypeOK, ReactorTypeOK
  <1>4. CASE on_notify_ctrl_write
    <2>1. /\ Notified("CTRL_WRITE", {}) /\ SetClient(fd, Queued(c, n.reply))
          /\ UNCHANGED <<session_pool, disk_pool, fault, peers, data_sock,
                         backlog, errno_again>>
      BY <1>4 DEF on_notify_ctrl_write, n, fd
    <2>2. n.reply \in Reply
      BY <1>2, <2>1, NotificationFields
    <2>3. /\ clients' \in [Fds -> TCP_client \cup {NULL}]
          /\ ready' \subseteq Callbacks /\ CallbacksValid' /\ ClientsWhole'
      <3> DEFINE d == Queued(c, n.reply)
      <3>1. /\ d \in TCP_client /\ d.ev_write /\ d.write_q # <<>>
            /\ d.ev_data_accept = c.ev_data_accept /\ d.data_fd = c.data_fd
        BY <1>2, <2>1, <2>2, QueuedType
      <3>2. ready' \subseteq ready /\ SetClient(fd, d)
        BY <1>2, <2>1
      <3> HIDE DEF d
      <3> QED
        BY <1>2, <2>1, <3>1, <3>2, RoundGoesOn, ClientUpdate
    <2> QED
      BY <1>2, <2>1, <2>3 DEF PoolTypeOK, ReactorTypeOK
  <1>5. CASE on_notify_trans_ok
    <2> DEFINE q == Queued(c, n.reply)
    <2>1. /\ Notified("TRANS_OK", DataEventsOf(fd)) /\ SetClient(fd, clear_datafd(q))
          /\ data_sock' = ClosedSocks(fd)
          /\ UNCHANGED <<session_pool, disk_pool, fault, peers, backlog, errno_again>>
      BY <1>5 DEF on_notify_trans_ok, n, fd
    <2>2. n.reply \in Reply
      BY <1>2, <2>1, NotificationFields
    <2>3. q \in TCP_client /\ q.ev_write /\ q.write_q # <<>>
      BY <1>2, <2>1, <2>2, QueuedType
    <2> HIDE DEF q
    <2>4. /\ clear_datafd(q) \in TCP_client
          /\ clear_datafd(q).ev_write /\ clear_datafd(q).write_q # <<>>
      BY <2>3, ClearedType
    <2>5. \A e \in DataEvents : <<e, fd>> \notin ready'
      BY <1>2, <2>1 DEF DataEventsOf
    <2>6. /\ clients' \in [Fds -> TCP_client \cup {NULL}]
          /\ ready' \subseteq Callbacks /\ CallbacksValid' /\ ClientsWhole'
      BY <1>2, <2>1, <2>4, <2>5, ClientUpdate DEF CallbacksValid, DataEvents
    <2>7. data_sock' \in [Ports -> DataSock]
      BY <2>1, ClosedSocksType
    <2> QED
      BY <1>2, <2>1, <2>6, <2>7 DEF PoolTypeOK, ReactorTypeOK
  <1>6. CASE on_notify_pasv
    <2>1. /\ Notified("PASV", {})
          /\ fault' \in Faults
          /\ UNCHANGED <<disk_pool, peers, backlog, errno_again>>
          /\ \/ \E port \in Ports, ports \in SUBSET Ports :
                  /\ data_sock' = Listening(ports)
                  /\ \/ /\ SetClient(fd, [c EXCEPT !.listen_fd = port])
                        /\ session_pool' = session_pool
                     \/ /\ SetClient(fd, [c EXCEPT !.listen_fd = port, !.ev_data_accept = port])
                        /\ post_to_session([fd |-> fd, action |-> "PASV", port |-> port])
             \/ UNCHANGED <<clients, data_sock, session_pool>>
      BY <1>6 DEF on_notify_pasv, event_set, FreePorts, PoolTypeOK, Faults, n, fd
    <2>2. CASE UNCHANGED <<clients, data_sock, session_pool>>
      <3>1. ready' \subseteq Callbacks /\ CallbacksValid' /\ ClientsWhole'
        BY <1>2, <2>1, <2>2, ClientsUntouched DEF CallbacksValid
      <3> QED
        BY <1>2, <2>1, <2>2, <3>1 DEF PoolTypeOK, ReactorTypeOK
    <2>3. ASSUME NEW port \in Ports, NEW ports, NEW added \in {c.ev_data_accept, port},
                 data_sock' = Listening(ports),
                 SetClient(fd, [c EXCEPT !.listen_fd = port, !.ev_data_accept = added]),
                 \/ session_pool' = session_pool
                 \/ post_to_session([fd |-> fd, action |-> "PASV", port |-> port])
          PROVE  ReactorOK'
      <3> DEFINE d == [c EXCEPT !.listen_fd = port, !.ev_data_accept = added]
      <3>1. /\ d \in TCP_client /\ d.ev_data_accept = added
            /\ d.ev_write = c.ev_write /\ d.write_q = c.write_q /\ d.data_fd = c.data_fd
        BY <1>2, <2>1 DEF TCP_client
      <3>2. [fd |-> fd, action |-> "PASV", port |-> port] \in SessionTask
        BY <1>2, <2>1 DEF SessionTask
      <3>3. session_pool' \in [SessionThreads -> Seq(SessionTask)]
        BY <2>3, <3>2, PostSessionType DEF PoolTypeOK
      <3>4. data_sock' \in [Ports -> DataSock]
        BY <2>3, ListeningType
      <3>5. SetClient(fd, d)
        BY <2>3
      <3> HIDE DEF d
      <3>6. /\ clients' \in [Fds -> TCP_client \cup {NULL}]
            /\ ready' \subseteq Callbacks /\ CallbacksValid' /\ ClientsWhole'
        <4>1. port # NULL
          BY DataAssumption
        <4>2. ready' \subseteq ready
          BY <1>2, <2>1
        <4> QED
          BY <1>2, <2>1, <3>1, <3>5, <4>1, <4>2, RoundGoesOn, ClientUpdate
      <3> QED
        BY <1>2, <2>1, <3>3, <3>4, <3>6 DEF PoolTypeOK, ReactorTypeOK
    <2>4. ASSUME NEW port
          PROVE  [c EXCEPT !.listen_fd = port] =
                   [c EXCEPT !.listen_fd = port, !.ev_data_accept = c.ev_data_accept]
      BY <1>2, <2>1 DEF TCP_client
    <2> QED
      BY <2>1, <2>2, <2>3, <2>4
  <1>7. CASE on_notify_data_write
    <2> DEFINE d == [c EXCEPT !.data_write_q = Append(@, n.data),
                              !.ev_data_write = c.data_fd # NULL]
    <2>1. /\ Notified("DATA_WRITE", {}) /\ SetClient(fd, d)
          /\ UNCHANGED <<session_pool, disk_pool, fault, peers, data_sock,
                         backlog, errno_again>>
      BY <1>7 DEF on_notify_data_write, n, fd
    <2>2. n.data \in Block
      BY <1>2, <2>1, NotificationFields
    <2>3. Append(c.data_write_q, n.data) \in Seq(Block)
      BY <1>2, <2>1, <2>2 DEF TCP_client
    <2>4. /\ d \in TCP_client /\ d.ev_data_accept = c.ev_data_accept
          /\ d.ev_write = c.ev_write /\ d.write_q = c.write_q /\ d.data_fd = c.data_fd
      BY <1>2, <2>1, <2>3 DEF TCP_client
    <2> HIDE DEF d
    <2>5. /\ clients' \in [Fds -> TCP_client \cup {NULL}]
          /\ ready' \subseteq Callbacks /\ CallbacksValid' /\ ClientsWhole'
      <3>1. ready' \subseteq ready
        BY <1>2, <2>1
      <3> QED
        BY <1>2, <2>1, <2>4, <3>1, RoundGoesOn, ClientUpdate
    <2> QED
      BY <1>2, <2>1, <2>5 DEF PoolTypeOK, ReactorTypeOK
  <1> QED
    BY <1>3, <1>4, <1>5, <1>6, <1>7 DEF NotifyStep

\* Cutting a piece off a block.
LEMMA PieceType ==
  ASSUME NEW b \in Block, NEW n \in 0 .. Len(b)
  PROVE  /\ SubSeq(b, 1, n) \in Block /\ Len(SubSeq(b, 1, n)) = n
         /\ SubSeq(b, n + 1, Len(b)) \in Block
  <1>1. Len(b) \in Nat /\ b \in [1 .. Len(b) -> Byte]
    BY DEF Block
  <1>2. \A i \in 1 .. n : b[i] \in Byte
    BY <1>1
  <1>3. \A i \in n + 1 .. Len(b) : b[i] \in Byte
    BY <1>1
  <1>4. SubSeq(b, 1, n) \in Seq(Byte) /\ Len(SubSeq(b, 1, n)) = n
    BY <1>1, <1>2, SubSeqProperties
  <1>5. SubSeq(b, n + 1, Len(b)) \in Seq(Byte)
    BY <1>1, <1>3, SubSeqProperties
  <1> QED
    BY <1>4, <1>5 DEF Block

\* Two blocks make a block.
LEMMA JoinType ==
  ASSUME NEW b \in Block, NEW d \in Block
  PROVE  b \o d \in Block
  BY DEF Block

\* One data socket changes.
LEMMA SockUpdate ==
  ASSUME ReactorTypeOK, NEW p \in Ports, NEW d \in DataSock,
         data_sock' = [data_sock EXCEPT ![p] = d]
  PROVE  data_sock' \in [Ports -> DataSock]
  BY DEF ReactorTypeOK

\* The callbacks of the data connection.
LEMMA DataStepType ==
  ASSUME ReactorOK, NEW fd \in Fds, DataStep(fd)
  PROVE  ReactorOK'
  <1> USE DEF ReactorOK
  <1> DEFINE c    == clients[fd]
             sock == data_sock[c.data_fd]
  <1>1. ASSUME NEW e \in DataEvents, NEW gone, Ran(<<e, fd>>, gone)
        PROVE  /\ ready' \subseteq ready \ gone /\ ready' \subseteq ready
               /\ <<e, fd>> \notin ready'
               /\ c # NULL /\ c \in TCP_client
               /\ e = "data_accept" => c.ev_data_accept \in Ports
               /\ e \in {"data_read", "data_write"} =>
                    c.data_fd \in Ports /\ sock \in DataSock
    <2>1. /\ <<e, fd>> \in ready
          /\ ready' \subseteq ready \ gone /\ ready' \subseteq ready
          /\ <<e, fd>> \notin ready'
      BY <1>1 DEF Ran
    <2>2. /\ c # NULL /\ c \in TCP_client
          /\ e = "data_accept" => c.ev_data_accept # NULL
          /\ e \in {"data_read", "data_write"} => c.data_fd # NULL
      BY <2>1 DEF CallbacksValid, ReactorTypeOK, DataEvents
    <2>3. /\ c.ev_data_accept # NULL => c.ev_data_accept \in Ports
          /\ c.data_fd # NULL => c.data_fd \in Ports /\ sock \in DataSock
      BY <2>2 DEF TCP_client, ReactorTypeOK
    <2> QED
      BY <2>1, <2>2, <2>3
  <1> HIDE DEF sock
  <1>2. CASE data_accept(fd)
    <2> DEFINE d == [c EXCEPT !.data_fd = c.ev_data_accept, !.ev_data_write = FALSE]
               k == [data_sock[c.ev_data_accept] EXCEPT !.st = "accepted"]
    <2>1. /\ Ran(<<"data_accept", fd>>, {})
          /\ data_sock' = [data_sock EXCEPT ![c.ev_data_accept] = k]
          /\ SetClient(fd, d) /\ Signal(fd, "DATA_ACCEPT")
          /\ fault' \in Faults
          /\ UNCHANGED <<disk_pool, notify_pipe, peers, backlog, errno_again>>
      BY <1>2 DEF data_accept, event_set, PoolTypeOK, Faults
    <2>2. /\ ready' \subseteq ready /\ c # NULL /\ c \in TCP_client
          /\ c.ev_data_accept \in Ports /\ c.ev_data_accept # NULL
      BY <1>1, <2>1, DataAssumption DEF DataEvents
    <2>3. /\ d \in TCP_client /\ d.ev_data_accept = c.ev_data_accept /\ d.data_fd = c.ev_data_accept
          /\ d.ev_write = c.ev_write /\ d.write_q = c.write_q
      BY <2>2 DEF TCP_client
    <2>4. k \in DataSock
      BY <2>2 DEF ReactorTypeOK, DataSock
    <2> HIDE DEF d, k
    <2>5. /\ clients' \in [Fds -> TCP_client \cup {NULL}]
          /\ ready' \subseteq Callbacks /\ CallbacksValid' /\ ClientsWhole'
      BY <2>1, <2>2, <2>3, RoundGoesOn, ClientUpdate
    <2>6. data_sock' \in [Ports -> DataSock]
      BY <2>1, <2>2, <2>4, SockUpdate
    <2>7. session_pool' \in [SessionThreads -> Seq(SessionTask)]
      BY <2>1, SignalType DEF Signal, SignalTasks
    <2> QED
      BY <2>1, <2>5, <2>6, <2>7 DEF PoolTypeOK, ReactorTypeOK
  <1>3. CASE data_read_data(fd)
    <2> DEFINE n    == IF Len(sock.inq) < DATASIZE THEN Len(sock.inq) ELSE DATASIZE
               full == c.file_buffer \o SubSeq(sock.inq, 1, n)
               k    == [sock EXCEPT !.inq = SubSeq(@, n + 1, Len(@))]
    <2>1. /\ Ran(<<"data_read", fd>>, {})
          /\ data_sock' = [data_sock EXCEPT ![c.data_fd] = k]
          /\ \/ fault' = "buffer_exit" /\ UNCHANGED <<clients, disk_pool>>
             \/ SetClient(fd, [c EXCEPT !.file_buffer = full]) /\ UNCHANGED <<disk_pool, fault>>
             \/ /\ SetClient(fd, [c EXCEPT !.file_buffer = <<>>])
                /\ post_to_disk([fd |-> fd, action |-> "STORING", data |-> full])
          /\ UNCHANGED <<session_pool, notify_pipe, peers, backlog, errno_again>>
      BY <1>3 DEF data_read_data, sock
    <2>2. /\ ready' \subseteq ready /\ c # NULL /\ c \in TCP_client
          /\ c.data_fd \in Ports /\ sock \in DataSock
      BY <1>1, <2>1 DEF DataEvents
    <2>3. sock.inq \in Block /\ n \in 0 .. Len(sock.inq)
      BY <2>2, ReactorAssumption DEF DataSock, Block
    <2>4. /\ SubSeq(sock.inq, 1, n) \in Block
          /\ SubSeq(sock.inq, n + 1, Len(sock.inq)) \in Block
      BY <2>3, PieceType
    <2>5. full \in Block /\ <<>> \in Block
      BY <2>2, <2>4, JoinType DEF TCP_client, Block
    <2>6. k \in DataSock
      BY <2>2, <2>4 DEF DataSock
    <2> HIDE DEF n, full, k
    <2>7. data_sock' \in [Ports -> DataSock]
      BY <2>1, <2>2, <2>6, SockUpdate
    <2>8. ASSUME NEW b \in Block, SetClient(fd, [c EXCEPT !.file_buffer = b])
          PROVE  /\ clients' \in [Fds -> TCP_client \cup {NULL}]
                 /\ ready' \subseteq Callbacks /\ CallbacksValid' /\ ClientsWhole'
      <3> DEFINE d == [c EXCEPT !.file_buffer = b]
      <3>1. /\ d \in TCP_client /\ d.ev_data_accept = c.ev_data_accept /\ d.data_fd = c.data_fd
            /\ d.ev_write = c.ev_write /\ d.write_q = c.write_q
        BY <2>2 DEF TCP_client
      <3>2. SetClient(fd, d)
        BY <2>8
      <3> HIDE DEF d
      <3> QED
        BY <2>1, <2>2, <3>1, <3>2, RoundGoesOn, ClientUpdate
    <2>9. CASE fault' = "buffer_exit" /\ UNCHANGED <<clients, disk_pool>>
      <3>1. ready' \subseteq Callbacks /\ CallbacksValid' /\ ClientsWhole'
        BY <2>1, <2>2, <2>9, ClientsUntouched DEF CallbacksValid
      <3> QED
        BY <2>1, <2>7, <2>9, <3>1 DEF PoolTypeOK, ReactorTypeOK, Faults
    <2>10. CASE SetClient(fd, [c EXCEPT !.file_buffer = full]) /\ UNCHANGED <<disk_pool, fault>>
      BY <2>1, <2>5, <2>7, <2>8, <2>10 DEF PoolTypeOK, ReactorTypeOK
    <2>11. CASE /\ SetClient(fd, [c EXCEPT !.file_buffer = <<>>])
                /\ post_to_disk([fd |-> fd, action |-> "STORING", data |-> full])
      <3>1. [fd |-> fd, action |-> "STORING", data |-> full] \in DiskTask
        BY <2>5 DEF DiskTask
      <3>2. disk_pool' \in [DiskThreads -> Seq(DiskTask)] /\ fault' \in Faults
        BY <2>11, <3>1, PostDiskType
      <3> QED
        BY <2>1, <2>5, <2>7, <2>8, <2>11, <3>2 DEF PoolTypeOK, ReactorTypeOK
    <2> QED
      BY <2>1, <2>9, <2>10, <2>11
  <1>4. CASE data_read_end(fd)
    <2> DEFINE b == [c EXCEPT !.file_buffer = <<>>]
               k == [fd |-> fd, action |-> "STOR_OK", data |-> c.file_buffer]
    <2>1. UNCHANGED <<session_pool, notify_pipe, peers, backlog, errno_again>>
      BY <1>4 DEF data_read_end
    <2>2. CASE /\ Ran(<<"data_read", fd>>, DataEventsOf(fd))
               /\ post_to_disk(k)
               /\ SetClient(fd, clear_datafd(b))
               /\ data_sock' = ClosedSocks(fd)
      <3>1. ready' \subseteq ready /\ c # NULL /\ c \in TCP_client
        BY <1>1, <2>2 DEF DataEvents
      <3>2. \A e \in DataEvents : <<e, fd>> \notin ready'
        BY <1>1, <2>2 DEF DataEvents, DataEventsOf
      <3>3. k \in DiskTask
        BY <3>1 DEF DiskTask, TCP_client
      <3>4. b \in TCP_client /\ b.ev_write = c.ev_write /\ b.write_q = c.write_q
        <4>1. <<>> \in Block
          BY DEF Block
        <4> QED
          BY <3>1, <4>1 DEF TCP_client
      <3> HIDE DEF b, k
      <3>5. /\ clear_datafd(b) \in TCP_client
            /\ clear_datafd(b).ev_write = c.ev_write
            /\ clear_datafd(b).write_q = c.write_q
        BY <3>4, ClearedType
      <3>6. /\ clients' \in [Fds -> TCP_client \cup {NULL}]
            /\ ready' \subseteq Callbacks /\ CallbacksValid' /\ ClientsWhole'
        BY <2>1, <2>2, <3>1, <3>2, <3>5, RoundGoesOn, ClientUpdate DEF DataEvents
      <3>7. disk_pool' \in [DiskThreads -> Seq(DiskTask)] /\ fault' \in Faults
        BY <2>2, <3>3, PostDiskType
      <3>8. data_sock' \in [Ports -> DataSock]
        BY <2>2, ClosedSocksType
      <3> QED
        BY <2>1, <3>6, <3>7, <3>8 DEF PoolTypeOK, ReactorTypeOK
    <2>3. CASE /\ Ran(<<"data_read", fd>>, {})
               /\ UNCHANGED <<disk_pool, fault, clients, data_sock>>
      <3>1. ready' \subseteq ready
        BY <2>3 DEF Ran
      <3>2. ready' \subseteq Callbacks /\ CallbacksValid' /\ ClientsWhole'
        BY <2>1, <2>3, <3>1, ClientsUntouched DEF CallbacksValid
      <3> QED
        BY <2>1, <2>3, <3>2 DEF PoolTypeOK, ReactorTypeOK
    <2> QED
      BY <1>4, <2>2, <2>3 DEF data_read_end
  <1>5. CASE data_read_error(fd)
    <2>1. /\ Ran(<<"data_read", fd>>, DataEventsOf(fd))
          /\ SetClient(fd, clear_datafd(c))
          /\ data_sock' = ClosedSocks(fd)
          /\ errno_again' = FALSE
          /\ UNCHANGED <<poolVars, peers, backlog>>
      BY <1>5 DEF data_read_error
    <2>2. ready' \subseteq ready /\ c # NULL /\ c \in TCP_client
      BY <1>1, <2>1 DEF DataEvents
    <2>3. \A e \in DataEvents : <<e, fd>> \notin ready'
      BY <1>1, <2>1 DEF DataEvents, DataEventsOf
    <2>4. /\ clear_datafd(c) \in TCP_client
          /\ clear_datafd(c).ev_write = c.ev_write
          /\ clear_datafd(c).write_q = c.write_q
      BY <2>2, ClearedType
    <2>5. /\ clients' \in [Fds -> TCP_client \cup {NULL}]
          /\ ready' \subseteq Callbacks /\ CallbacksValid' /\ ClientsWhole'
      BY <2>1, <2>2, <2>3, <2>4, RoundGoesOn, ClientUpdate DEF DataEvents, poolVars
    <2>6. data_sock' \in [Ports -> DataSock]
      BY <2>1, ClosedSocksType
    <2> QED
      BY <2>1, <2>5, <2>6 DEF PoolTypeOK, ReactorTypeOK, poolVars
  <1>6. CASE data_write(fd)
    <2> DEFINE d == [c EXCEPT !.data_write_q = Tail(@), !.ev_data_write = FALSE]
               k == [sock EXCEPT !.out = @ \o Head(c.data_write_q)]
    <2>1. /\ Ran(<<"data_write", fd>>, {}) /\ c.data_write_q # <<>>
          /\ data_sock' = [data_sock EXCEPT ![c.data_fd] = k]
          /\ SetClient(fd, d)
          /\ post_to_disk([fd |-> fd, action |-> "WRITE_DONE"])
          /\ UNCHANGED <<session_pool, notify_pipe, peers, backlog, errno_again>>
      BY <1>6 DEF data_write, sock
    <2>2. /\ ready' \subseteq ready /\ c # NULL /\ c \in TCP_client
          /\ c.data_fd \in Ports /\ sock \in DataSock
      BY <1>1, <2>1 DEF DataEvents
    <2>3. Head(c.data_write_q) \in Block /\ Tail(c.data_write_q) \in Seq(Block)
      BY <2>1, <2>2, HeadTailProperties DEF TCP_client
    <2>4. /\ d \in TCP_client /\ d.ev_data_accept = c.ev_data_accept /\ d.data_fd = c.data_fd
          /\ d.ev_write = c.ev_write /\ d.write_q = c.write_q
      BY <2>2, <2>3 DEF TCP_client
    <2>5. k \in DataSock
      <3>1. sock.out \o Head(c.data_write_q) \in Block
        BY <2>2, <2>3, JoinType DEF DataSock
      <3> QED
        BY <2>2, <3>1 DEF DataSock
    <2> HIDE DEF d, k
    <2>6. /\ clients' \in [Fds -> TCP_client \cup {NULL}]
          /\ ready' \subseteq Callbacks /\ CallbacksValid' /\ ClientsWhole'
      BY <2>1, <2>2, <2>4, RoundGoesOn, ClientUpdate
    <2>7. data_sock' \in [Ports -> DataSock]
      BY <2>1, <2>2, <2>5, SockUpdate
    <2>8. [fd |-> fd, action |-> "WRITE_DONE"] \in DiskTask
      BY DEF DiskTask
    <2>9. disk_pool' \in [DiskThreads -> Seq(DiskTask)] /\ fault' \in Faults
      BY <2>1, <2>8, PostDiskType
    <2> QED
      BY <2>1, <2>6, <2>7, <2>9 DEF PoolTypeOK, ReactorTypeOK
  <1>7. CASE data_write_part(fd)
    <2> DEFINE block == Head(c.data_write_q)
    <2>1. PICK n \in 0 .. Len(block) - 1 :
            /\ data_sock' = [data_sock EXCEPT ![c.data_fd].out = @ \o SubSeq(block, 1, n)]
            /\ SetClient(fd, [c EXCEPT !.data_write_q =
                                <<SubSeq(block, n + 1, Len(block))>> \o Tail(@)])
            /\ errno_again' = (errno_again \/ n = 0)
      BY <1>7 DEF data_write_part
    <2> DEFINE d == [c EXCEPT !.data_write_q =
                       <<SubSeq(block, n + 1, Len(block))>> \o Tail(@)]
               k == [sock EXCEPT !.out = @ \o SubSeq(block, 1, n)]
    <2>2. /\ Ran(<<"data_write", fd>>, {}) /\ c.data_write_q # <<>>
          /\ UNCHANGED <<poolVars, peers, backlog>>
      BY <1>7 DEF data_write_part
    <2>3. /\ ready' \subseteq ready /\ c # NULL /\ c \in TCP_client
          /\ c.data_fd \in Ports /\ sock \in DataSock
      BY <1>1, <2>2 DEF DataEvents
    <2>4. block \in Block /\ Tail(c.data_write_q) \in Seq(Block)
      BY <2>2, <2>3, HeadTailProperties DEF TCP_client
    <2> HIDE DEF block
    <2>5. n \in 0 .. Len(block)
      BY <2>1, <2>4 DEF Block
    <2>6. SubSeq(block, 1, n) \in Block /\ SubSeq(block, n + 1, Len(block)) \in Block
      BY <2>4, <2>5, PieceType
    <2>7. <<SubSeq(block, n + 1, Len(block))>> \o Tail(c.data_write_q) \in Seq(Block)
      BY <2>4, <2>6
    <2>8. /\ d \in TCP_client /\ d.ev_data_accept = c.ev_data_accept /\ d.data_fd = c.data_fd
          /\ d.ev_write = c.ev_write /\ d.write_q = c.write_q
      BY <2>3, <2>7 DEF TCP_client
    <2>9. k \in DataSock
      <3>1. sock.out \o SubSeq(block, 1, n) \in Block
        BY <2>3, <2>6, JoinType DEF DataSock
      <3> QED
        BY <2>3, <3>1 DEF DataSock
    <2>10. SetClient(fd, d) /\ data_sock' = [data_sock EXCEPT ![c.data_fd] = k]
      BY <2>1 DEF sock
    <2>11. errno_again' \in BOOLEAN
      BY <2>1 DEF ReactorTypeOK
    <2> HIDE DEF d, k
    <2>12. /\ clients' \in [Fds -> TCP_client \cup {NULL}]
           /\ ready' \subseteq Callbacks /\ CallbacksValid' /\ ClientsWhole'
      BY <2>2, <2>3, <2>8, <2>10, RoundGoesOn, ClientUpdate DEF poolVars
    <2>13. data_sock' \in [Ports -> DataSock]
      BY <2>3, <2>9, <2>10, SockUpdate
    <2> QED
      BY <2>2, <2>11, <2>12, <2>13 DEF PoolTypeOK, ReactorTypeOK, poolVars
  <1>8. CASE data_write_nothing(fd)
    <2> DEFINE d == [c EXCEPT !.ev_data_write = FALSE]
    <2>1. /\ Ran(<<"data_write", fd>>, {})
          /\ SetClient(fd, d)
          /\ errno_again' = (errno_again /\ c.data_write_q = <<>>)
          /\ UNCHANGED <<poolVars, peers, data_sock, backlog>>
      BY <1>8 DEF data_write_nothing
    <2>2. ready' \subseteq ready /\ c # NULL /\ c \in TCP_client
      BY <1>1, <2>1 DEF DataEvents
    <2>3. /\ d \in TCP_client /\ d.ev_data_accept = c.ev_data_accept /\ d.data_fd = c.data_fd
          /\ d.ev_write = c.ev_write /\ d.write_q = c.write_q
      BY <2>2 DEF TCP_client
    <2>4. errno_again' \in BOOLEAN
      BY <2>1
    <2> HIDE DEF d
    <2>5. /\ clients' \in [Fds -> TCP_client \cup {NULL}]
          /\ ready' \subseteq Callbacks /\ CallbacksValid' /\ ClientsWhole'
      BY <2>1, <2>2, <2>3, RoundGoesOn, ClientUpdate DEF poolVars
    <2> QED
      BY <2>1, <2>4, <2>5 DEF PoolTypeOK, ReactorTypeOK, poolVars
  <1> QED
    BY <1>2, <1>3, <1>4, <1>5, <1>6, <1>7, <1>8 DEF DataStep

-----------------------------------------------------------------------------
(* The clients.                                                            *)

\* One client's end of its connections changes.
LEMMA PeerUpdate ==
  ASSUME ReactorOK, NEW fd \in Fds, NEW p \in Peer, SetPeer(fd, p),
         data_sock' \in [Ports -> DataSock],
         UNCHANGED <<poolVars, clients, backlog, errno_again, ready>>
  PROVE  ReactorOK'
  <1> USE DEF ReactorOK
  <1>1. /\ peers' \in [Fds -> Peer \cup {NULL}]
        /\ \A f \in Fds : peers[f] \in Peer => peers'[f] \in Peer
    BY DEF SetPeer, ReactorTypeOK
  <1>2. CallbacksValid'
    BY DEF CallbacksValid, poolVars
  <1>3. ClientsWhole'
    BY <1>1 DEF ClientsWhole
  <1> QED
    BY <1>1, <1>2, <1>3 DEF PoolTypeOK, ReactorTypeOK, poolVars

\* A client's step that only changes data sockets.
LEMMA SocksUpdate ==
  ASSUME ReactorOK, peers' = peers, data_sock' \in [Ports -> DataSock],
         UNCHANGED <<poolVars, clients, backlog, errno_again, ready>>
  PROVE  ReactorOK'
  BY DEF ReactorOK, CallbacksValid, ClientsWhole, PoolTypeOK, ReactorTypeOK, poolVars

\* A step of a client.
LEMMA ClientStepType ==
  ASSUME ReactorOK, ClientStep
  PROVE  ReactorOK'
  <1> USE DEF ReactorOK
  <1>1. PICK fd \in Fds : /\ ClientProgress(fd) \/ ClientAbort(fd) \/ ClientQuit(fd)
                          /\ UNCHANGED <<poolVars, clients, backlog, errno_again, ready>>
    BY DEF ClientStep, ClientProgress
  <1> DEFINE me == peers[fd]
  <1>2. Alive(fd) => me \in Peer
    BY DEF Alive, ReactorTypeOK
  <1>3. /\ UNCHANGED data_sock => data_sock' \in [Ports -> DataSock]
        /\ \A p \in Ports, end \in {"open", "fin", "reset"} :
             data_sock' = [data_sock EXCEPT ![p].peer = end]
               => data_sock' \in [Ports -> DataSock]
    BY DEF ReactorTypeOK, DataSock
  <1>4. CASE ClientSend(fd)
    <2> DEFINE c == Head(me.todo)
    <2>1. me \in Peer /\ me.todo # <<>> /\ UNCHANGED data_sock
      BY <1>2, <1>4 DEF ClientSend
    <2>2. c \in Command /\ Tail(me.todo) \in Seq(Command)
      BY <2>1, HeadTailProperties DEF Peer
    <2>3. c.verb \in Uploads => c.payload \in Block
      BY <2>2, CommandFields, DataAssumption DEF Uploads, Block
    <2> HIDE DEF c
    <2>4. Append(me.inq, c) \in Seq(Command) /\ me.wait + 1 \in Nat
      BY <2>1, <2>2 DEF Peer
    <2> DEFINE p == [me EXCEPT !.inq = Append(@, c), !.todo = Tail(@), !.wait = @ + 1,
                               !.xfer = IF c.verb \in Transfers THEN c ELSE @,
                               !.started = IF c.verb \in Transfers THEN FALSE ELSE @,
                               !.left = IF c.verb \in Uploads THEN c.payload ELSE @]
    <2>5. p \in Peer
      BY <2>1, <2>2, <2>3, <2>4 DEF Peer
    <2>6. SetPeer(fd, p)
      BY <1>4 DEF ClientSend, c
    <2> HIDE DEF p
    <2> QED
      BY <1>1, <1>3, <2>1, <2>5, <2>6, PeerUpdate
  <1>5. CASE ClientReceive(fd)
    <2> DEFINE r        == Head(me.outq)
               read     == [me EXCEPT !.outq = Tail(@)]
               answered == [read EXCEPT !.wait = IF @ > 0 THEN @ - 1 ELSE 0]
    <2>1. me \in Peer /\ me.outq # <<>>
      BY <1>2, <1>5 DEF ClientReceive
    <2>2. r \in Reply /\ Tail(me.outq) \in Seq(Reply)
      BY <2>1, HeadTailProperties DEF Peer
    <2>3. read \in Peer
      BY <2>1, <2>2 DEF Peer
    <2> HIDE DEF r, read
    <2>4. answered \in Peer
      <3>1. (IF read.wait > 0 THEN read.wait - 1 ELSE 0) \in Nat
        BY <2>3 DEF Peer
      <3> QED
        BY <2>3, <3>1 DEF Peer
    <2> HIDE DEF answered
    <2>5. CASE SetPeer(fd, [read EXCEPT !.started = TRUE]) /\ UNCHANGED data_sock
      <3>1. [read EXCEPT !.started = TRUE] \in Peer
        BY <2>3 DEF Peer
      <3> QED
        BY <1>1, <1>3, <2>5, <3>1, PeerUpdate
    <2>6. CASE SetPeer(fd, [answered EXCEPT !.port = r.port]) /\ UNCHANGED data_sock
      <3>1. [answered EXCEPT !.port = r.port] \in Peer
        BY <2>2, <2>4 DEF Peer, Reply
      <3> QED
        BY <1>1, <1>3, <2>6, <3>1, PeerUpdate
    <2>7. CASE /\ SetPeer(fd, [answered EXCEPT !.xfer = NULL,
                                  !.port = IF me.xfer = NULL THEN @ ELSE NULL])
               /\ data_sock' = IF me.xfer # NULL /\ me.port # NULL /\ Dial(fd).peer = "open"
                               THEN [data_sock EXCEPT ![me.port].peer = "fin"] ELSE data_sock
      <3>1. [answered EXCEPT !.xfer = NULL,
               !.port = IF me.xfer = NULL THEN @ ELSE NULL] \in Peer
        BY <2>4 DEF Peer
      <3>2. me.port # NULL => me.port \in Ports
        BY <2>1 DEF Peer
      <3>3. data_sock' \in [Ports -> DataSock]
        BY <1>3, <2>7, <3>2
      <3> QED
        BY <1>1, <2>7, <3>1, <3>3, PeerUpdate
    <2> QED
      BY <1>5, <2>5, <2>6, <2>7 DEF ClientReceive, r, read, answered
  <1>6. CASE ClientConnect(fd)
    <2>1. me.port \in Ports
      BY <1>2, <1>6 DEF ClientConnect, Peer
    <2>2. data_sock' \in [Ports -> DataSock]
      BY <1>6, <2>1 DEF ClientConnect, ReactorTypeOK, DataSock
    <2> QED
      BY <1>1, <1>6, <2>2, SocksUpdate DEF ClientConnect
  <1>7. CASE ClientUpload(fd)
    <2>1. me \in Peer /\ me.port \in Ports /\ me.left # <<>>
      BY <1>2, <1>7 DEF ClientUpload, Uploading, Peer
    <2>2. Head(me.left) \in Byte /\ Tail(me.left) \in Block
      BY <2>1, HeadTailProperties DEF Peer, Block
    <2>3. [me EXCEPT !.left = Tail(@)] \in Peer
      BY <2>1, <2>2 DEF Peer
    <2>4. data_sock' = [data_sock EXCEPT ![me.port].inq = Append(@, Head(me.left))]
      BY <1>7 DEF ClientUpload
    <2>5. data_sock[me.port] \in DataSock
      BY <2>1 DEF ReactorTypeOK
    <2>6. [data_sock[me.port] EXCEPT !.inq = Append(@, Head(me.left))] \in DataSock
      <3>1. Append(data_sock[me.port].inq, Head(me.left)) \in Block
        BY <2>2, <2>5 DEF DataSock, Block
      <3> QED
        BY <2>5, <3>1 DEF DataSock
    <2>7. data_sock' \in [Ports -> DataSock]
      BY <2>1, <2>4, <2>6 DEF ReactorTypeOK
    <2> QED
      BY <1>1, <1>7, <2>3, <2>7, PeerUpdate DEF ClientUpload
  <1>8. CASE ClientUploadEnd(fd)
    <2>1. me.port \in Ports
      BY <1>2, <1>8 DEF ClientUploadEnd, Uploading, Peer
    <2> QED
      BY <1>1, <1>3, <1>8, <2>1, SocksUpdate DEF ClientUploadEnd
  <1>9. CASE ClientAbort(fd)
    <2>1. me.port \in Ports
      BY <1>2, <1>9 DEF ClientAbort, Peer
    <2> QED
      BY <1>1, <1>3, <1>9, <2>1, SocksUpdate DEF ClientAbort
  <1>10. CASE ClientQuit(fd)
    <2>1. PICK st \in {"fin", "reset"} : SetPeer(fd, [me EXCEPT !.st = st])
      BY <1>10 DEF ClientQuit
    <2>2. [me EXCEPT !.st = st] \in Peer
      BY <1>2, <1>10 DEF ClientQuit, Peer
    <2> QED
      BY <1>1, <1>3, <1>10, <2>1, <2>2, PeerUpdate DEF ClientQuit
  <1> QED
    BY <1>1, <1>4, <1>5, <1>6, <1>7, <1>8, <1>9, <1>10 DEF ClientProgress

-----------------------------------------------------------------------------
(* The specification.                                                      *)

\* The inductive invariant.  TypeOK alone is not inductive: on_write takes
\* the head of write_q because the round says there is one (CallbacksValid,
\* ClientsWhole), a disk thread writes to the file behind a handle because
\* files stay (OpenFilesExist), and it cuts the next piece off a listing
\* because the disk_info says there is one (ListingGoesOn).
IInv ==
  /\ TypeOK
  /\ CallbacksValid
  /\ ClientsWhole
  /\ OpenFilesExist
  /\ ListingGoesOn

\* The server starts with empty queues, no session, no transfer, no client.
LEMMA InitIInv == Init => IInv
  <1> SUFFICES ASSUME Init PROVE IInv
    OBVIOUS
  <1> USE DEF Init
  <1>1. PoolTypeOK
    BY DEF PoolInit, PoolTypeOK, Faults
  <1>2. FileTypeOK /\ OpenFilesExist
    BY StoreAssumption DEF FileInit, FileTypeOK, OpenFilesExist
  <1>3. SessionTypeOK
    BY DEF SessionInit, SessionTypeOK
  <1>4. DiskTypeOK /\ ListingGoesOn
    BY DEF DiskInit, DiskTypeOK, ListingGoesOn
  <1>5. FreeSock \in DataSock
    BY DEF FreeSock, DataSock, Block
  <1>6. ReactorTypeOK /\ CallbacksValid /\ ClientsWhole
    BY <1>5, ConnectionsAssumption
    DEF ReactorInit, ReactorTypeOK, CallbacksValid, ClientsWhole
  <1> QED
    BY <1>1, <1>2, <1>3, <1>4, <1>6 DEF IInv, TypeOK

\* Every step of every thread and client preserves the invariant.
LEMMA NextIInv == IInv /\ [Next]_vars => IInv'
  <1> SUFFICES ASSUME IInv, [Next]_vars PROVE IInv'
    OBVIOUS
  <1> USE DEF IInv, TypeOK
  <1>1. CASE UNCHANGED vars
    BY <1>1 DEF vars, poolVars, fileVars, reactorVars, PoolTypeOK, FileTypeOK,
       SessionTypeOK, DiskTypeOK, ReactorTypeOK, CallbacksValid, ClientsWhole,
       OpenFilesExist, ListingGoesOn
  <1>2. ASSUME NEW t \in SessionThreads, SessionThread(t) PROVE IInv'
    <2>1. SessionStep(t) /\ UNCHANGED <<fileVars, disks, reactorVars>>
      BY <1>2 DEF SessionThread, SessionStep
    <2>2. /\ PoolTypeOK' /\ SessionTypeOK'
          /\ notify_pipe # <<>> => notify_pipe' # <<>>
      BY <2>1, SessionStepType
    <2>3. FileTypeOK' /\ OpenFilesExist'
      BY <2>1 DEF fileVars, FileTypeOK, OpenFilesExist
    <2>4. DiskTypeOK' /\ ListingGoesOn'
      BY <2>1 DEF DiskTypeOK, ListingGoesOn
    <2>5. ReactorTypeOK' /\ CallbacksValid' /\ ClientsWhole'
      BY <2>1, <2>2 DEF reactorVars, ReactorTypeOK, CallbacksValid, ClientsWhole
    <2> QED
      BY <2>2, <2>3, <2>4, <2>5
  <1>3. ASSUME NEW t \in DiskThreads, DiskThread(t) PROVE IInv'
    <2>1. DiskStep(t) /\ UNCHANGED <<sessions, reactorVars>>
      BY <1>3 DEF DiskThread
    <2>2. /\ PoolTypeOK' /\ FileTypeOK' /\ DiskTypeOK'
          /\ OpenFilesExist' /\ ListingGoesOn'
          /\ notify_pipe # <<>> => notify_pipe' # <<>>
      BY <2>1, DiskStepType
    <2>3. SessionTypeOK'
      BY <2>1 DEF SessionTypeOK
    <2>4. ReactorTypeOK' /\ CallbacksValid' /\ ClientsWhole'
      BY <2>1, <2>2 DEF reactorVars, ReactorTypeOK, CallbacksValid, ClientsWhole
    <2> QED
      BY <2>2, <2>3, <2>4
  <1>4. ASSUME Reactor \/ Client PROVE IInv'
    <2>1. ReactorStep \/ ClientStep
      BY <1>4 DEF Reactor, Client
    <2>2. ReactorOK'
      BY <2>1, PollType, CtrlStepType, NotifyStepType, DataStepType, TimeoutType,
         ClientStepType DEF ReactorStep, DispatchStep, ReactorOK
    <2>3. UNCHANGED <<fileVars, sessions, disks>>
      BY <1>4 DEF Reactor, Client
    <2>4. /\ FileTypeOK' /\ OpenFilesExist' /\ SessionTypeOK'
          /\ DiskTypeOK' /\ ListingGoesOn'
      BY <2>3 DEF fileVars, FileTypeOK, OpenFilesExist, SessionTypeOK, DiskTypeOK,
         ListingGoesOn
    <2> QED
      BY <2>2, <2>4 DEF ReactorOK
  <1> QED
    BY <1>1, <1>2, <1>3, <1>4 DEF Next

\* The invariant holds in every behaviour.
LEMMA Invariance == Spec => []IInv
  BY InitIInv, NextIInv, PTL DEF Spec

\* Every task, notification, session, disk_info and client is what the code
\* that takes it expects, in every behaviour, for every configuration.
THEOREM TypeCorrect == Spec => []TypeOK
  <1>1. IInv => TypeOK
    BY DEF IInv
  <1> QED
    BY <1>1, Invariance, PTL

\* No callback runs for a client, a queue or a socket that an earlier one of
\* its round took away: what event_del leaves of the round is safe to run.
THEOREM CallbacksAreValid == Spec => []CallbacksValid
  <1>1. IInv => CallbacksValid
    BY DEF IInv
  <1> QED
    BY <1>1, Invariance, PTL

-----------------------------------------------------------------------------
(* What the queues hold: how many records of a kind for a control socket,  *)
(* which they are, and in which order, when a record is added behind and   *)
(* when the first one is taken.                                            *)

\* The records of a queue for fd.
Mine(q, fd) == {x \in Elements(q) : x.fd = fd}

\* Behind a record of kind a for fd comes none of kind b for it.
NoneBehind(q, fd, a, b) ==
  \A i, j \in 1 .. Len(q) :
    i < j /\ q[i].fd = fd /\ q[i].action = a /\ q[j].fd = fd => q[j].action # b

\* The queue of the session tasks for fd.
SessionQueue(fd) == session_pool[ThreadOf(fd)]

\* How much of a kind waits for a session thread, a disk thread, the reactor.
Tasks(fd, a) == Count(SessionQueue(fd), fd, a)
Work(fd, a)  == Count(DiskQueue(fd), fd, a)
Sent(fd, a)  == Count(notify_pipe, fd, a)

MyTasks(fd)   == Mine(SessionQueue(fd), fd)
MyNotices(fd) == Mine(notify_pipe, fd)

\* No accepted connection waits behind the port of a later PASV, and nothing
\* of an upload behind the start of a download.
PasvOrder(fd)  == NoneBehind(SessionQueue(fd), fd, "PASV", "DATA_ACCEPT")
StartOrder(fd) ==
  \A a \in {"INDEX_START", "RETR_START"}, b \in {"STORING", "STOR_OK"} :
    NoneBehind(DiskQueue(fd), fd, a, b)

-----------------------------------------------------------------------------
(* Positions.                                                              *)

\* A set of positions is finite.
LEMMA PositionsFinite ==
  ASSUME NEW n \in Nat, NEW S \in SUBSET (1 .. n)
  PROVE  IsFiniteSet(S) /\ Cardinality(S) \in Nat
  <1>1. IsFiniteSet(1 .. n)
    BY FS_Interval
  <1>2. IsFiniteSet(S)
    BY <1>1, FS_Subset
  <1> QED
    BY <1>2, FS_CardinalityType

\* One more position at the end.
LEMMA PositionAdded ==
  ASSUME NEW n \in Nat, NEW S \in SUBSET (1 .. n), NEW T \in SUBSET (1 .. n + 1),
         \A i \in 1 .. n : i \in S <=> i \in T
  PROVE  Cardinality(T) = (IF n + 1 \in T THEN Cardinality(S) + 1 ELSE Cardinality(S))
  <1>1. IsFiniteSet(S) /\ Cardinality(S) \in Nat
    BY PositionsFinite
  <1>a. \A i \in T : i \in 1 .. n \/ i = n + 1
    OBVIOUS
  <1>b. \A i \in S : i \in 1 .. n /\ i # n + 1
    OBVIOUS
  <1>2. CASE n + 1 \in T
    <2>1. T = S \cup {n + 1} /\ n + 1 \notin S
      BY <1>2, <1>a, <1>b
    <2> QED
      BY <1>1, <1>2, <2>1, FS_AddElement
  <1>3. CASE n + 1 \notin T
    <2>1. T = S
      BY <1>3, <1>a, <1>b
    <2> QED
      BY <1>1, <1>3, <2>1
  <1> QED
    BY <1>2, <1>3

\* The first position goes and the others move up.
LEMMA PositionTaken ==
  ASSUME NEW n \in Nat, NEW S \in SUBSET (1 .. n + 1), NEW T \in SUBSET (1 .. n),
         \A i \in 1 .. n : i \in T <=> i + 1 \in S
  PROVE  Cardinality(S) = (IF 1 \in S THEN Cardinality(T) + 1 ELSE Cardinality(T))
  <1>1. IsFiniteSet(T) /\ Cardinality(T) \in Nat
    BY PositionsFinite
  <1> DEFINE U == S \ {1}
  <1>2. Cardinality(U) = Cardinality(T) /\ IsFiniteSet(U)
    <2> DEFINE f == [i \in T |-> i + 1]
    <2>1. f \in [T -> U]
      OBVIOUS
    <2>2. \A i, j \in T : f[i] = f[j] => i = j
      OBVIOUS
    <2>3. \A k \in U : \E i \in T : f[i] = k
      <3>1. ASSUME NEW k \in U PROVE k - 1 \in T /\ f[k - 1] = k
        OBVIOUS
      <3> QED
        BY <3>1
    <2>4. f \in Bijection(T, U)
      BY <2>1, <2>2, <2>3 DEF Bijection, Injection, Surjection, IsInjective
    <2> QED
      BY <1>1, <2>4, FS_Bijection DEF ExistsBijection
  <1> HIDE DEF U
  <1>3. CASE 1 \in S
    <2>1. S = U \cup {1} /\ 1 \notin U
      BY <1>3 DEF U
    <2>2. Cardinality(U \cup {1}) = Cardinality(U) + 1
      BY <1>2, <2>1, FS_AddElement
    <2> QED
      BY <1>2, <1>3, <2>1, <2>2
  <1>4. CASE 1 \notin S
    <2>1. S = U
      BY <1>4 DEF U
    <2> QED
      BY <1>1, <1>2, <1>4, <2>1
  <1> QED
    BY <1>3, <1>4

-----------------------------------------------------------------------------
(* Counting.                                                               *)

\* Numbers of records are numbers.
LEMMA CountType ==
  ASSUME NEW X, NEW q \in Seq(X), NEW fd, NEW a
  PROVE  Count(q, fd, a) \in Nat
  <1> DEFINE S == {i \in 1 .. Len(q) : q[i].fd = fd /\ q[i].action = a}
  <1>1. Len(q) \in Nat /\ S \in SUBSET (1 .. Len(q))
    OBVIOUS
  <1>2. Cardinality(S) \in Nat
    BY <1>1, PositionsFinite
  <1> QED
    BY <1>2 DEF Count

\* A record is added.
LEMMA CountAdded ==
  ASSUME NEW X, NEW q \in Seq(X), NEW x \in X, NEW fd, NEW a
  PROVE  Count(Append(q, x), fd, a) =
           (IF x.fd = fd /\ x.action = a THEN Count(q, fd, a) + 1 ELSE Count(q, fd, a))
  <1> DEFINE n == Len(q)
             r == Append(q, x)
             S == {i \in 1 .. n : q[i].fd = fd /\ q[i].action = a}
             T == {i \in 1 .. n + 1 : r[i].fd = fd /\ r[i].action = a}
  <1>1. n \in Nat /\ Len(r) = n + 1 /\ r[n + 1] = x /\ \A i \in 1 .. n : r[i] = q[i]
    OBVIOUS
  <1>2. Cardinality(T) = (IF n + 1 \in T THEN Cardinality(S) + 1 ELSE Cardinality(S))
    BY <1>1, PositionAdded
  <1>3. n + 1 \in T <=> x.fd = fd /\ x.action = a
    BY <1>1
  <1>4. Count(q, fd, a) = Cardinality(S) /\ Count(r, fd, a) = Cardinality(T)
    BY <1>1 DEF Count
  <1> QED
    BY <1>2, <1>3, <1>4

\* The first record is taken.
LEMMA CountTaken ==
  ASSUME NEW X, NEW q \in Seq(X), q # <<>>, NEW fd, NEW a
  PROVE  Count(q, fd, a) =
           (IF Head(q).fd = fd /\ Head(q).action = a
            THEN Count(Tail(q), fd, a) + 1 ELSE Count(Tail(q), fd, a))
  <1> DEFINE n == Len(q) - 1
             r == Tail(q)
             S == {i \in 1 .. n + 1 : q[i].fd = fd /\ q[i].action = a}
             T == {i \in 1 .. n : r[i].fd = fd /\ r[i].action = a}
  <1>1. /\ n \in Nat /\ Len(q) = n + 1 /\ Len(r) = n /\ Head(q) = q[1]
        /\ \A i \in 1 .. n : r[i] = q[i + 1]
    OBVIOUS
  <1>2. /\ n \in Nat /\ S \in SUBSET (1 .. n + 1) /\ T \in SUBSET (1 .. n)
        /\ \A i \in 1 .. n : i \in T <=> i + 1 \in S
    BY <1>1
  <1>c. Cardinality(S) = (IF 1 \in S THEN Cardinality(T) + 1 ELSE Cardinality(T))
    <2> HIDE DEF S, T, n, r
    <2> QED
      BY <1>2, PositionTaken
  <1>3. 1 \in S <=> Head(q).fd = fd /\ Head(q).action = a
    BY <1>1
  <1>4. Count(q, fd, a) = Cardinality(S) /\ Count(r, fd, a) = Cardinality(T)
    BY <1>1 DEF Count
  <1> QED
    BY <1>c, <1>3, <1>4

\* None are counted when none is there.
LEMMA CountNone ==
  ASSUME NEW X, NEW q \in Seq(X), NEW fd, NEW a
  PROVE  Count(q, fd, a) = 0 <=> \A x \in Mine(q, fd) : x.action # a
  <1> DEFINE S == {i \in 1 .. Len(q) : q[i].fd = fd /\ q[i].action = a}
  <1>1. IsFiniteSet(S)
    <2>1. Len(q) \in Nat /\ S \in SUBSET (1 .. Len(q))
      OBVIOUS
    <2> QED
      BY <2>1, PositionsFinite
  <1>2. Cardinality(S) = 0 <=> S = {}
    BY <1>1, FS_EmptySet
  <1>3. S = {} <=> \A x \in Mine(q, fd) : x.action # a
    BY DEF Mine, Elements
  <1> QED
    BY <1>2, <1>3 DEF Count

\* An empty queue holds nothing.
LEMMA NothingQueued ==
  ASSUME NEW fd, NEW a, NEW b
  PROVE  /\ Mine(<<>>, fd) = {}
         /\ Count(<<>>, fd, a) = 0
         /\ NoneBehind(<<>>, fd, a, b)
  <1>1. Mine(<<>>, fd) = {} /\ NoneBehind(<<>>, fd, a, b)
    BY DEF Mine, Elements, NoneBehind
  <1>2. {i \in 1 .. Len(<<>>) : (<<>>)[i].fd = fd /\ (<<>>)[i].action = a} = {}
    OBVIOUS
  <1>3. Count(<<>>, fd, a) = Cardinality({})
    BY <1>2 DEF Count
  <1> QED
    BY <1>1, <1>3, FS_EmptySet

\* Appending adds one element to a queue.
LEMMA AppendElements ==
  ASSUME NEW X, NEW q \in Seq(X), NEW x \in X
  PROVE  Elements(Append(q, x)) = Elements(q) \cup {x}
  <1> DEFINE r == Append(q, x)
  <1>1. /\ Len(q) \in Nat /\ Len(r) = Len(q) + 1 /\ r[Len(q) + 1] = x
        /\ \A i \in 1 .. Len(q) : r[i] = q[i]
    OBVIOUS
  <1>2. ASSUME NEW y \in Elements(r) PROVE y \in Elements(q) \/ y = x
    <2>1. PICK i \in 1 .. Len(r) : y = r[i]
      BY DEF Elements
    <2> QED
      BY <1>1, <2>1 DEF Elements
  <1>3. ASSUME NEW y \in Elements(q) PROVE y \in Elements(r)
    <2>1. PICK i \in 1 .. Len(q) : y = q[i]
      BY DEF Elements
    <2>2. i \in 1 .. Len(r) /\ y = r[i]
      BY <1>1, <2>1
    <2> QED
      BY <2>2 DEF Elements
  <1>4. x \in Elements(r)
    <2>1. Len(r) \in 1 .. Len(r) /\ r[Len(r)] = x
      BY <1>1
    <2> QED
      BY <2>1 DEF Elements
  <1> HIDE DEF r
  <1>5. Elements(r) = Elements(q) \cup {x}
    BY <1>2, <1>3, <1>4
  <1> QED
    BY <1>5 DEF r

\* The elements are the head and those of the tail.
LEMMA TailElements ==
  ASSUME NEW X, NEW q \in Seq(X), q # <<>>
  PROVE  Elements(q) = Elements(Tail(q)) \cup {Head(q)}
  <1> DEFINE r == Tail(q)
             h == Head(q)
  <1>1. /\ Len(q) \in Nat \ {0} /\ Len(r) = Len(q) - 1 /\ h = q[1]
        /\ \A i \in 1 .. Len(r) : r[i] = q[i + 1]
    OBVIOUS
  <1>2. ASSUME NEW y \in Elements(q) PROVE y \in Elements(r) \/ y = h
    <2>1. PICK i \in 1 .. Len(q) : y = q[i]
      BY DEF Elements
    <2>2. CASE i # 1
      <3>1. i - 1 \in 1 .. Len(r) /\ y = r[i - 1]
        BY <1>1, <2>1, <2>2
      <3> QED
        BY <3>1 DEF Elements
    <2> QED
      BY <1>1, <2>1, <2>2
  <1>3. ASSUME NEW y \in Elements(r) PROVE y \in Elements(q)
    <2>1. PICK i \in 1 .. Len(r) : y = r[i]
      BY DEF Elements
    <2>2. i + 1 \in 1 .. Len(q) /\ y = q[i + 1]
      BY <1>1, <2>1
    <2> QED
      BY <2>2 DEF Elements
  <1>4. h \in Elements(q)
    <2>1. 1 \in 1 .. Len(q) /\ h = q[1]
      BY <1>1
    <2> QED
      BY <2>1 DEF Elements
  <1> HIDE DEF r, h
  <1>5. Elements(q) = Elements(r) \cup {h}
    BY <1>2, <1>3, <1>4
  <1> QED
    BY <1>5 DEF r, h

\* The elements of a typed queue are typed.
LEMMA ElementsType ==
  ASSUME NEW X, NEW q \in Seq(X)
  PROVE  Elements(q) \subseteq X
  BY DEF Elements

\* An empty queue has none, and a queue without any is empty.
LEMMA NoElements ==
  ASSUME NEW X, NEW q \in Seq(X)
  PROVE  Elements(q) = {} <=> q = <<>>
  <1>1. q # <<>> => 1 \in 1 .. Len(q)
    OBVIOUS
  <1> QED
    BY <1>1 DEF Elements

\* What is found of fd behind and before a change at either end.
LEMMA MineAdded ==
  ASSUME NEW X, NEW q \in Seq(X), NEW x \in X, NEW fd
  PROVE  Mine(Append(q, x), fd) = Mine(q, fd) \cup (IF x.fd = fd THEN {x} ELSE {})
  BY AppendElements DEF Mine

LEMMA MineTaken ==
  ASSUME NEW X, NEW q \in Seq(X), q # <<>>, NEW fd
  PROVE  Mine(q, fd) = Mine(Tail(q), fd) \cup (IF Head(q).fd = fd THEN {Head(q)} ELSE {})
  BY TailElements DEF Mine

\* A record of kind b may come in when none of kind a is waiting.
LEMMA OrderAdded ==
  ASSUME NEW X, NEW q \in Seq(X), NEW x \in X, NEW fd, NEW a, NEW b,
         NoneBehind(q, fd, a, b),
         x.fd = fd /\ x.action = b => Count(q, fd, a) = 0
  PROVE  NoneBehind(Append(q, x), fd, a, b)
  <1> DEFINE r == Append(q, x)
  <1>1. /\ Len(q) \in Nat /\ Len(r) = Len(q) + 1 /\ r[Len(q) + 1] = x
        /\ \A i \in 1 .. Len(q) : r[i] = q[i]
    OBVIOUS
  <1>2. ASSUME NEW i \in 1 .. Len(r), NEW j \in 1 .. Len(r),
               i < j, r[i].fd = fd, r[i].action = a, r[j].fd = fd
        PROVE  r[j].action # b
    <2>1. i \in 1 .. Len(q) /\ r[i] = q[i]
      BY <1>1, <1>2
    <2>2. CASE j = Len(q) + 1
      <3>1. q[i] \in Mine(q, fd)
        BY <1>2, <2>1 DEF Mine, Elements
      <3>2. Count(q, fd, a) # 0
        BY <1>2, <2>1, <3>1, CountNone
      <3> QED
        BY <1>1, <1>2, <2>2, <3>2
    <2>3. CASE j # Len(q) + 1
      <3>1. j \in 1 .. Len(q) /\ r[j] = q[j]
        BY <1>1, <2>3
      <3> QED
        BY <1>2, <2>1, <3>1 DEF NoneBehind
    <2> QED
      BY <2>2, <2>3
  <1> HIDE DEF r
  <1>3. NoneBehind(r, fd, a, b)
    BY <1>2 DEF NoneBehind
  <1> QED
    BY <1>3 DEF r

LEMMA OrderTaken ==
  ASSUME NEW X, NEW q \in Seq(X), q # <<>>, NEW fd, NEW a, NEW b,
         NoneBehind(q, fd, a, b)
  PROVE  /\ NoneBehind(Tail(q), fd, a, b)
         /\ Head(q).fd = fd /\ Head(q).action = a => Count(Tail(q), fd, b) = 0
  <1> DEFINE r == Tail(q)
  <1>1. /\ Len(q) \in Nat \ {0} /\ Len(r) = Len(q) - 1 /\ Head(q) = q[1]
        /\ r \in Seq(X) /\ \A i \in 1 .. Len(r) : r[i] = q[i + 1]
    OBVIOUS
  <1>2. ASSUME NEW i \in 1 .. Len(r), NEW j \in 1 .. Len(r),
               i < j, r[i].fd = fd, r[i].action = a, r[j].fd = fd
        PROVE  r[j].action # b
    <2>1. /\ i + 1 \in 1 .. Len(q) /\ j + 1 \in 1 .. Len(q) /\ i + 1 < j + 1
          /\ r[i] = q[i + 1] /\ r[j] = q[j + 1]
      BY <1>1, <1>2
    <2> QED
      BY <1>2, <2>1 DEF NoneBehind
  <1>3. ASSUME Head(q).fd = fd, Head(q).action = a, NEW x \in Mine(r, fd)
        PROVE  x.action # b
    <2>1. PICK j \in 1 .. Len(r) : x = r[j]
      BY DEF Mine, Elements
    <2>2. /\ 1 \in 1 .. Len(q) /\ j + 1 \in 1 .. Len(q) /\ 1 < j + 1
          /\ Head(q) = q[1] /\ x = q[j + 1]
      BY <1>1, <2>1
    <2>3. x.fd = fd
      BY DEF Mine
    <2> QED
      BY <1>3, <2>2, <2>3 DEF NoneBehind
  <1> HIDE DEF r
  <1>4. NoneBehind(r, fd, a, b)
    BY <1>2 DEF NoneBehind
  <1>5. Head(q).fd = fd /\ Head(q).action = a => Count(r, fd, b) = 0
    BY <1>1, <1>3, CountNone
  <1> QED
    BY <1>4, <1>5 DEF r

\* Nothing is out of order where nothing of a kind is.
LEMMA OrderNone ==
  ASSUME NEW X, NEW q \in Seq(X), NEW fd, NEW a, NEW b,
         Count(q, fd, a) = 0 \/ Count(q, fd, b) = 0
  PROVE  NoneBehind(q, fd, a, b)
  <1>1. \A i \in 1 .. Len(q) : q[i].fd = fd => q[i] \in Mine(q, fd)
    BY DEF Mine, Elements
  <1> QED
    BY <1>1, CountNone DEF NoneBehind

-----------------------------------------------------------------------------
(* Answers that end a command.                                             *)

\* An answer is added.
LEMMA FinalsAdded ==
  ASSUME NEW q \in Seq(Reply), NEW x \in Reply
  PROVE  Finals(Append(q, x)) = (IF x.code # 150 THEN Finals(q) + 1 ELSE Finals(q))
  <1> DEFINE n == Len(q)
             r == Append(q, x)
             S == {i \in 1 .. n : q[i].code # 150}
             T == {i \in 1 .. n + 1 : r[i].code # 150}
  <1>1. n \in Nat /\ Len(r) = n + 1 /\ r[n + 1] = x /\ \A i \in 1 .. n : r[i] = q[i]
    OBVIOUS
  <1>2. Cardinality(T) = (IF n + 1 \in T THEN Cardinality(S) + 1 ELSE Cardinality(S))
    BY <1>1, PositionAdded
  <1>3. n + 1 \in T <=> x.code # 150
    BY <1>1
  <1>4. Finals(q) = Cardinality(S) /\ Finals(r) = Cardinality(T)
    BY <1>1 DEF Finals
  <1> QED
    BY <1>2, <1>3, <1>4

\* The first answer is taken.
LEMMA FinalsTaken ==
  ASSUME NEW q \in Seq(Reply), q # <<>>
  PROVE  Finals(q) = (IF Head(q).code # 150 THEN Finals(Tail(q)) + 1 ELSE Finals(Tail(q)))
  <1> DEFINE n == Len(q) - 1
             r == Tail(q)
             S == {i \in 1 .. n + 1 : q[i].code # 150}
             T == {i \in 1 .. n : r[i].code # 150}
  <1>1. /\ n \in Nat /\ Len(q) = n + 1 /\ Len(r) = n /\ Head(q) = q[1]
        /\ \A i \in 1 .. n : r[i] = q[i + 1]
    OBVIOUS
  <1>2. /\ n \in Nat /\ S \in SUBSET (1 .. n + 1) /\ T \in SUBSET (1 .. n)
        /\ \A i \in 1 .. n : i \in T <=> i + 1 \in S
    BY <1>1
  <1>3. Cardinality(S) = (IF 1 \in S THEN Cardinality(T) + 1 ELSE Cardinality(T))
    <2> HIDE DEF S, T, n, r
    <2> QED
      BY <1>2, PositionTaken
  <1>4. 1 \in S <=> Head(q).code # 150
    BY <1>1
  <1>5. Finals(q) = Cardinality(S) /\ Finals(r) = Cardinality(T)
    BY <1>1 DEF Finals
  <1> QED
    BY <1>3, <1>4, <1>5

\* Their number, and when it is zero.
LEMMA FinalsNone ==
  ASSUME NEW q \in Seq(Reply)
  PROVE  /\ Finals(q) \in Nat
         /\ Finals(q) = 0 <=> \A r \in Elements(q) : r.code = 150
  <1> DEFINE S == {i \in 1 .. Len(q) : q[i].code # 150}
  <1>1. IsFiniteSet(S) /\ Cardinality(S) \in Nat
    <2>1. Len(q) \in Nat /\ S \in SUBSET (1 .. Len(q))
      OBVIOUS
    <2> QED
      BY <2>1, PositionsFinite
  <1>2. Cardinality(S) = 0 <=> S = {}
    BY <1>1, FS_EmptySet
  <1>3. S = {} <=> \A r \in Elements(q) : r.code = 150
    BY DEF Elements
  <1> QED
    BY <1>1, <1>2, <1>3 DEF Finals

\* A record that carries such an answer to a client.
EndsFor(n, fd) ==
  n.fd = fd /\ n.action \in {"CTRL_WRITE", "TRANS_OK"} /\ n.reply.code # 150

\* A record is written to the pipe.
LEMMA FinalNoticesAdded ==
  ASSUME NEW x \in Notification, notify_pipe \in Seq(Notification),
         notify_pipe' = Append(notify_pipe, x), NEW fd \in Fds
  PROVE  FinalNotices(fd)' = (IF EndsFor(x, fd) THEN FinalNotices(fd) + 1 ELSE FinalNotices(fd))
  <1> DEFINE q == notify_pipe
             n == Len(q)
             r == Append(q, x)
             S == {i \in 1 .. n : EndsFor(q[i], fd)}
             T == {i \in 1 .. n + 1 : EndsFor(r[i], fd)}
  <1>1. n \in Nat /\ Len(r) = n + 1 /\ r[n + 1] = x /\ \A i \in 1 .. n : r[i] = q[i]
    OBVIOUS
  <1>2. Cardinality(T) = (IF n + 1 \in T THEN Cardinality(S) + 1 ELSE Cardinality(S))
    BY <1>1, PositionAdded
  <1>3. n + 1 \in T <=> EndsFor(x, fd)
    BY <1>1
  <1>4. FinalNotices(fd) = Cardinality(S) /\ FinalNotices(fd)' = Cardinality(T)
    BY <1>1 DEF FinalNotices, EndsFor
  <1> QED
    BY <1>2, <1>3, <1>4

\* A record is read from the pipe.
LEMMA FinalNoticesTaken ==
  ASSUME notify_pipe \in Seq(Notification), notify_pipe # <<>>,
         notify_pipe' = Tail(notify_pipe), NEW fd \in Fds
  PROVE  FinalNotices(fd) =
           (IF EndsFor(Head(notify_pipe), fd) THEN FinalNotices(fd)' + 1 ELSE FinalNotices(fd)')
  <1> DEFINE q == notify_pipe
             n == Len(q) - 1
             r == Tail(q)
             S == {i \in 1 .. n + 1 : EndsFor(q[i], fd)}
             T == {i \in 1 .. n : EndsFor(r[i], fd)}
  <1>1. /\ n \in Nat /\ Len(q) = n + 1 /\ Len(r) = n /\ Head(q) = q[1]
        /\ \A i \in 1 .. n : r[i] = q[i + 1]
    OBVIOUS
  <1>2. /\ n \in Nat /\ S \in SUBSET (1 .. n + 1) /\ T \in SUBSET (1 .. n)
        /\ \A i \in 1 .. n : i \in T <=> i + 1 \in S
    BY <1>1
  <1>3. Cardinality(S) = (IF 1 \in S THEN Cardinality(T) + 1 ELSE Cardinality(T))
    <2> HIDE DEF S, T, n, r
    <2> QED
      BY <1>2, PositionTaken
  <1>4. 1 \in S <=> EndsFor(Head(q), fd)
    BY <1>1
  <1>5. FinalNotices(fd) = Cardinality(S) /\ FinalNotices(fd)' = Cardinality(T)
    BY <1>1 DEF FinalNotices, EndsFor
  <1> QED
    BY <1>3, <1>4, <1>5

\* Their number, and when it is zero.
LEMMA FinalNoticesNone ==
  ASSUME notify_pipe \in Seq(Notification), NEW fd \in Fds
  PROVE  /\ FinalNotices(fd) \in Nat
         /\ FinalNotices(fd) = 0 <=> \A n \in MyNotices(fd) : ~EndsFor(n, fd)
  <1> DEFINE S == {i \in 1 .. Len(notify_pipe) : EndsFor(notify_pipe[i], fd)}
  <1>1. IsFiniteSet(S) /\ Cardinality(S) \in Nat
    <2>1. Len(notify_pipe) \in Nat /\ S \in SUBSET (1 .. Len(notify_pipe))
      OBVIOUS
    <2> QED
      BY <2>1, PositionsFinite
  <1>2. Cardinality(S) = 0 <=> S = {}
    BY <1>1, FS_EmptySet
  <1>3. S = {} <=> \A n \in MyNotices(fd) : ~EndsFor(n, fd)
    BY DEF MyNotices, Mine, Elements, EndsFor
  <1> QED
    BY <1>1, <1>2, <1>3 DEF FinalNotices, EndsFor

-----------------------------------------------------------------------------
(* What a step of the model does to the queues of a client f.              *)

\* Numbers of tasks and records are numbers.
Numbers ==
  \A f \in Fds :
    /\ \A a : Tasks(f, a) \in Nat /\ Work(f, a) \in Nat /\ Sent(f, a) \in Nat
    /\ FinalNotices(f) \in Nat

LEMMA NumbersType == PoolTypeOK => Numbers
  <1> SUFFICES ASSUME PoolTypeOK, NEW f \in Fds
               PROVE  /\ \A a : /\ Tasks(f, a) \in Nat /\ Work(f, a) \in Nat
                                /\ Sent(f, a) \in Nat
                      /\ FinalNotices(f) \in Nat
    BY DEF Numbers
  <1>1. SessionQueue(f) \in Seq(SessionTask)
    BY ThreadOfType DEF SessionQueue, PoolTypeOK
  <1>2. DiskQueue(f) \in Seq(DiskTask)
    <2>1. <<>> \in Seq(DiskTask)
      OBVIOUS
    <2> QED
      BY <2>1 DEF DiskQueue, PoolTypeOK
  <1>3. notify_pipe \in Seq(Notification)
    BY DEF PoolTypeOK
  <1>4. \A a : /\ Tasks(f, a) \in Nat /\ Work(f, a) \in Nat /\ Sent(f, a) \in Nat
    BY <1>1, <1>2, <1>3, CountType DEF Tasks, Work, Sent
  <1> QED
    BY <1>3, <1>4, FinalNoticesNone

LEMMA NumbersNext == PoolTypeOK' => Numbers'
  BY NumbersType, PTL

\* A queue of tasks is typed.
LEMMA QueuesType ==
  ASSUME PoolTypeOK, NEW f \in Fds
  PROVE  /\ SessionQueue(f) \in Seq(SessionTask) /\ DiskQueue(f) \in Seq(DiskTask)
         /\ notify_pipe \in Seq(Notification)
  <1>1. SessionQueue(f) \in Seq(SessionTask)
    BY ThreadOfType DEF SessionQueue, PoolTypeOK
  <1>2. DiskQueue(f) \in Seq(DiskTask)
    <2>1. <<>> \in Seq(DiskTask)
      OBVIOUS
    <2> QED
      BY <2>1 DEF DiskQueue, PoolTypeOK
  <1> QED
    BY <1>1, <1>2 DEF PoolTypeOK

\* The records of a client are typed, and for that client.
LEMMA MineType ==
  ASSUME PoolTypeOK, NEW f \in Fds
  PROVE  /\ \A x \in MyTasks(f) : x \in SessionTask /\ x.fd = f
         /\ \A n \in MyNotices(f) : n \in Notification /\ n.fd = f
  BY QueuesType, ElementsType DEF MyTasks, MyNotices, Mine

\* Nothing is counted of a kind just when nothing of it is there.
LEMMA NoneWaiting ==
  ASSUME PoolTypeOK, NEW f \in Fds, NEW a
  PROVE  /\ Tasks(f, a) = 0 <=> \A x \in MyTasks(f) : x.action # a
         /\ Sent(f, a) = 0 <=> \A n \in MyNotices(f) : n.action # a
  BY QueuesType, CountNone DEF Tasks, Sent, MyTasks, MyNotices

\* A task is posted to a session thread.
LEMMA TaskPosted ==
  ASSUME PoolTypeOK, NEW task \in SessionTask, post_to_session(task), NEW f \in Fds
  PROVE  /\ \A a : Tasks(f, a)' =
                     (IF task.fd = f /\ task.action = a THEN Tasks(f, a) + 1 ELSE Tasks(f, a))
         /\ MyTasks(f)' = MyTasks(f) \cup (IF task.fd = f THEN {task} ELSE {})
         /\ /\ PasvOrder(f)
            /\ task.fd = f /\ task.action = "DATA_ACCEPT" => Tasks(f, "PASV") = 0
            => PasvOrder(f)'
  <1> DEFINE q == SessionQueue(f)
  <1>1. /\ task.fd \in Fds /\ ThreadOf(task.fd) \in SessionThreads
        /\ ThreadOf(f) \in SessionThreads
    BY SessionTaskFields, ThreadOfType
  <1>2. q \in Seq(SessionTask)
    BY QueuesType
  <1>3. CASE ThreadOf(f) = ThreadOf(task.fd)
    <2>1. SessionQueue(f)' = Append(q, task)
      BY <1>1, <1>3 DEF post_to_session, SessionQueue, PoolTypeOK
    <2>2. \A a : Tasks(f, a)' =
             (IF task.fd = f /\ task.action = a THEN Tasks(f, a) + 1 ELSE Tasks(f, a))
      BY <1>2, <2>1, CountAdded DEF Tasks
    <2>3. MyTasks(f)' = MyTasks(f) \cup (IF task.fd = f THEN {task} ELSE {})
      BY <1>2, <2>1, MineAdded DEF MyTasks
    <2>4. ASSUME PasvOrder(f), task.fd = f /\ task.action = "DATA_ACCEPT" => Tasks(f, "PASV") = 0
          PROVE  PasvOrder(f)'
      BY <1>2, <2>1, <2>4, OrderAdded DEF PasvOrder, Tasks
    <2> QED
      BY <2>2, <2>3, <2>4
  <1>4. CASE ThreadOf(f) # ThreadOf(task.fd)
    <2>1. SessionQueue(f)' = q /\ task.fd # f
      BY <1>1, <1>4 DEF post_to_session, SessionQueue, PoolTypeOK
    <2>2. \A a : Tasks(f, a) \in Nat
      BY NumbersType DEF Numbers
    <2> QED
      BY <2>1, <2>2 DEF Tasks, MyTasks, PasvOrder
  <1> QED
    BY <1>3, <1>4

\* A session thread takes a task that waits in the right queue.
LEMMA TaskTaken ==
  ASSUME PoolTypeOK, NEW t \in SessionThreads, NEW action, SessionTake(t, action),
         NEW h, h = Head(session_pool[t]), ThreadOf(h.fd) = t, NEW f \in Fds
  PROVE  /\ \A a : Tasks(f, a) =
                     (IF h.fd = f /\ h.action = a THEN Tasks(f, a)' + 1 ELSE Tasks(f, a)')
         /\ MyTasks(f) = MyTasks(f)' \cup (IF h.fd = f THEN {h} ELSE {})
         /\ PasvOrder(f) =>
              /\ PasvOrder(f)'
              /\ h.fd = f /\ h.action = "PASV" => Tasks(f, "DATA_ACCEPT")' = 0
  <1> DEFINE q == SessionQueue(f)
  <1>1. q \in Seq(SessionTask) /\ ThreadOf(f) \in SessionThreads
    BY QueuesType, ThreadOfType
  <1>2. CASE ThreadOf(f) = t
    <2>1. SessionQueue(f)' = Tail(q) /\ q # <<>> /\ h = Head(q)
      BY <1>1, <1>2 DEF SessionTake, SessionQueue, PoolTypeOK
    <2>2. \A a : Tasks(f, a) = (IF h.fd = f /\ h.action = a THEN Tasks(f, a)' + 1 ELSE Tasks(f, a)')
      BY <1>1, <2>1, CountTaken DEF Tasks
    <2>3. MyTasks(f) = MyTasks(f)' \cup (IF h.fd = f THEN {h} ELSE {})
      BY <1>1, <2>1, MineTaken DEF MyTasks
    <2>4. ASSUME PasvOrder(f)
          PROVE  /\ PasvOrder(f)'
                 /\ h.fd = f /\ h.action = "PASV" => Tasks(f, "DATA_ACCEPT")' = 0
      BY <1>1, <2>1, <2>4, OrderTaken DEF PasvOrder, Tasks
    <2> QED
      BY <2>2, <2>3, <2>4
  <1>3. CASE ThreadOf(f) # t
    <2>1. SessionQueue(f)' = q /\ h.fd # f
      BY <1>1, <1>3 DEF SessionTake, SessionQueue, PoolTypeOK
    <2>2. \A a : Tasks(f, a) \in Nat
      BY NumbersType DEF Numbers
    <2> QED
      BY <2>1, <2>2 DEF Tasks, MyTasks, PasvOrder
  <1> QED
    BY <1>2, <1>3

\* The session queues stay.
TasksStay(f) ==
  /\ \A a : Tasks(f, a)' = Tasks(f, a)
  /\ MyTasks(f)' = MyTasks(f)
  /\ PasvOrder(f) => PasvOrder(f)'

LEMMA TasksUnchanged ==
  ASSUME session_pool' = session_pool, NEW f \in Fds
  PROVE  TasksStay(f)
  BY DEF TasksStay, Tasks, MyTasks, PasvOrder, SessionQueue

\* The disk queues of f stay.
WorkStays(f) ==
  /\ \A a : Work(f, a)' = Work(f, a)
  /\ StartOrder(f) => StartOrder(f)'

LEMMA WorkUnchanged ==
  ASSUME disk_pool' = disk_pool, NEW f \in Fds
  PROVE  WorkStays(f)
  BY DEF WorkStays, Work, StartOrder, DiskQueue

\* A task is posted to a disk thread, or to none and the process dies.
LEMMA WorkPosted ==
  ASSUME PoolTypeOK, NEW task \in DiskTask, post_to_disk(task), NEW f \in Fds
  PROVE  \/ /\ fault' = fault
            /\ \A a : Work(f, a)' =
                        (IF task.fd = f /\ task.action = a THEN Work(f, a) + 1 ELSE Work(f, a))
            /\ /\ StartOrder(f)
               /\ task.fd = f /\ task.action \in {"STORING", "STOR_OK"} =>
                    Work(f, "INDEX_START") = 0 /\ Work(f, "RETR_START") = 0
               => StartOrder(f)'
         \/ fault' = "disk_index" /\ WorkStays(f)
  <1> DEFINE q == DiskQueue(f)
             i == ThreadOf(task.fd)
  <1>1. q \in Seq(DiskTask)
    BY QueuesType
  <1>2. CASE i \in DiskThreads
    <2>1. disk_pool' = [disk_pool EXCEPT ![i] = Append(@, task)] /\ fault' = fault
      BY <1>2 DEF post_to_disk
    <2>2. CASE ThreadOf(f) = i
      <3>1. DiskQueue(f)' = Append(q, task)
        BY <1>2, <2>1, <2>2 DEF DiskQueue, PoolTypeOK
      <3>2. \A a : Work(f, a)' =
               (IF task.fd = f /\ task.action = a THEN Work(f, a) + 1 ELSE Work(f, a))
        BY <1>1, <3>1, CountAdded DEF Work
      <3>3. ASSUME StartOrder(f),
                   task.fd = f /\ task.action \in {"STORING", "STOR_OK"} =>
                     Work(f, "INDEX_START") = 0 /\ Work(f, "RETR_START") = 0
            PROVE  StartOrder(f)'
        BY <1>1, <3>1, <3>3, OrderAdded DEF StartOrder, Work
      <3> QED
        BY <2>1, <3>2, <3>3
    <2>3. CASE ThreadOf(f) # i
      <3>1. DiskQueue(f)' = q /\ task.fd # f
        BY <1>2, <2>1, <2>3 DEF DiskQueue, PoolTypeOK
      <3>2. \A a : Work(f, a) \in Nat
        BY NumbersType DEF Numbers
      <3> QED
        BY <2>1, <3>1, <3>2 DEF Work, StartOrder
    <2> QED
      BY <2>2, <2>3
  <1>3. CASE i \notin DiskThreads
    <2>1. fault' = "disk_index" /\ disk_pool' = disk_pool
      BY <1>3 DEF post_to_disk
    <2> QED
      BY <2>1, WorkUnchanged
  <1> QED
    BY <1>2, <1>3

\* A disk thread takes a task that waits in the right queue.
LEMMA WorkTaken ==
  ASSUME PoolTypeOK, NEW t \in DiskThreads, NEW action, DiskTake(t, action),
         NEW h, h = Head(disk_pool[t]), ThreadOf(h.fd) = t, NEW f \in Fds
  PROVE  /\ \A a : Work(f, a) =
                     (IF h.fd = f /\ h.action = a THEN Work(f, a)' + 1 ELSE Work(f, a)')
         /\ StartOrder(f) =>
              /\ StartOrder(f)'
              /\ h.fd = f /\ h.action \in {"INDEX_START", "RETR_START"} =>
                   Work(f, "STORING")' = 0 /\ Work(f, "STOR_OK")' = 0
  <1> DEFINE q == DiskQueue(f)
  <1>1. q \in Seq(DiskTask)
    BY QueuesType
  <1>2. CASE ThreadOf(f) = t
    <2>1. DiskQueue(f)' = Tail(q) /\ q # <<>> /\ h = Head(q)
      BY <1>1, <1>2 DEF DiskTake, DiskQueue, PoolTypeOK
    <2>2. \A a : Work(f, a) = (IF h.fd = f /\ h.action = a THEN Work(f, a)' + 1 ELSE Work(f, a)')
      BY <1>1, <2>1, CountTaken DEF Work
    <2>3. ASSUME StartOrder(f)
          PROVE  /\ StartOrder(f)'
                 /\ h.fd = f /\ h.action \in {"INDEX_START", "RETR_START"} =>
                      Work(f, "STORING")' = 0 /\ Work(f, "STOR_OK")' = 0
      <3>1. ASSUME NEW a \in {"INDEX_START", "RETR_START"}, NEW b \in {"STORING", "STOR_OK"}
            PROVE  /\ NoneBehind(Tail(q), f, a, b)
                   /\ h.fd = f /\ h.action = a => Count(Tail(q), f, b) = 0
        BY <1>1, <2>1, <2>3, OrderTaken DEF StartOrder
      <3> QED
        BY <2>1, <3>1 DEF StartOrder, Work
    <2> QED
      BY <2>2, <2>3
  <1>3. CASE ThreadOf(f) # t
    <2>1. DiskQueue(f)' = q /\ h.fd # f
      BY <1>1, <1>3 DEF DiskTake, DiskQueue, PoolTypeOK
    <2>2. \A a : Work(f, a) \in Nat
      BY NumbersType DEF Numbers
    <2> QED
      BY <2>1, <2>2 DEF Work, StartOrder
  <1> QED
    BY <1>2, <1>3

\* The record at the reactor's end of the pipe stays there.
HeadStays == notify_pipe # <<>> => notify_pipe' # <<>> /\ Head(notify_pipe)' = Head(notify_pipe)

\* The records of f in the pipe stay.
NoticesStay(f) ==
  /\ \A a : Sent(f, a)' = Sent(f, a)
  /\ FinalNotices(f)' = FinalNotices(f)
  /\ MyNotices(f)' = MyNotices(f)

LEMMA NoticesUnchanged ==
  ASSUME notify_pipe' = notify_pipe, NEW f \in Fds
  PROVE  NoticesStay(f) /\ HeadStays
  BY DEF NoticesStay, HeadStays, Sent, FinalNotices, MyNotices

\* A record is written to the pipe.
LEMMA NoticePosted ==
  ASSUME PoolTypeOK, NEW n \in Notification, notify(n), NEW f \in Fds
  PROVE  /\ \A a : Sent(f, a)' = (IF n.fd = f /\ n.action = a THEN Sent(f, a) + 1 ELSE Sent(f, a))
         /\ FinalNotices(f)' = (IF EndsFor(n, f) THEN FinalNotices(f) + 1 ELSE FinalNotices(f))
         /\ MyNotices(f)' = MyNotices(f) \cup (IF n.fd = f THEN {n} ELSE {})
         /\ HeadStays
  <1>1. notify_pipe \in Seq(Notification) /\ notify_pipe' = Append(notify_pipe, n)
    BY DEF PoolTypeOK, notify
  <1>2. \A a : Sent(f, a)' = (IF n.fd = f /\ n.action = a THEN Sent(f, a) + 1 ELSE Sent(f, a))
    BY <1>1, CountAdded DEF Sent
  <1>3. MyNotices(f)' = MyNotices(f) \cup (IF n.fd = f THEN {n} ELSE {})
    BY <1>1, MineAdded DEF MyNotices
  <1>4. HeadStays
    BY <1>1 DEF HeadStays
  <1> QED
    BY <1>1, <1>2, <1>3, <1>4, FinalNoticesAdded

\* The reactor reads the first record.
LEMMA NoticeTaken ==
  ASSUME PoolTypeOK, notify_pipe # <<>>, notify_pipe' = Tail(notify_pipe),
         NEW n, n = Head(notify_pipe), NEW f \in Fds
  PROVE  /\ \A a : Sent(f, a) = (IF n.fd = f /\ n.action = a THEN Sent(f, a)' + 1 ELSE Sent(f, a)')
         /\ FinalNotices(f) = (IF EndsFor(n, f) THEN FinalNotices(f)' + 1 ELSE FinalNotices(f)')
         /\ MyNotices(f) = MyNotices(f)' \cup (IF n.fd = f THEN {n} ELSE {})
  <1>1. notify_pipe \in Seq(Notification)
    BY DEF PoolTypeOK
  <1>2. \A a : Sent(f, a) = (IF n.fd = f /\ n.action = a THEN Sent(f, a)' + 1 ELSE Sent(f, a)')
    BY <1>1, CountTaken DEF Sent
  <1>3. MyNotices(f) = MyNotices(f)' \cup (IF n.fd = f THEN {n} ELSE {})
    BY <1>1, MineTaken DEF MyNotices
  <1> QED
    BY <1>1, <1>2, <1>3, FinalNoticesTaken
=============================================================================
