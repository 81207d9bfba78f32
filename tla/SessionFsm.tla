------------------------------ MODULE SessionFsm ------------------------------
(***************************************************************************)
(* The session threads: finite_state_machine::roll_state_machine and the   *)
(* command handlers.  A session thread takes one task of its queue, looks  *)
(* up the session of the task's control socket and runs the handler to the *)
(* end under its mutex, so a handler is one action.  Answers leave through *)
(* the notification pipe, file work through the disk pool.                 *)
(***************************************************************************)
EXTENDS FileStore

CONSTANTS
  Users,        \* accounts of conf/userlist
  user_map,     \* account -> its line of conf/userlist
  named_by,     \* argument of USER -> accounts it is a prefix of
  FreedUsers    \* accounts of user_map whose memory has been deleted: the last

Account ==
  [pass : PassArgs \cup {NULL}, upload_per : BOOLEAN, download_per : BOOLEAN]

ASSUME SessionAssumption ==
  /\ user_map \in [Users -> Account]
  /\ named_by \in [UserArgs -> SUBSET Users]
  /\ FreedUsers \subseteq Users

VARIABLE sessions   \* control socket -> its session, or NULL

DataActions == {"DATA_WAITING", "DATA_PASV_OK", "DATA_LIST", "DATA_STOR",
                "DATA_RETR", "DATA_INDEX_DOWNLOAD", "DATA_FILE_DOWNLOAD"}

UserNames == Users \cup {"", "Anonymous", "BGIShare"}

Session ==
  [data_action : DataActions, log_in : BOOLEAN, username : UserNames,
   user_info : Users \cup {NULL}, upload_per : BOOLEAN,
   download_per : BOOLEAN, file_name : Files \cup {NULL}, rest_size : Nat,
   recv_command : Seq(Command)]

\* A null pointer is no session.
ASSUME SessionNullAssumption == NULL \notin Session

SessionTypeOK == sessions \in [Fds -> Session \cup {NULL}]

SessionInit == sessions = [fd \in Fds |-> NULL]

NewSession ==
  [data_action |-> "DATA_WAITING", log_in |-> FALSE, username |-> "",
   user_info |-> NULL, upload_per |-> FALSE, download_per |-> FALSE,
   file_name |-> NULL, rest_size |-> 0, recv_command |-> <<>>]

-----------------------------------------------------------------------------
(* Ways for a handler to end.  s is the session as the handler leaves it.  *)

Store(fd, s) == sessions' = [sessions EXCEPT ![fd] = s]

\* One answer and no file work.
Answer(fd, s, code) ==
  /\ Post(fd, code, NULL)
  /\ Store(fd, s)
  /\ UNCHANGED <<disk_pool, fault>>

\* The command only moves the data state on: the data connection goes on.
AwaitData(fd, s) ==
  /\ Store(fd, s)
  /\ UNCHANGED <<notify_pipe, disk_pool, fault>>

Size(file) == IF fs[file] = NULL THEN 0 ELSE Len(fs[file])

-----------------------------------------------------------------------------
(* Command handlers: fd, the session with the line taken out, the command. *)

\* A deleted account may hold anything by now: any name, password and right.
Seek(arg) == named_by[arg] \cup FreedUsers
Reads(u)  == IF u \in FreedUsers THEN Account ELSE {user_map[u]}

\* Anonymous has no branch of its own to end in: it goes on to the table and
\* is answered 530 after its name was stored.
com_USER(fd, s, c) ==
  IF c.user = "BGIShare"
  THEN Answer(fd, [s EXCEPT !.username = "BGIShare"], 331)
  ELSE \/ \E u \in Seek(c.user) :
            Answer(fd, [s EXCEPT !.user_info = u, !.username = u], 331)
       \/ /\ named_by[c.user] \subseteq FreedUsers
          /\ Answer(fd, IF c.user = "Anonymous"
                        THEN [s EXCEPT !.username = "Anonymous"] ELSE s, 530)

\* The password of a session without an account was never written: comparing
\* it may come out equal, and then the account that is not there is read.
com_PASS(fd, s, c) ==
  \/ /\ s.username = "Anonymous"
     /\ Answer(fd, [s EXCEPT !.log_in = TRUE], 230)
  \/ /\ s.username \notin {"Anonymous", ""}
     /\ s.user_info # NULL
     /\ \E account \in Reads(s.user_info) :
          /\ c.pass = account.pass
          /\ Answer(fd, [s EXCEPT !.log_in = TRUE,
                                  !.upload_per = account.upload_per,
                                  !.download_per = account.download_per], 230)
  \/ /\ s.username \notin {"Anonymous", ""}
     /\ s.user_info = NULL
     /\ fault' = "null_user_info"
     /\ Store(fd, [s EXCEPT !.log_in = TRUE])
     /\ UNCHANGED <<notify_pipe, disk_pool>>
  \/ /\ s.username # "Anonymous"
     /\ s.user_info # NULL /\ s.username # "" =>
          \E account \in Reads(s.user_info) : c.pass # account.pass
     /\ Answer(fd, s, 530)

com_TYPE(fd, s) == \E code \in {200, 504} : Answer(fd, s, code)
\* CWD and CDUP: directories are abstracted, the answer is not.
com_CWD(fd, s)  == \E code \in {250, 500, 504, 550} : Answer(fd, s, code)
com_PWD(fd, s)  == Answer(fd, s, IF s.log_in THEN 257 ELSE 550)
com_SYST(fd, s) == Answer(fd, s, 215)
com_FEAT(fd, s) == Answer(fd, s, 211)
com_BAD(fd, s)  == Answer(fd, s, 501)

com_SIZE(fd, s, c) ==
  Answer(fd, [s EXCEPT !.file_name = c.file],
         IF fs[c.file] = NULL THEN 550 ELSE 213)

com_REST(fd, s, c) == Answer(fd, [s EXCEPT !.rest_size = c.rest], 350)

\* Mutant: the login is not looked at.
com_PASV_open(fd, s) == PasvPost(fd) /\ Store(fd, s) /\ UNCHANGED <<disk_pool, fault>>

com_PASV(fd, s) ==
  IF s.log_in
  THEN PasvPost(fd) /\ Store(fd, s) /\ UNCHANGED <<disk_pool, fault>>
  ELSE Answer(fd, s, 530)

com_LIST(fd, s) ==
  IF ~s.log_in THEN Answer(fd, s, 530)
  ELSE IF s.data_action # "DATA_PASV_OK" THEN Answer(fd, s, 425)
  ELSE AwaitData(fd, [s EXCEPT !.data_action = "DATA_LIST"])

\* Mutant: the permission is not looked at.
com_STOR_anyone(fd, s, c) ==
  LET named == [s EXCEPT !.file_name = c.file]
  IN  IF ~s.log_in THEN Answer(fd, s, 530)
      ELSE IF s.data_action # "DATA_PASV_OK" THEN Answer(fd, s, 425)
      ELSE IF fs[c.file] # NULL THEN Answer(fd, named, 550)
      ELSE AwaitData(fd, [named EXCEPT !.data_action = "DATA_STOR"])

com_STOR(fd, s, c) ==
  LET named == [s EXCEPT !.file_name = c.file]
  IN  IF ~s.log_in THEN Answer(fd, s, 530)
      ELSE IF s.data_action # "DATA_PASV_OK" THEN Answer(fd, s, 425)
      ELSE IF ~s.upload_per THEN Answer(fd, s, 550)
      ELSE IF fs[c.file] # NULL THEN Answer(fd, named, 550)
      ELSE AwaitData(fd, [named EXCEPT !.data_action = "DATA_STOR"])

\* Mutant: the restart position is not moved to the end of the file.
com_APPE_start(fd, s, c) ==
  IF ~s.log_in THEN Answer(fd, s, 530)
  ELSE IF ~s.upload_per THEN Answer(fd, s, 550)
  ELSE AwaitData(fd, [s EXCEPT !.file_name = c.file, !.data_action = "DATA_STOR"])

\* No 425 here, and no look at what the data connection is doing.
com_APPE(fd, s, c) ==
  IF ~s.log_in THEN Answer(fd, s, 530)
  ELSE IF ~s.upload_per THEN Answer(fd, s, 550)
  ELSE AwaitData(fd, [s EXCEPT !.file_name = c.file,
                               !.rest_size = Size(c.file),
                               !.data_action = "DATA_STOR"])

\* Mutant: the permission is not looked at.
com_RETR_anyone(fd, s, c) ==
  LET named == [s EXCEPT !.file_name = c.file]
  IN  IF ~s.log_in THEN Answer(fd, s, 530)
      ELSE IF s.data_action # "DATA_PASV_OK" THEN Answer(fd, s, 425)
      ELSE IF fs[c.file] = NULL THEN Answer(fd, named, 550)
      ELSE AwaitData(fd, [named EXCEPT !.data_action = "DATA_RETR"])

com_RETR(fd, s, c) ==
  LET named == [s EXCEPT !.file_name = c.file]
  IN  IF ~s.log_in THEN Answer(fd, s, 530)
      ELSE IF s.data_action # "DATA_PASV_OK" THEN Answer(fd, s, 425)
      ELSE IF ~s.download_per THEN Answer(fd, s, 550)
      ELSE IF fs[c.file] = NULL THEN Answer(fd, named, 550)
      ELSE IF Size(c.file) < s.rest_size THEN Answer(fd, named, 554)
      ELSE AwaitData(fd, [named EXCEPT !.data_action = "DATA_RETR"])

\* One complete line is executed; lines behind it wait in recv_command for
\* the next READ task.
run_fsm_command(fd, s, c) ==
  \/ c.verb = "USER" /\ com_USER(fd, s, c)
  \/ c.verb = "PASS" /\ com_PASS(fd, s, c)
  \/ c.verb = "TYPE" /\ com_TYPE(fd, s)
  \/ c.verb = "CWD"  /\ com_CWD(fd, s)
  \/ c.verb = "PWD"  /\ com_PWD(fd, s)
  \/ c.verb = "APPE" /\ com_APPE(fd, s, c)
  \/ c.verb = "SIZE" /\ com_SIZE(fd, s, c)
  \/ c.verb = "REST" /\ com_REST(fd, s, c)
  \/ c.verb = "PASV" /\ com_PASV(fd, s)
  \/ c.verb = "LIST" /\ com_LIST(fd, s)
  \/ c.verb = "STOR" /\ com_STOR(fd, s, c)
  \/ c.verb = "RETR" /\ com_RETR(fd, s, c)
  \/ c.verb = "SYST" /\ com_SYST(fd, s)
  \/ c.verb = "FEAT" /\ com_FEAT(fd, s)
  \/ c.verb = "BAD"  /\ com_BAD(fd, s)

-----------------------------------------------------------------------------
(* Data connection handlers.                                               *)

run_pasv(fd, s, port) ==
  IF port > start_port /\ port < end_port
  THEN /\ Post(fd, 227, port)
       /\ Store(fd, [s EXCEPT !.data_action = "DATA_PASV_OK"])
       /\ UNCHANGED <<disk_pool, fault>>
  ELSE Answer(fd, s, 502)

run_list_load(fd, s) ==
  /\ Post(fd, 150, NULL)
  /\ Store(fd, [s EXCEPT !.data_action = "DATA_INDEX_DOWNLOAD"])
  /\ post_to_disk([fd |-> fd, action |-> "INDEX_START"])

\* data_action stays DATA_STOR for the whole upload.
run_stor_load(fd, s) ==
  /\ post_to_disk([fd |-> fd, action |-> "STOR_START",
                   path |-> s.file_name, rest |-> s.rest_size])
  /\ UNCHANGED <<sessions, notify_pipe>>

\* Mutant: the 150 is forgotten.
run_retr_load_silent(fd, s) ==
  /\ Store(fd, [s EXCEPT !.data_action = "DATA_FILE_DOWNLOAD"])
  /\ post_to_disk([fd |-> fd, action |-> "RETR_START",
                   path |-> s.file_name, rest |-> s.rest_size])
  /\ UNCHANGED notify_pipe

\* Mutant: the wrong name is passed on.
run_retr_load_name(fd, s) ==
  /\ Post(fd, 150, NULL)
  /\ Store(fd, [s EXCEPT !.data_action = "DATA_FILE_DOWNLOAD"])
  /\ post_to_disk([fd |-> fd, action |-> "RETR_START",
                   path |-> s.username, rest |-> s.rest_size])

run_retr_load(fd, s) ==
  /\ Post(fd, 150, NULL)
  /\ Store(fd, [s EXCEPT !.data_action = "DATA_FILE_DOWNLOAD"])
  /\ post_to_disk([fd |-> fd, action |-> "RETR_START",
                   path |-> s.file_name, rest |-> s.rest_size])

run_stor_start(fd, s) == Answer(fd, s, 150)

run_transfer_ok(fd, s) ==
  /\ PostTransferOk(fd, 226)
  /\ Store(fd, [s EXCEPT !.data_action = "DATA_WAITING"])
  /\ UNCHANGED <<disk_pool, fault>>

-----------------------------------------------------------------------------
(* roll_state_machine, one action per task kind.                           *)

\* The insert into the map is refused when an old session holds the socket
\* number: the new object greets the client and is lost.
SessionAccept(t) ==
  LET task == Head(session_pool[t]) IN
  /\ SessionTake(t, "CTRL_ACCEPT")
  /\ Post(task.fd, 220, NULL)
  /\ IF sessions[task.fd] = NULL THEN Store(task.fd, NewSession)
                                 ELSE UNCHANGED sessions
  /\ UNCHANGED <<disk_pool, fault>>

\* Take a task whose session exists.
ForSession(t, action) ==
  SessionTake(t, action) /\ sessions[Head(session_pool[t]).fd] # NULL

SessionPasv(t) ==
  LET task == Head(session_pool[t]) IN
  /\ ForSession(t, "PASV")
  /\ run_pasv(task.fd, sessions[task.fd], task.port)

\* A data connection is only served when the command came before it.
SessionDataAccept(t) ==
  LET fd == Head(session_pool[t]).fd
      s  == sessions[fd]
  IN
  /\ ForSession(t, "DATA_ACCEPT")
  /\ \/ s.data_action = "DATA_LIST" /\ run_list_load(fd, s)
     \/ s.data_action = "DATA_STOR" /\ run_stor_load(fd, s)
     \/ s.data_action = "DATA_RETR" /\ run_retr_load(fd, s)
     \/ /\ s.data_action \notin {"DATA_LIST", "DATA_STOR", "DATA_RETR"}
        /\ UNCHANGED <<sessions, notify_pipe, disk_pool, fault>>

SessionStorStart(t) ==
  LET fd == Head(session_pool[t]).fd IN
  ForSession(t, "STOR_START") /\ run_stor_start(fd, sessions[fd])

SessionTransOk(t) ==
  LET fd == Head(session_pool[t]).fd IN
  ForSession(t, "TRANS_OK") /\ run_transfer_ok(fd, sessions[fd])

SessionRead(t) ==
  LET task  == Head(session_pool[t])
      s     == sessions[task.fd]
      lines == s.recv_command \o task.buf
  IN
  /\ ForSession(t, "READ")
  /\ run_fsm_command(task.fd, [s EXCEPT !.recv_command = Tail(lines)], Head(lines))

\* Mutant: the session goes with the connection, work in flight or not.
SessionDropped_deletes(t) ==
  /\ \E action \in {"DISCONN", "CONN_ERR"} : SessionTake(t, action)
  /\ Store(Head(session_pool[t]).fd, NULL)
  /\ UNCHANGED <<notify_pipe, disk_pool, fault>>

\* Ends with -1 and touches nothing: the end of a connection, because
\* run_delete_session is commented out, and any task of a socket without a
\* session.
SessionDropped(t) ==
  /\ \E action \in (SignalTasks \cup {"READ", "PASV"}) \ {"CTRL_ACCEPT"} :
       /\ SessionTake(t, action)
       /\ sessions[Head(session_pool[t]).fd] # NULL => action \in {"DISCONN", "CONN_ERR"}
  /\ UNCHANGED <<sessions, notify_pipe, disk_pool, fault>>

SessionStep(t) ==
  /\ \/ SessionAccept(t)
     \/ SessionPasv(t)
     \/ SessionDataAccept(t)
     \/ SessionStorStart(t)
     \/ SessionTransOk(t)
     \/ SessionRead(t)
     \/ SessionDropped(t)
  /\ UNCHANGED fileVars
=============================================================================
