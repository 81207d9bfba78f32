------------------------------ MODULE TaskPools ------------------------------
(***************************************************************************)
(* The queues that tie the threads of HyperTransfer together.              *)
(*                                                                         *)
(*   reactor thread --> session_pool[i] --> session thread i               *)
(*   reactor and session threads --> disk_pool[i] --> disk thread i        *)
(*   session and disk threads --> notify_pipe --> reactor thread           *)
(*                                                                         *)
(* Both pools are chosen by the number of the control socket, modulo the   *)
(* configured number of SESSION threads (session_manager.cpp:30 and        *)
(* disk_manager.cpp:46).  The pipe is one end of a socketpair, written     *)
(* under TCP_manager's lock and read a record at a time by on_notify.      *)
(* A queue insert is one step here: the missing lock around it             *)
(* (session_manager.cpp:34) is a hazard of its own, see the README.        *)
(***************************************************************************)
EXTENDS Naturals, Sequences

CONSTANTS
  Fds,                \* numbers the kernel may give to control sockets
  session_thread_num, \* conf/ftp.conf: session threads
  disk_thread_num,    \* conf/ftp.conf: disk threads
  PipeCap,            \* records the notification socketpair holds
  Files,              \* names of regular files below init_path
  Ports,              \* ports the kernel may give to data listeners
  start_port,         \* conf/ftp.conf: passive port range
  end_port,
  RestArgs,           \* restart positions a client asks for
  UserArgs,           \* names a client gives to USER
  PassArgs,           \* passwords a client gives to PASS
  Payloads,           \* contents a client uploads
  FILEBUFSIZE,        \* common_def.h: size of a file block
  Byte,               \* the bytes of files; Hole is what a seek leaves
  Hole,
  NULL

ASSUME PoolAssumption ==
  /\ Fds \subseteq Nat
  /\ session_thread_num \in Nat \ {0}
  /\ disk_thread_num \in Nat \ {0}
  /\ PipeCap \in Nat \ {0}
ASSUME DataAssumption ==
  /\ Ports \subseteq Nat /\ NULL \notin Ports
  /\ start_port \in Nat /\ end_port \in Nat
  /\ RestArgs \subseteq Nat
  /\ Hole \in Byte
  /\ Payloads \subseteq Seq(Byte)
  /\ FILEBUFSIZE \in Nat \ {0}

VARIABLES
  session_pool,       \* one pending queue per session thread
  disk_pool,          \* one pending queue per disk thread
  notify_pipe,        \* notifications the reactor has not read yet
  fault               \* "none", or why the process died

poolVars == <<session_pool, disk_pool, notify_pipe, fault>>

SessionThreads == 0 .. session_thread_num - 1
DiskThreads    == 0 .. disk_thread_num - 1

\* The index both post functions compute from a control socket.
ThreadOf(fd) == fd % session_thread_num

-----------------------------------------------------------------------------
(* What travels in the queues.  A command is one complete line; its text   *)
(* is reduced to the verb and the argument the handlers look at.  The      *)
(* payload of STOR and APPE is what the client means to upload: the server *)
(* never looks at it there.                                                *)

PlainVerbs == {"TYPE", "CWD", "PWD", "SYST", "FEAT", "BAD", "PASV", "LIST"}

Command ==
  [verb : PlainVerbs]
    \cup [verb : {"USER"}, user : UserArgs]
    \cup [verb : {"PASS"}, pass : PassArgs]
    \cup [verb : {"REST"}, rest : RestArgs]
    \cup [verb : {"SIZE", "RETR"}, file : Files]
    \cup [verb : {"STOR", "APPE"}, file : Files, payload : Payloads]

\* NULL stands for no command.
ASSUME CommandNullAssumption == NULL \notin Command

Block == Seq(Byte)

SignalTasks == {"CTRL_ACCEPT", "DATA_ACCEPT", "STOR_START", "TRANS_OK",
                "DISCONN", "CONN_ERR"}

SessionTask ==
  [fd : Fds, action : SignalTasks]
    \cup [fd : Fds, action : {"READ"}, buf : Seq(Command) \ {<<>>}]
    \cup [fd : Fds, action : {"PASV"}, port : Ports]

DiskTask ==
  [fd : Fds, action : {"INDEX_START", "WRITE_DONE"}]
    \cup [fd : Fds, action : {"STOR_START", "RETR_START"},
          path : Files \cup {NULL}, rest : Nat]
    \cup [fd : Fds, action : {"STORING", "STOR_OK"}, data : Block]

ReplyCodes == {150, 200, 211, 213, 215, 220, 226, 227, 230, 250, 257, 331,
               350, 425, 500, 501, 502, 504, 530, 550, 554}
Reply == [code : ReplyCodes, port : Ports \cup {NULL}]

Notification ==
  [fd : Fds, action : {"CTRL_WRITE", "TRANS_OK"}, reply : Reply]
    \cup [fd : Fds, action : {"PASV"}]
    \cup [fd : Fds, action : {"DATA_WRITE"}, data : Block]

Faults == {"none", "null_client", "null_user_info", "bad_alloc",
           "buffer_exit", "disk_index", "event_active"}

PoolTypeOK ==
  /\ session_pool \in [SessionThreads -> Seq(SessionTask)]
  /\ disk_pool \in [DiskThreads -> Seq(DiskTask)]
  /\ notify_pipe \in Seq(Notification)
  /\ fault \in Faults

PoolInit ==
  /\ session_pool = [t \in SessionThreads |-> <<>>]
  /\ disk_pool = [t \in DiskThreads |-> <<>>]
  /\ notify_pipe = <<>>
  /\ fault = "none"

-----------------------------------------------------------------------------
(* Posting.  post_to_disk indexes the disk threads with an index computed  *)
(* from the session threads: beyond the array the store is undefined       *)
(* behaviour, which the model records as the death of the process.         *)

post_to_session(task) ==
  session_pool' = [session_pool EXCEPT ![ThreadOf(task.fd)] = Append(@, task)]

post_to_disk(task) ==
  LET i == ThreadOf(task.fd)
  IN  IF i \in DiskThreads
      THEN disk_pool' = [disk_pool EXCEPT ![i] = Append(@, task)] /\ fault' = fault
      ELSE fault' = "disk_index" /\ disk_pool' = disk_pool

\* The write end blocks while the socketpair is full.
notify(record) ==
  /\ Len(notify_pipe) < PipeCap
  /\ notify_pipe' = Append(notify_pipe, record)

Post(fd, code, port) ==
  notify([fd |-> fd, action |-> "CTRL_WRITE",
          reply |-> [code |-> code, port |-> port]])

PostTransferOk(fd, code) ==
  notify([fd |-> fd, action |-> "TRANS_OK",
          reply |-> [code |-> code, port |-> NULL]])

PasvPost(fd) == notify([fd |-> fd, action |-> "PASV"])

DataPost(fd, data) ==
  notify([fd |-> fd, action |-> "DATA_WRITE", data |-> data])

\* A thread of a pool takes the first task of its own queue.
SessionTake(t, action) ==
  /\ session_pool[t] # <<>>
  /\ Head(session_pool[t]).action = action
  /\ session_pool' = [session_pool EXCEPT ![t] = Tail(@)]

DiskTake(t, action) ==
  /\ disk_pool[t] # <<>>
  /\ Head(disk_pool[t]).action = action
  /\ disk_pool' = [disk_pool EXCEPT ![t] = Tail(@)]
=============================================================================
