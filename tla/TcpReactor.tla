------------------------------ MODULE TcpReactor ------------------------------
(***************************************************************************)
(* The reactor thread: the libevent callbacks of TCP_ctrl_event.cpp and    *)
(* TCP_data_event.cpp, one action each, and the sockets they work on.      *)
(*                                                                         *)
(* libevent works in rounds: it waits until some added event is ready,     *)
(* collects all that are, and runs their callbacks before it looks again   *)
(* (event_dispatch of libevent 1.4, which README.md:22 names).  A callback *)
(* whose event is deleted meanwhile is dropped from the round.  Data       *)
(* sockets are named by the port of their listener.                        *)
(***************************************************************************)
EXTENDS TaskPools

CONSTANTS
  FILEBUFWTIRESIZE,  \* common_def.h: fill level at which a buffer is flushed
  DATASIZE,          \* common_def.h: most bytes one data read returns
  Scripts,           \* socket -> what its clients may mean to say: sequences of commands
  SlowData,          \* may a data socket take part of a block, or EAGAIN?
  SlowCtrl,          \* may a control socket be full for a while?
  Timeouts           \* may a client be silent for client_life seconds?

ASSUME ReactorAssumption ==
  /\ FILEBUFWTIRESIZE \in Nat \ {0} /\ DATASIZE \in Nat \ {0}
  /\ FILEBUFSIZE = FILEBUFWTIRESIZE + DATASIZE
  /\ Scripts \in [Fds -> SUBSET Seq(Command)]
  /\ SlowData \in BOOLEAN /\ SlowCtrl \in BOOLEAN /\ Timeouts \in BOOLEAN

VARIABLES
  clients,    \* control socket -> its TCP_client, or NULL
  peers,      \* control socket -> the connection's far end, or NULL
  data_sock,  \* port -> the listener and connection on it
  backlog,    \* clients that have yet to connect
  errno_again, \* the reactor's errno still says EAGAIN
  ready       \* callbacks of this round that have not run

reactorVars == <<clients, peers, data_sock, backlog, errno_again, ready>>

\* The ev_ fields say which events are added: event_data_accept on a listener,
\* ev_write and event_data_write on the client's control and data socket.
TCP_client ==
  [listen_fd : Ports \cup {NULL}, data_fd : Ports \cup {NULL},
   ev_data_accept : Ports \cup {NULL}, write_q : Seq(Reply), ev_write : BOOLEAN,
   data_write_q : Seq(Block), ev_data_write : BOOLEAN, file_buffer : Block]

NewClient ==
  [listen_fd |-> NULL, data_fd |-> NULL, ev_data_accept |-> NULL,
   write_q |-> <<>>, ev_write |-> FALSE, data_write_q |-> <<>>, ev_data_write |-> FALSE, file_buffer |-> <<>>]

\* A null pointer is no client.
ASSUME ClientNullAssumption == NULL \notin TCP_client

CtrlEvents == {"read", "write"}
DataEvents == {"data_accept", "data_read", "data_write"}
Callbacks  == {<<"accept">>, <<"notify">>} \cup ((CtrlEvents \cup DataEvents) \X Fds)

\* The far end of a control connection: what it sent and has not been read,
\* what it was sent and has not read, and what its user still wants to do.
Peer ==
  [inq : Seq(Command), outq : Seq(Reply), st : {"open", "fin", "reset"},
   todo : Seq(Command), wait : Nat, port : Ports \cup {NULL},
   xfer : Command \cup {NULL}, started : BOOLEAN, left : Block]

NewPeer(script) ==
  [inq |-> <<>>, outq |-> <<>>, st |-> "open", todo |-> script, wait |-> 1,
   port |-> NULL, xfer |-> NULL, started |-> FALSE, left |-> <<>>]

\* st: of the server's side; peer: of the client's end of the connection.
DataSock ==
  [st : {"free", "listening", "connecting", "accepted", "closed"},
   peer : {"none", "open", "fin", "reset"}, inq : Block, out : Block]

ReactorTypeOK ==
  /\ clients \in [Fds -> TCP_client \cup {NULL}]
  /\ peers \in [Fds -> Peer \cup {NULL}]
  /\ data_sock \in [Ports -> DataSock]
  /\ backlog \in Nat
  /\ errno_again \in BOOLEAN
  /\ ready \subseteq Callbacks

\* Every callback left in a round finds what it works on, although callbacks
\* and notifications before it in the round delete clients and close their
\* sockets: the events of what was deleted are gone from the round
\* (event_del in clear_ctrlfd, clear_datafd and ~TCP_client).
CallbacksValid ==
  /\ <<"accept">> \in ready => backlog > 0
  /\ <<"notify">> \in ready => notify_pipe # <<>>
  /\ \A fd \in Fds :
       /\ \A e \in CtrlEvents \cup DataEvents : <<e, fd>> \in ready => clients[fd] # NULL
       /\ <<"write", fd>> \in ready => clients[fd].ev_write /\ clients[fd].write_q # <<>>
       /\ <<"data_accept", fd>> \in ready => clients[fd].ev_data_accept # NULL
       /\ <<"data_read", fd>> \in ready => clients[fd].data_fd # NULL
       /\ <<"data_write", fd>> \in ready => clients[fd].data_fd # NULL

FreeSock == [st |-> "free", peer |-> "none", inq |-> <<>>, out |-> <<>>]

-----------------------------------------------------------------------------

Held(fd) == {clients[fd].listen_fd, clients[fd].data_fd} \ {NULL}

\* What closing the listener and the data connection does to the sockets.
\* A connection nobody accepted yet goes with its listener.
ClosedSocks(fd) ==
  [p \in Ports |-> IF p \in Held(fd) THEN [data_sock[p] EXCEPT !.st = "closed"]
                                     ELSE data_sock[p]]

\* clear_datafd leaves data_write_q and file_buffer as they are.
clear_datafd(c) ==
  [c EXCEPT !.listen_fd = NULL, !.data_fd = NULL, !.ev_data_accept = NULL,
            !.ev_data_write = FALSE]

SetClient(fd, c) == clients' = [clients EXCEPT ![fd] = c]

\* The round goes on: cb has run, and the events of gone were deleted.
Ran(cb, gone) == cb \in ready /\ ready' = ready \ ({cb} \cup gone)

\* event_del drops these from the round.  It is written inside LOG(DEBUG, ...)
\* and evaluated because conf/log4cplus.ftp_server.conf.release logs DEBUG.
DataEventsOf(fd) == DataEvents \X {fd}
EventsOf(fd)     == (CtrlEvents \cup DataEvents) \X {fd}

\* event_set makes an event new, even one the round has yet to run.  libevent
\* gives up when it comes to such a callback (event_queue_remove ends the
\* process, event_del goes round for ever).
event_set(callbacks) ==
  fault' = IF callbacks \cap ready # {} THEN "event_active" ELSE fault

\* del_client runs the destructor: every socket of the client is closed.
del_client(fd) ==
  /\ clients' = [clients EXCEPT ![fd] = NULL]
  /\ data_sock' = ClosedSocks(fd)
  /\ peers' = [peers EXCEPT ![fd] = NULL]

Signal(fd, action) == post_to_session([fd |-> fd, action |-> action])

-----------------------------------------------------------------------------
(* A new round.  Control sockets are writable unless SlowCtrl; the data    *)
(* socket of a slow client shows as a short write.  A connection waits in  *)
(* the backlog while every number of Fds is taken (a bound of the model).  *)

Readable(fd) == peers[fd].inq # <<>> \/ peers[fd].st # "open"

DataReadable(p) == data_sock[p].inq # <<>> \/ data_sock[p].peer \in {"fin", "reset"}

ReadyNow ==
  LET On(fd) == clients[fd] # NULL IN
  (IF backlog > 0 /\ \E fd \in Fds : ~On(fd) THEN {<<"accept">>} ELSE {})
    \cup (IF notify_pipe # <<>> THEN {<<"notify">>} ELSE {})
    \cup {<<"read", fd>> : fd \in {f \in Fds : On(f) /\ Readable(f)}}
    \cup {<<"write", fd>> : fd \in {f \in Fds : On(f) /\ clients[f].ev_write}}
    \cup {<<"data_accept", fd>> : fd \in {f \in Fds :
            /\ On(f) /\ clients[f].ev_data_accept # NULL
            /\ data_sock[clients[f].ev_data_accept].st = "connecting"}}
    \cup {<<"data_read", fd>> : fd \in {f \in Fds :
            On(f) /\ clients[f].data_fd # NULL /\ DataReadable(clients[f].data_fd)}}
    \cup {<<"data_write", fd>> : fd \in {f \in Fds :
            On(f) /\ clients[f].data_fd # NULL /\ clients[f].ev_data_write}}

Poll ==
  /\ ready = {}
  /\ \E full \in SUBSET (IF SlowCtrl THEN {"write"} \X Fds ELSE {}) :
       ready' = ReadyNow \ full
  /\ ready' # {}
  /\ UNCHANGED <<poolVars, clients, peers, data_sock, backlog, errno_again>>

-----------------------------------------------------------------------------
(* Control connection.                                                     *)

on_accept(fd) ==
  /\ Ran(<<"accept">>, {})
  /\ clients[fd] = NULL
  /\ backlog' = backlog - 1
  /\ SetClient(fd, NewClient)
  /\ \E script \in Scripts[fd] : peers' = [peers EXCEPT ![fd] = NewPeer(script)]
  /\ Signal(fd, "CTRL_ACCEPT")
  /\ UNCHANGED <<disk_pool, notify_pipe, fault, data_sock, errno_again>>

\* One read takes all the lines that have arrived; none and the end of the
\* stream is DISCONN, an error CONN_ERR.
on_read_lines(fd) ==
  /\ Ran(<<"read", fd>>, {})
  /\ peers[fd].st # "reset" /\ peers[fd].inq # <<>>
  /\ peers' = [peers EXCEPT ![fd].inq = <<>>]
  /\ post_to_session([fd |-> fd, action |-> "READ", buf |-> peers[fd].inq])
  /\ UNCHANGED <<disk_pool, notify_pipe, fault, clients, data_sock, backlog, errno_again>>

\* Mutant: the log level is above DEBUG, and no event_del is evaluated.
on_read_gone_leaves(fd) ==
  /\ Ran(<<"read", fd>>, {})
  /\ \/ peers[fd].st = "fin" /\ peers[fd].inq = <<>> /\ Signal(fd, "DISCONN")
     \/ peers[fd].st = "reset" /\ Signal(fd, "CONN_ERR")
  /\ del_client(fd)
  /\ UNCHANGED <<disk_pool, notify_pipe, fault, backlog, errno_again>>

\* The far end closed or reset: the client and its events go first.
on_read_gone(fd) ==
  /\ Ran(<<"read", fd>>, EventsOf(fd))
  /\ \/ /\ peers[fd].st = "fin" /\ peers[fd].inq = <<>>
        /\ Signal(fd, "DISCONN")
        /\ errno_again' = errno_again
     \/ /\ peers[fd].st = "reset"
        /\ Signal(fd, "CONN_ERR")
        /\ errno_again' = FALSE
  /\ del_client(fd)
  /\ UNCHANGED <<disk_pool, notify_pipe, fault, backlog>>

\* One buffer per firing, and the event is not added again for the next one.
on_write(fd) ==
  LET c == clients[fd] IN
  /\ Ran(<<"write", fd>>, {})
  /\ peers[fd].st # "reset"
  /\ SetClient(fd, [c EXCEPT !.write_q = Tail(@), !.ev_write = FALSE])
  /\ peers' = [peers EXCEPT ![fd].outq = Append(@, Head(c.write_q))]
  /\ UNCHANGED <<poolVars, data_sock, backlog, errno_again>>

on_write_error(fd) ==
  /\ Ran(<<"write", fd>>, EventsOf(fd))
  /\ peers[fd].st = "reset"
  /\ del_client(fd)
  /\ Signal(fd, "CONN_ERR")
  /\ errno_again' = FALSE
  /\ UNCHANGED <<disk_pool, notify_pipe, fault, backlog>>

\* The timer runs behind the callbacks of its round and deletes the expired
\* clients, any number of them: one step for each.
on_timeout(fd) ==
  /\ Timeouts
  /\ ready = {}
  /\ clients[fd] # NULL
  /\ del_client(fd)
  /\ Signal(fd, "DISCONN")
  /\ UNCHANGED <<disk_pool, notify_pipe, fault, backlog, errno_again, ready>>

-----------------------------------------------------------------------------
(* on_notify reads one record of the socketpair.                           *)

Notified(action, gone) ==
  /\ Ran(<<"notify">>, gone)
  /\ Head(notify_pipe).action = action
  /\ clients[Head(notify_pipe).fd] # NULL
  /\ notify_pipe' = Tail(notify_pipe)

\* update_last_access comes before the test of the client it is called on.
on_notify_null ==
  /\ Ran(<<"notify">>, {})
  /\ clients[Head(notify_pipe).fd] = NULL
  /\ notify_pipe' = Tail(notify_pipe)
  /\ fault' = "null_client"
  /\ UNCHANGED <<session_pool, disk_pool, clients, peers, data_sock, backlog, errno_again>>

Queued(c, reply) == [c EXCEPT !.write_q = Append(@, reply), !.ev_write = TRUE]

on_notify_ctrl_write ==
  LET n == Head(notify_pipe) IN
  /\ Notified("CTRL_WRITE", {})
  /\ SetClient(n.fd, Queued(clients[n.fd], n.reply))
  /\ UNCHANGED <<session_pool, disk_pool, fault, peers, data_sock, backlog, errno_again>>

\* Mutant: the data connection is not closed.
on_notify_trans_ok_keeps ==
  LET n == Head(notify_pipe) IN
  /\ Notified("TRANS_OK", {})
  /\ SetClient(n.fd, Queued(clients[n.fd], n.reply))
  /\ UNCHANGED <<session_pool, disk_pool, fault, peers, data_sock, backlog, errno_again>>

on_notify_trans_ok ==
  LET n == Head(notify_pipe) IN
  /\ Notified("TRANS_OK", DataEventsOf(n.fd))
  /\ SetClient(n.fd, clear_datafd(Queued(clients[n.fd], n.reply)))
  /\ data_sock' = ClosedSocks(n.fd)
  /\ UNCHANGED <<session_pool, disk_pool, fault, peers, backlog, errno_again>>

InRange(p) == start_port <= p /\ p <= end_port
FreePorts  == {p \in Ports : data_sock[p].st = "free"}
Listening(ports) ==
  [p \in Ports |-> IF p \in ports THEN [data_sock[p] EXCEPT !.st = "listening"]
                                  ELSE data_sock[p]]

\* Mutant: a client that has a listener keeps it.
on_notify_pasv_first ==
  LET fd == Head(notify_pipe).fd
      c  == clients[fd]
  IN
  /\ Notified("PASV", {})
  /\ \E port \in {p \in FreePorts : InRange(p)} :
       /\ data_sock' = Listening({port})
       /\ SetClient(fd, [c EXCEPT !.listen_fd = IF @ = NULL THEN port ELSE @,
                                  !.ev_data_accept = IF @ = NULL THEN port ELSE @])
       /\ post_to_session([fd |-> fd, action |-> "PASV", port |-> port])
  /\ UNCHANGED <<disk_pool, fault, peers, backlog, errno_again>>

\* get_free_port until the port is in range.  Every port it gets becomes the
\* client's listener at once: the refused ones, and a listener the client had
\* before, are forgotten and stay open.  When no port is left nobody is told,
\* and event_data_accept stays with the listener it was added for.
on_notify_pasv ==
  LET fd == Head(notify_pipe).fd
      c  == clients[fd]
  IN
  /\ Notified("PASV", {})
  /\ \/ \E refused \in SUBSET {p \in FreePorts : ~InRange(p)},
           port \in {p \in FreePorts : InRange(p)} :
          /\ data_sock' = Listening(refused \cup {port})
          /\ SetClient(fd, [c EXCEPT !.listen_fd = port, !.ev_data_accept = port])
          /\ event_set({<<"data_accept", fd>>})
          /\ post_to_session([fd |-> fd, action |-> "PASV", port |-> port])
     \/ /\ \A p \in FreePorts : ~InRange(p)
        /\ IF FreePorts = {} THEN UNCHANGED <<clients, data_sock>>
           ELSE \E last \in FreePorts :
                  /\ data_sock' = Listening(FreePorts)
                  /\ SetClient(fd, [c EXCEPT !.listen_fd = last])
        /\ UNCHANGED <<session_pool, fault>>
  /\ UNCHANGED <<disk_pool, peers, backlog, errno_again>>

\* Without a data socket event_add fails: the block waits in the queue.
on_notify_data_write ==
  LET n == Head(notify_pipe)
      c == clients[n.fd]
  IN
  /\ Notified("DATA_WRITE", {})
  /\ SetClient(n.fd, [c EXCEPT !.data_write_q = Append(@, n.data),
                               !.ev_data_write = c.data_fd # NULL])
  /\ UNCHANGED <<session_pool, disk_pool, fault, peers, data_sock, backlog, errno_again>>

-----------------------------------------------------------------------------
(* Data connection.                                                        *)

data_accept(fd) ==
  LET c == clients[fd] IN
  /\ Ran(<<"data_accept", fd>>, {})
  /\ data_sock' = [data_sock EXCEPT ![c.ev_data_accept].st = "accepted"]
  /\ SetClient(fd, [c EXCEPT !.data_fd = c.ev_data_accept, !.ev_data_write = FALSE])
  /\ event_set({<<"data_read", fd>>, <<"data_write", fd>>})
  /\ Signal(fd, "DATA_ACCEPT")
  /\ UNCHANGED <<disk_pool, notify_pipe, peers, backlog, errno_again>>

\* Mutant: the buffer is not cleared when it has gone to the disk pool.
data_read_data_full(fd) ==
  LET c    == clients[fd]
      d    == data_sock[c.data_fd]
      n    == IF Len(d.inq) < DATASIZE THEN Len(d.inq) ELSE DATASIZE
      full == c.file_buffer \o SubSeq(d.inq, 1, n)
  IN
  /\ Ran(<<"data_read", fd>>, {})
  /\ d.peer # "reset" /\ d.inq # <<>>
  /\ data_sock' = [data_sock EXCEPT ![c.data_fd].inq = SubSeq(@, n + 1, Len(@))]
  /\ SetClient(fd, [c EXCEPT !.file_buffer = full])
  /\ IF Len(full) <= FILEBUFWTIRESIZE THEN UNCHANGED <<disk_pool, fault>>
     ELSE post_to_disk([fd |-> fd, action |-> "STORING", data |-> full])
  /\ UNCHANGED <<session_pool, notify_pipe, peers, backlog, errno_again>>

\* The read of data_read comes out as data, as an end or as an error.  Data
\* is added to the buffer; a buffer above the mark goes to the disk pool.
data_read_data(fd) ==
  LET c    == clients[fd]
      d    == data_sock[c.data_fd]
      n    == IF Len(d.inq) < DATASIZE THEN Len(d.inq) ELSE DATASIZE
      full == c.file_buffer \o SubSeq(d.inq, 1, n)
  IN
  /\ Ran(<<"data_read", fd>>, {})
  /\ d.peer # "reset" /\ d.inq # <<>>
  /\ data_sock' = [data_sock EXCEPT ![c.data_fd].inq = SubSeq(@, n + 1, Len(@))]
  /\ IF Len(c.file_buffer) > FILEBUFWTIRESIZE
     THEN fault' = "buffer_exit" /\ UNCHANGED <<clients, disk_pool>>
     ELSE IF Len(full) <= FILEBUFWTIRESIZE
     THEN SetClient(fd, [c EXCEPT !.file_buffer = full]) /\ UNCHANGED <<disk_pool, fault>>
     ELSE /\ SetClient(fd, [c EXCEPT !.file_buffer = <<>>])
          /\ post_to_disk([fd |-> fd, action |-> "STORING", data |-> full])
  /\ UNCHANGED <<session_pool, notify_pipe, peers, backlog, errno_again>>

\* Mutant: clear_data runs before the buffer is copied into the task.
data_read_end_cleared(fd) ==
  LET c == clients[fd] IN
  /\ Ran(<<"data_read", fd>>, DataEventsOf(fd))
  /\ data_sock[c.data_fd].peer = "fin" /\ data_sock[c.data_fd].inq = <<>>
  /\ post_to_disk([fd |-> fd, action |-> "STOR_OK", data |-> <<>>])
  /\ SetClient(fd, clear_datafd([c EXCEPT !.file_buffer = <<>>]))
  /\ data_sock' = ClosedSocks(fd)
  /\ UNCHANGED <<session_pool, notify_pipe, peers, backlog, errno_again>>

\* Mutant: the end of the data connection deletes the client.
data_read_end_deletes(fd) ==
  /\ Ran(<<"data_read", fd>>, EventsOf(fd))
  /\ data_sock[clients[fd].data_fd].peer = "fin"
  /\ data_sock[clients[fd].data_fd].inq = <<>>
  /\ post_to_disk([fd |-> fd, action |-> "STOR_OK", data |-> clients[fd].file_buffer])
  /\ del_client(fd)
  /\ UNCHANGED <<session_pool, notify_pipe, backlog, errno_again>>

\* The client closed: what is in the buffer is the end of the upload, even
\* when the connection served a download.  A stale errno hides the end.
data_read_end(fd) ==
  LET c == clients[fd] IN
  /\ <<"data_read", fd>> \in ready
  /\ data_sock[c.data_fd].peer = "fin" /\ data_sock[c.data_fd].inq = <<>>
  /\ \/ /\ ~errno_again
        /\ Ran(<<"data_read", fd>>, DataEventsOf(fd))
        /\ post_to_disk([fd |-> fd, action |-> "STOR_OK", data |-> c.file_buffer])
        /\ SetClient(fd, clear_datafd([c EXCEPT !.file_buffer = <<>>]))
        /\ data_sock' = ClosedSocks(fd)
     \/ /\ errno_again
        /\ Ran(<<"data_read", fd>>, {})
        /\ UNCHANGED <<disk_pool, fault, clients, data_sock>>
  /\ UNCHANGED <<session_pool, notify_pipe, peers, backlog, errno_again>>

data_read_error(fd) ==
  LET c == clients[fd] IN
  /\ Ran(<<"data_read", fd>>, DataEventsOf(fd))
  /\ data_sock[c.data_fd].peer = "reset"
  /\ SetClient(fd, clear_datafd(c))
  /\ data_sock' = ClosedSocks(fd)
  /\ errno_again' = FALSE
  /\ UNCHANGED <<poolVars, peers, backlog>>

\* Mutant: the block that was written stays in the queue.
data_write_keeps(fd) ==
  LET c == clients[fd] IN
  /\ Ran(<<"data_write", fd>>, {})
  /\ c.data_write_q # <<>>
  /\ data_sock[c.data_fd].peer # "reset"
  /\ data_sock' = [data_sock EXCEPT ![c.data_fd].out = @ \o Head(c.data_write_q)]
  /\ SetClient(fd, [c EXCEPT !.ev_data_write = FALSE])
  /\ post_to_disk([fd |-> fd, action |-> "WRITE_DONE"])
  /\ UNCHANGED <<session_pool, notify_pipe, peers, backlog, errno_again>>

data_write(fd) ==
  LET c == clients[fd] IN
  /\ Ran(<<"data_write", fd>>, {})
  /\ c.data_write_q # <<>>
  /\ data_sock[c.data_fd].peer # "reset"
  /\ data_sock' = [data_sock EXCEPT ![c.data_fd].out = @ \o Head(c.data_write_q)]
  /\ SetClient(fd, [c EXCEPT !.data_write_q = Tail(@), !.ev_data_write = FALSE])
  /\ post_to_disk([fd |-> fd, action |-> "WRITE_DONE"])
  /\ UNCHANGED <<session_pool, notify_pipe, peers, backlog, errno_again>>

\* The socket takes part of the block, or nothing: the event is added again.
data_write_part(fd) ==
  LET c     == clients[fd]
      block == Head(c.data_write_q)
  IN
  /\ Ran(<<"data_write", fd>>, {})
  /\ SlowData
  /\ c.data_write_q # <<>>
  /\ data_sock[c.data_fd].peer # "reset"
  /\ \E n \in 0 .. Len(block) - 1 :
       /\ data_sock' = [data_sock EXCEPT ![c.data_fd].out = @ \o SubSeq(block, 1, n)]
       /\ SetClient(fd, [c EXCEPT !.data_write_q =
                           <<SubSeq(block, n + 1, Len(block))>> \o Tail(@)])
       /\ errno_again' = (errno_again \/ n = 0)
  /\ UNCHANGED <<poolVars, peers, backlog>>

\* Nothing queued, or the write fails: the block stays, the event is gone.
data_write_nothing(fd) ==
  LET c == clients[fd] IN
  /\ Ran(<<"data_write", fd>>, {})
  /\ c.data_write_q = <<>> \/ data_sock[c.data_fd].peer # "open"
  /\ SetClient(fd, [c EXCEPT !.ev_data_write = FALSE])
  /\ errno_again' = (errno_again /\ c.data_write_q = <<>>)
  /\ UNCHANGED <<poolVars, peers, data_sock, backlog>>

-----------------------------------------------------------------------------

ReactorInit(connections) ==
  /\ clients = [fd \in Fds |-> NULL]
  /\ peers = [fd \in Fds |-> NULL]
  /\ data_sock = [p \in Ports |-> FreeSock]
  /\ backlog = connections
  /\ errno_again = FALSE
  /\ ready = {}

CtrlStep(fd) ==
  \/ on_accept(fd)
  \/ on_read_lines(fd)
  \/ on_read_gone(fd)
  \/ on_write(fd)
  \/ on_write_error(fd)

NotifyStep ==
  \/ on_notify_null
  \/ on_notify_ctrl_write
  \/ on_notify_trans_ok
  \/ on_notify_pasv
  \/ on_notify_data_write

DataStep(fd) ==
  \/ data_accept(fd)
  \/ data_read_data(fd)
  \/ data_read_end(fd)
  \/ data_read_error(fd)
  \/ data_write(fd)
  \/ data_write_part(fd)
  \/ data_write_nothing(fd)

\* The event loop, without its timer.
DispatchStep ==
  \/ Poll
  \/ NotifyStep
  \/ \E fd \in Fds : CtrlStep(fd) \/ DataStep(fd)

ReactorStep == DispatchStep \/ \E fd \in Fds : on_timeout(fd)
=============================================================================
