------------------------------ MODULE FtpClient ------------------------------
(***************************************************************************)
(* The clients, which are not in this repository: what a server has to     *)
(* expect at its sockets.  A client works off a script of commands.  The   *)
(* orderly client (Habits = {}) sends one command at a time and waits for  *)
(* its answer; it sends a transfer command only with the port of a fresh   *)
(* 227, connects once the server has read that command, uploads after the  *)
(* 150, closes the data connection when the upload is complete, and keeps  *)
(* the control connection open.  Each habit lifts one of these promises.   *)
(***************************************************************************)
EXTENDS TcpReactor

CONSTANT Habits

AllHabits ==
  {"pipeline",       \* sends the next command without waiting
   "no_pasv",        \* sends a transfer command without a port
   "early_connect",  \* connects before the transfer command is read
   "early_data",     \* uploads before the 150
   "abort",          \* closes the data connection of a download
   "reset_data",     \* resets a data connection
   "quit",           \* closes the control connection
   "reset_ctrl"}     \* resets the control connection

ASSUME HabitAssumption == Habits \subseteq AllHabits

Uploads   == {"STOR", "APPE"}
Downloads == {"RETR", "LIST"}
Transfers == Uploads \cup Downloads

SetPeer(fd, peer) == peers' = [peers EXCEPT ![fd] = peer]

Alive(fd) == peers[fd] # NULL /\ peers[fd].st = "open"

\* The data connection of the transfer in hand.
Dial(fd) == data_sock[peers[fd].port]

ClientSend(fd) ==
  LET me == peers[fd]
      c  == Head(me.todo)
  IN
  /\ Alive(fd) /\ me.todo # <<>>
  /\ me.wait = 0 \/ "pipeline" \in Habits
  /\ c.verb \in Transfers /\ "no_pasv" \notin Habits => me.port # NULL
  /\ SetPeer(fd, [me EXCEPT !.inq = Append(@, c), !.todo = Tail(@), !.wait = @ + 1,
                            !.xfer = IF c.verb \in Transfers THEN c ELSE @,
                            !.started = IF c.verb \in Transfers THEN FALSE ELSE @,
                            !.left = IF c.verb \in Uploads THEN c.payload ELSE @])
  /\ UNCHANGED data_sock

\* 150 announces another answer; 227 brings a port; any other answer ends
\* the command, and with it the transfer and its port.
ClientReceive(fd) ==
  LET me       == peers[fd]
      r        == Head(me.outq)
      read     == [me EXCEPT !.outq = Tail(@)]
      answered == [read EXCEPT !.wait = IF @ > 0 THEN @ - 1 ELSE 0]
  IN
  /\ Alive(fd) /\ me.outq # <<>>
  /\ \/ /\ r.code = 150
        /\ SetPeer(fd, [read EXCEPT !.started = TRUE])
        /\ UNCHANGED data_sock
     \/ /\ r.code = 227
        /\ SetPeer(fd, [answered EXCEPT !.port = r.port])
        /\ UNCHANGED data_sock
     \/ /\ r.code \notin {150, 227}
        /\ SetPeer(fd, [answered EXCEPT !.xfer = NULL,
                                        !.port = IF me.xfer = NULL THEN @ ELSE NULL])
        /\ data_sock' = IF me.xfer # NULL /\ me.port # NULL /\ Dial(fd).peer = "open"
                        THEN [data_sock EXCEPT ![me.port].peer = "fin"] ELSE data_sock

ClientConnect(fd) ==
  LET me == peers[fd] IN
  /\ Alive(fd) /\ me.port # NULL
  /\ \/ me.xfer # NULL /\ me.inq = <<>>
     \/ "early_connect" \in Habits
  /\ Dial(fd).st = "listening" /\ Dial(fd).peer = "none"
  /\ data_sock' = [data_sock EXCEPT ![me.port].st = "connecting", ![me.port].peer = "open"]
  /\ UNCHANGED peers

Uploading(fd) ==
  /\ Alive(fd) /\ peers[fd].xfer # NULL /\ peers[fd].xfer.verb \in Uploads
  /\ peers[fd].port # NULL /\ Dial(fd).peer = "open"
  /\ peers[fd].started \/ "early_data" \in Habits

ClientUpload(fd) ==
  LET me == peers[fd] IN
  /\ Uploading(fd) /\ me.left # <<>>
  /\ SetPeer(fd, [me EXCEPT !.left = Tail(@)])
  /\ data_sock' = [data_sock EXCEPT ![me.port].inq = Append(@, Head(me.left))]

ClientUploadEnd(fd) ==
  LET me == peers[fd] IN
  /\ Uploading(fd) /\ me.left = <<>>
  /\ data_sock' = [data_sock EXCEPT ![me.port].peer = "fin"]
  /\ UNCHANGED peers

ClientAbort(fd) ==
  LET me == peers[fd] IN
  /\ Alive(fd) /\ me.port # NULL /\ Dial(fd).peer = "open"
  /\ \/ "abort" \in Habits /\ data_sock' = [data_sock EXCEPT ![me.port].peer = "fin"]
     \/ "reset_data" \in Habits /\ data_sock' = [data_sock EXCEPT ![me.port].peer = "reset"]
  /\ UNCHANGED peers

ClientQuit(fd) ==
  /\ Alive(fd)
  /\ \/ "quit" \in Habits /\ SetPeer(fd, [peers[fd] EXCEPT !.st = "fin"])
     \/ "reset_ctrl" \in Habits /\ SetPeer(fd, [peers[fd] EXCEPT !.st = "reset"])
  /\ UNCHANGED data_sock

\* What an orderly client does sooner or later.
ClientProgress(fd) ==
  /\ \/ ClientSend(fd)
     \/ ClientReceive(fd)
     \/ ClientConnect(fd)
     \/ ClientUpload(fd)
     \/ ClientUploadEnd(fd)
  /\ UNCHANGED <<poolVars, clients, backlog, errno_again, ready>>

ClientStep ==
  \E fd \in Fds :
    \/ ClientProgress(fd)
    \/ /\ ClientAbort(fd) \/ ClientQuit(fd)
       /\ UNCHANGED <<poolVars, clients, backlog, errno_again, ready>>
=============================================================================
