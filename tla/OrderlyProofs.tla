---------------------------- MODULE OrderlyProofs ----------------------------
(***************************************************************************)
(* Clients that keep the rules (Habits = {}, and no timeout): what the     *)
(* three kinds of thread have of a client at any moment fits together,     *)
(* proved for every script, thread count, port range, file and block size. *)
(*                                                                         *)
(* The inductive invariant Orderly is a conjunction of parts, each about   *)
(* one client.  A step is a step for one client, and changes the parts of  *)
(* that client only (Apart).                                               *)
(***************************************************************************)
EXTENDS TypeProofs

Act(f)  == IF sessions[f] = NULL THEN "NONE" ELSE sessions[f].data_action
DAct(f) == IF disks[f] = NULL THEN "NONE" ELSE disks[f].data_action

\* A transfer command waits for its data connection, or is served.
Busy(f) == IF Act(f) \in {"NONE", "DATA_WAITING", "DATA_PASV_OK"} THEN 0 ELSE 1

Serving == {"DATA_INDEX_DOWNLOAD", "DATA_FILE_DOWNLOAD", "DATA_STOR"}

-----------------------------------------------------------------------------
(* Where things are that belong to a client.                               *)

\* A task waits in the queue that ThreadOf says.
Routed ==
  /\ \A t \in SessionThreads : \A x \in Elements(session_pool[t]) : ThreadOf(x.fd) = t
  /\ \A t \in DiskThreads : \A x \in Elements(disk_pool[t]) : ThreadOf(x.fd) = t

\* Nothing exists for a number that no client has had.
Absent(f) ==
  ~Connected(f) =>
    /\ sessions[f] = NULL /\ disks[f] = NULL /\ peers[f] = NULL
    /\ MyTasks(f) = {} /\ MyNotices(f) = {}
    /\ \A a : Work(f, a) = 0

\* A listener nobody connected to yet has seen nothing.
SocksFresh ==
  \A p \in Ports : data_sock[p].st \in {"free", "listening"} =>
    data_sock[p].peer = "none" /\ data_sock[p].inq = <<>>

\* Ports of a 227 on its way to a client.
Told(f) ==
  {n.reply.port :
     n \in {m \in MyNotices(f) : m.action \in {"CTRL_WRITE", "TRANS_OK"} /\ m.reply.code = 227}}
    \cup {r.port : r \in {q \in Elements(clients[f].write_q) \cup Elements(peers[f].outq) :
                            q.code = 227}}

PasvPorts(f) == {x.port : x \in {y \in MyTasks(f) : y.action = "PASV"}}

\* Ports a client may still dial.
Promised(f) == ({peers[f].port} \cup PasvPorts(f) \cup Told(f)) \ {NULL}

\* Ports anything of a client names.
Mentions(f) ==
  (Promised(f) \cup {clients[f].ev_data_accept, clients[f].listen_fd, clients[f].data_fd}) \ {NULL}

\* No port is named for two clients, and none that the kernel may give away.
PortsOwn ==
  \A f \in Fds : Connected(f) =>
    /\ \A p \in Mentions(f) : p \in Ports /\ data_sock[p].st # "free"
    /\ \A g \in Fds : g # f /\ Connected(g) => Mentions(f) \cap Mentions(g) = {}

-----------------------------------------------------------------------------
(* One command, one transfer.                                              *)

\* Tasks and answers of the command a client waits for.
Waits(f)  == Tasks(f, "READ") + Tasks(f, "PASV") + Tasks(f, "CTRL_ACCEPT")
Unread(f) == Len(peers[f].inq)
Ends(f)   == FinalNotices(f) + Finals(clients[f].write_q) + Finals(peers[f].outq)

\* Answers the client waits for.
Awaited(f) == peers[f].wait

\* Where that command can be.
Open(f) == Unread(f) + Waits(f) + Sent(f, "PASV") + Ends(f) + Busy(f)

OneCommand(f) ==
  Connected(f) => peers[f].st = "open" /\ Awaited(f) <= 1 /\ Open(f) <= Awaited(f)

\* A READ task carries one line, and none waits in a session.
OneLine(f) ==
  /\ \A x \in MyTasks(f) : x.action = "READ" => Len(x.buf) = 1
  /\ sessions[f] # NULL => sessions[f].recv_command = <<>>

\* A disk thread holds a file or a directory of f.
Serves(f) == IF disks[f] = NULL THEN 0 ELSE 1

\* What the disk threads have of a transfer, up to the TRANS_OK that ends it.
Starts(f) == Work(f, "INDEX_START") + Work(f, "RETR_START") + Work(f, "STOR_START")
Under(f)  == Starts(f) + Serves(f) + Tasks(f, "TRANS_OK")

OneTransfer(f) == Under(f) <= (IF Act(f) \in Serving THEN 1 ELSE 0)

KindsAgree(f) ==
  /\ Work(f, "INDEX_START") > 0 \/ DAct(f) \in {"DISK_INDEX_LOADING", "DISK_INDEX_FINISH"}
       => Act(f) = "DATA_INDEX_DOWNLOAD"
  /\ Work(f, "RETR_START") > 0 \/ DAct(f) \in {"DISK_RETR_LOADING", "DISK_RETR_FINISH"}
       => Act(f) = "DATA_FILE_DOWNLOAD"
  /\ Work(f, "STOR_START") > 0 \/ DAct(f) \in UploadStates => Act(f) = "DATA_STOR"

Permitted(f) ==
  /\ Act(f) = "DATA_STOR" => sessions[f].upload_per
  /\ Act(f) \in {"DATA_RETR", "DATA_FILE_DOWNLOAD"} => sessions[f].download_per

VerbsOf(act) ==
  IF act \in {"DATA_LIST", "DATA_INDEX_DOWNLOAD"} THEN {"LIST"}
  ELSE IF act \in {"DATA_RETR", "DATA_FILE_DOWNLOAD"} THEN {"RETR"} ELSE Uploads

\* A command on its way is the one the client waits for.
OnItsWay(f, c) == IF peers[f].xfer = NULL THEN c.verb \notin Transfers ELSE c = peers[f].xfer

\* The transfer in hand is the one that is served.
InHand(f) ==
  Connected(f) =>
    /\ peers[f].xfer # NULL =>
         /\ peers[f].xfer.verb \in Transfers /\ peers[f].port # NULL /\ Awaited(f) = 1
         /\ Tasks(f, "PASV") = 0 /\ Sent(f, "PASV") = 0 /\ Told(f) = {}
    /\ Busy(f) = 1 => peers[f].xfer # NULL /\ peers[f].xfer.verb \in VerbsOf(Act(f))
    /\ \A i \in 1 .. Len(peers[f].inq) : OnItsWay(f, peers[f].inq[i])
    /\ \A x \in MyTasks(f) : x.action = "READ" => OnItsWay(f, x.buf[1])

-----------------------------------------------------------------------------
(* The data connection.                                                    *)

Accepts(f) == Tasks(f, "DATA_ACCEPT")

\* A connection waits to be accepted.
Calls(f) ==
  clients[f].ev_data_accept # NULL /\ data_sock[clients[f].ev_data_accept].st = "connecting"

\* A connection is only accepted for the transfer in hand, and once.
Accepting(f) ==
  Connected(f) =>
    /\ <<"data_accept", f>> \in ready => Calls(f)
    /\ peers[f].xfer # NULL =>
         /\ Calls(f) => /\ clients[f].ev_data_accept = peers[f].port
                        /\ data_sock[peers[f].port].peer # "none"
         /\ Calls(f) \/ data_sock[peers[f].port].peer = "none" => Accepts(f) = 0 /\ Under(f) = 0
         /\ Accepts(f) + Under(f) <= 1
    /\ peers[f].xfer = NULL /\ (peers[f].port # NULL \/ Told(f) # {})
         => Accepts(f) = 0 /\ ~Calls(f)
    /\ Tasks(f, "PASV") > 0 => ~Calls(f)
    /\ PasvOrder(f)

\* What a round has seen and what came later.
Rounds(f) ==
  Connected(f) =>
    /\ <<"read", f>> \in ready => peers[f].inq # <<>>
    /\ Calls(f) /\ <<"data_accept", f>> \notin ready =>
         /\ <<"read", f>> \notin ready /\ Sent(f, "PASV") = 0
         /\ \A x \in MyTasks(f) : x.action = "READ" => x.buf[1].verb # "PASV"
    /\ /\ <<"notify">> \in ready
       /\ Head(notify_pipe).action = "PASV" /\ Head(notify_pipe).fd = f
       => <<"data_accept", f>> \notin ready

\* Nothing is read from the data connection of a download.
Quiet(f) ==
  Connected(f) =>
    /\ peers[f].xfer = NULL => \A p \in Promised(f) :
         data_sock[p].inq = <<>> /\ data_sock[p].peer = "none"
    /\ peers[f].xfer # NULL =>
         /\ peers[f].xfer.verb \in Downloads =>
              /\ data_sock[peers[f].port].inq = <<>>
              /\ data_sock[peers[f].port].peer \in {"none", "open"}
         /\ Accepts(f) + Under(f) >= 1 => clients[f].data_fd \in {peers[f].port, NULL}

\* The disk threads get nothing of an upload while they serve a download.
DiskOrder(f) ==
  /\ StartOrder(f)
  /\ DAct(f) \in DownloadStates => Work(f, "STORING") = 0 /\ Work(f, "STOR_OK") = 0

OneBlock(f) ==
  fault = "none" /\ Connected(f) =>
    Sent(f, "DATA_WRITE") + Len(clients[f].data_write_q) + Work(f, "WRITE_DONE")
      = IF DAct(f) \in DownloadStates THEN 1 ELSE 0

Part(f) ==
  /\ Absent(f) /\ OneCommand(f) /\ OneLine(f) /\ OneTransfer(f) /\ KindsAgree(f)
  /\ Permitted(f) /\ InHand(f) /\ Accepting(f) /\ Rounds(f) /\ Quiet(f) /\ DiskOrder(f)
  /\ OneBlock(f)

Orderly ==
  /\ IInv /\ Routed /\ SocksFresh /\ PortsOwn
  /\ \A f \in Fds : Part(f)

-----------------------------------------------------------------------------
(* Steps for other clients.                                                *)

\* A step has nothing to do with f.
Apart(f) ==
  /\ sessions'[f] = sessions[f] /\ disks'[f] = disks[f]
  /\ clients'[f] = clients[f] /\ peers'[f] = peers[f]
  /\ TasksStay(f) /\ WorkStays(f) /\ NoticesStay(f)
  /\ Connected(f) => \A p \in Mentions(f) : data_sock'[p] = data_sock[p]
  /\ \A e : <<e, f>> \in ready' => <<e, f>> \in ready
  /\ <<"data_accept", f>> \in ready => <<"data_accept", f>> \in ready'
  /\ <<"notify">> \in ready' =>
       <<"notify">> \in ready /\ Head(notify_pipe)' = Head(notify_pipe)
  /\ fault' = "none" => fault = "none"

\* What is told and promised depends on what stays.
LEMMA ApartNames ==
  ASSUME NEW f \in Fds, Apart(f)
  PROVE  /\ Act(f)' = Act(f) /\ DAct(f)' = DAct(f) /\ Busy(f)' = Busy(f)
         /\ Connected(f)' = Connected(f)
         /\ Told(f)' = Told(f) /\ Promised(f)' = Promised(f) /\ Mentions(f)' = Mentions(f)
         /\ Accepts(f)' = Accepts(f) /\ Under(f)' = Under(f) /\ Open(f)' = Open(f)
  <1>1. /\ sessions'[f] = sessions[f] /\ disks'[f] = disks[f]
        /\ clients'[f] = clients[f] /\ peers'[f] = peers[f]
        /\ MyTasks(f)' = MyTasks(f) /\ MyNotices(f)' = MyNotices(f)
        /\ \A a : Tasks(f, a)' = Tasks(f, a) /\ Work(f, a)' = Work(f, a) /\ Sent(f, a)' = Sent(f, a)
        /\ FinalNotices(f)' = FinalNotices(f)
    BY DEF Apart, TasksStay, WorkStays, NoticesStay
  <1>2. Act(f)' = Act(f) /\ DAct(f)' = DAct(f) /\ Connected(f)' = Connected(f)
    BY <1>1 DEF Act, DAct, Connected
  <1>3. Busy(f)' = Busy(f)
    BY <1>2 DEF Busy
  <1>4. Told(f)' = Told(f)
    BY <1>1 DEF Told
  <1>5. Promised(f)' = Promised(f)
    BY <1>1, <1>4 DEF Promised, PasvPorts
  <1>6. Mentions(f)' = Mentions(f)
    BY <1>1, <1>5 DEF Mentions
  <1>7. Accepts(f)' = Accepts(f) /\ Under(f)' = Under(f)
    BY <1>1 DEF Accepts, Under, Starts, Serves
  <1>8. Open(f)' = Open(f)
    BY <1>1, <1>3 DEF Open, Unread, Waits, Ends
  <1> QED
    BY <1>2, <1>3, <1>4, <1>5, <1>6, <1>7, <1>8

\* What is known of a client stays true in a step that is apart from it.
LEMMA ApartKeeps ==
  ASSUME NEW f \in Fds, Part(f), Apart(f)
  PROVE  Part(f)'
  <1>1. /\ sessions'[f] = sessions[f] /\ disks'[f] = disks[f]
        /\ clients'[f] = clients[f] /\ peers'[f] = peers[f]
        /\ MyTasks(f)' = MyTasks(f) /\ MyNotices(f)' = MyNotices(f)
        /\ \A a : Tasks(f, a)' = Tasks(f, a) /\ Work(f, a)' = Work(f, a) /\ Sent(f, a)' = Sent(f, a)
        /\ FinalNotices(f)' = FinalNotices(f)
        /\ PasvOrder(f) => PasvOrder(f)'
        /\ StartOrder(f) => StartOrder(f)'
    BY DEF Apart, TasksStay, WorkStays, NoticesStay
  <1>2. /\ Act(f)' = Act(f) /\ DAct(f)' = DAct(f) /\ Busy(f)' = Busy(f)
        /\ Connected(f)' = Connected(f)
        /\ Told(f)' = Told(f) /\ Promised(f)' = Promised(f)
        /\ Accepts(f)' = Accepts(f) /\ Under(f)' = Under(f) /\ Open(f)' = Open(f)
    BY ApartNames
  <1>3. Connected(f) => \A p \in Mentions(f) : data_sock'[p] = data_sock[p]
    BY DEF Apart
  <1>4. /\ \A e : <<e, f>> \in ready' => <<e, f>> \in ready
        /\ <<"data_accept", f>> \in ready => <<"data_accept", f>> \in ready'
        /\ <<"notify">> \in ready' =>
             <<"notify">> \in ready /\ Head(notify_pipe)' = Head(notify_pipe)
        /\ fault' = "none" => fault = "none"
    BY DEF Apart
  <1>5. Connected(f) => (Calls(f)' <=> Calls(f))
    BY <1>1, <1>3 DEF Calls, Mentions
  <1>6. Absent(f)'
    BY <1>1, <1>2 DEF Part, Absent
  <1>7. OneCommand(f)' /\ OneLine(f)' /\ OneTransfer(f)' /\ KindsAgree(f)' /\ Permitted(f)'
    BY <1>1, <1>2 DEF Part, OneCommand, Awaited, OneLine, OneTransfer, KindsAgree, Permitted
  <1>8. InHand(f)'
    BY <1>1, <1>2 DEF Part, InHand, Awaited, OnItsWay
  <1>9. Accepting(f)'
    <2>1. Connected(f) /\ peers[f].port # NULL
            => data_sock'[peers[f].port] = data_sock[peers[f].port]
      BY <1>3 DEF Mentions, Promised
    <2>2. Connected(f) /\ peers[f].xfer # NULL => peers[f].port # NULL
      BY DEF Part, InHand
    <2> QED
      BY <1>1, <1>2, <1>4, <1>5, <2>1, <2>2 DEF Part, Accepting
  <1>10. Rounds(f)'
    BY <1>1, <1>2, <1>4, <1>5 DEF Part, Rounds
  <1>11. Quiet(f)'
    <2>1. Connected(f) /\ peers[f].port # NULL
            => data_sock'[peers[f].port] = data_sock[peers[f].port]
      BY <1>3 DEF Mentions, Promised
    <2>2. Connected(f) /\ peers[f].xfer # NULL => peers[f].port # NULL
      BY DEF Part, InHand
    <2>3. Connected(f) => \A p \in Promised(f) : data_sock'[p] = data_sock[p]
      BY <1>3 DEF Mentions, Promised
    <2> QED
      BY <1>1, <1>2, <2>1, <2>2, <2>3 DEF Part, Quiet
  <1>12. DiskOrder(f)' /\ OneBlock(f)'
    BY <1>1, <1>2, <1>4 DEF Part, DiskOrder, OneBlock
  <1> QED
    BY <1>6, <1>7, <1>8, <1>9, <1>10, <1>11, <1>12 DEF Part

\* Ports only move between the places that name them.
LEMMA PortsKept ==
  ASSUME PortsOwn,
         \A f \in Fds : Connected(f)' => Connected(f) /\ Mentions(f)' \subseteq Mentions(f),
         \A p \in Ports : data_sock[p].st # "free" => data_sock'[p].st # "free"
  PROVE  PortsOwn'
  BY DEF PortsOwn

\* A client that something waits for is connected.
LEMMA TaskConnected ==
  ASSUME NEW f \in Fds, Absent(f), MyTasks(f) # {} \/ MyNotices(f) # {} \/ peers[f] # NULL
                                    \/ sessions[f] # NULL \/ disks[f] # NULL
  PROVE  Connected(f)
  BY DEF Absent

\* Everything that is counted of a client is a number.
OpenNat(f) ==
  /\ Unread(f) \in Nat /\ Waits(f) \in Nat /\ Sent(f, "PASV") \in Nat
  /\ Ends(f) \in Nat /\ Busy(f) \in {0, 1} /\ Open(f) \in Nat /\ Awaited(f) \in Nat

UnderNat(f) ==
  /\ Starts(f) \in Nat /\ Serves(f) \in {0, 1} /\ Tasks(f, "TRANS_OK") \in Nat
  /\ Under(f) \in Nat /\ Accepts(f) \in Nat

LEMMA UnderType ==
  ASSUME IInv, NEW f \in Fds
  PROVE  UnderNat(f)
  <1>1. /\ Work(f, "INDEX_START") \in Nat /\ Work(f, "RETR_START") \in Nat
        /\ Work(f, "STOR_START") \in Nat /\ Tasks(f, "TRANS_OK") \in Nat
        /\ Tasks(f, "DATA_ACCEPT") \in Nat
    BY NumbersType DEF IInv, TypeOK, Numbers
  <1>2. Serves(f) \in {0, 1}
    BY DEF Serves
  <1>3. Starts(f) \in Nat
    BY <1>1 DEF Starts
  <1>4. Under(f) \in Nat
    BY <1>1, <1>2, <1>3 DEF Under
  <1> QED
    BY <1>1, <1>2, <1>3, <1>4 DEF UnderNat, Accepts

LEMMA OpenType ==
  ASSUME IInv, NEW f \in Fds, Connected(f)
  PROVE  OpenNat(f)
  <1>1. /\ Tasks(f, "READ") \in Nat /\ Tasks(f, "PASV") \in Nat
        /\ Tasks(f, "CTRL_ACCEPT") \in Nat /\ Sent(f, "PASV") \in Nat
        /\ FinalNotices(f) \in Nat
    BY NumbersType DEF IInv, TypeOK, Numbers
  <1>2. /\ clients[f].write_q \in Seq(Reply) /\ peers[f].outq \in Seq(Reply)
        /\ peers[f].inq \in Seq(Command) /\ peers[f].wait \in Nat
    BY DEF IInv, TypeOK, ReactorTypeOK, ClientsWhole, Connected, TCP_client, Peer
  <1>3. Finals(clients[f].write_q) \in Nat /\ Finals(peers[f].outq) \in Nat
    BY <1>2, FinalsNone
  <1>4. Waits(f) \in Nat
    BY <1>1 DEF Waits
  <1>5. Ends(f) \in Nat
    BY <1>1, <1>3 DEF Ends
  <1>6. Busy(f) \in {0, 1}
    BY DEF Busy
  <1>7. Unread(f) \in Nat /\ Awaited(f) \in Nat
    BY <1>2 DEF Unread, Awaited
  <1>8. Open(f) \in Nat
    BY <1>1, <1>4, <1>5, <1>6, <1>7 DEF Open
  <1> QED
    BY <1>1, <1>4, <1>5, <1>6, <1>7, <1>8 DEF OpenNat

AllCounted == \A f \in Fds : UnderNat(f) /\ (Connected(f) => OpenNat(f))

LEMMA CountedType == IInv => AllCounted
  BY UnderType, OpenType DEF AllCounted

LEMMA CountedNext == IInv' => AllCounted'
  BY CountedType, PTL

\* What the sums are made of.
LEMMA Parts ==
  ASSUME IInv, NEW f \in Fds
  PROVE  /\ Waits(f) = 0 => /\ Tasks(f, "READ") = 0 /\ Tasks(f, "PASV") = 0
                            /\ Tasks(f, "CTRL_ACCEPT") = 0
         /\ Starts(f) = 0 => /\ Work(f, "INDEX_START") = 0 /\ Work(f, "RETR_START") = 0
                             /\ Work(f, "STOR_START") = 0
         /\ Tasks(f, "READ") <= Waits(f) /\ Tasks(f, "PASV") <= Waits(f)
         /\ Under(f) = 0 => Starts(f) = 0 /\ Serves(f) = 0 /\ Tasks(f, "TRANS_OK") = 0
  <1>1. /\ Tasks(f, "READ") \in Nat /\ Tasks(f, "PASV") \in Nat
        /\ Tasks(f, "CTRL_ACCEPT") \in Nat
    BY NumbersType DEF IInv, TypeOK, Numbers
  <1>2. /\ Work(f, "INDEX_START") \in Nat /\ Work(f, "RETR_START") \in Nat
        /\ Work(f, "STOR_START") \in Nat
    BY NumbersType DEF IInv, TypeOK, Numbers
  <1>3. Waits(f) = 0 => /\ Tasks(f, "READ") = 0 /\ Tasks(f, "PASV") = 0
                        /\ Tasks(f, "CTRL_ACCEPT") = 0
    BY <1>1 DEF Waits
  <1>4. Starts(f) = 0 => /\ Work(f, "INDEX_START") = 0 /\ Work(f, "RETR_START") = 0
                         /\ Work(f, "STOR_START") = 0
    BY <1>2 DEF Starts
  <1>5. Tasks(f, "READ") <= Waits(f) /\ Tasks(f, "PASV") <= Waits(f)
    BY <1>1 DEF Waits
  <1>6. Under(f) = 0 => Starts(f) = 0 /\ Serves(f) = 0 /\ Tasks(f, "TRANS_OK") = 0
    BY UnderType DEF UnderNat, Under
  <1> QED
    BY <1>3, <1>4, <1>5, <1>6

AllParts ==
  \A f \in Fds :
    /\ Waits(f) = 0 => /\ Tasks(f, "READ") = 0 /\ Tasks(f, "PASV") = 0
                       /\ Tasks(f, "CTRL_ACCEPT") = 0
    /\ Starts(f) = 0 => /\ Work(f, "INDEX_START") = 0 /\ Work(f, "RETR_START") = 0
                        /\ Work(f, "STOR_START") = 0
    /\ Tasks(f, "READ") <= Waits(f) /\ Tasks(f, "PASV") <= Waits(f)
    /\ Under(f) = 0 => Starts(f) = 0 /\ Serves(f) = 0 /\ Tasks(f, "TRANS_OK") = 0

LEMMA PartsNow == IInv => AllParts
  BY Parts DEF AllParts

LEMMA PartsNext == IInv' => AllParts'
  BY PartsNow, PTL

\* An answer that is not a 150 waits to be received.
LEMMA ToldIsOpen ==
  ASSUME IInv, NEW f \in Fds, Connected(f), Told(f) # {}
  PROVE  Ends(f) > 0
  <1>1. /\ clients[f].write_q \in Seq(Reply) /\ peers[f].outq \in Seq(Reply)
        /\ PoolTypeOK
    BY DEF IInv, TypeOK, ReactorTypeOK, ClientsWhole, Connected, TCP_client, Peer
  <1>2. /\ FinalNotices(f) \in Nat /\ Finals(clients[f].write_q) \in Nat
        /\ Finals(peers[f].outq) \in Nat
    BY <1>1, FinalsNone, FinalNoticesNone DEF PoolTypeOK
  <1>3. ASSUME FinalNotices(f) = 0, Finals(clients[f].write_q) = 0, Finals(peers[f].outq) = 0
        PROVE  FALSE
    <2>1. \A n \in MyNotices(f) : ~EndsFor(n, f) /\ n.fd = f
      BY <1>1, <1>3, FinalNoticesNone, MineType DEF PoolTypeOK
    <2>2. /\ \A r \in Elements(clients[f].write_q) : r.code = 150
          /\ \A r \in Elements(peers[f].outq) : r.code = 150
      BY <1>1, <1>3, FinalsNone
    <2> QED
      BY <2>1, <2>2 DEF Told, EndsFor
  <1> QED
    BY <1>2, <1>3 DEF Ends

-----------------------------------------------------------------------------
(* What a step did, in the terms of the parts.                             *)

\* The reactor has of f what it had.
ReactorStays(f) ==
  /\ Connected(f)' = Connected(f) /\ clients'[f] = clients[f] /\ peers'[f] = peers[f]
  /\ data_sock' = data_sock /\ ready' = ready

\* The task h of f has been taken; the reactor and the disk threads have what
\* they had.
Took(f, h, act) ==
  /\ fault = "none" /\ Connected(f) /\ h \in MyTasks(f) /\ h.action = act
  /\ \A a : Tasks(f, a) = (IF act = a THEN Tasks(f, a)' + 1 ELSE Tasks(f, a)')
  /\ MyTasks(f) = MyTasks(f)' \cup {h}
  /\ PasvOrder(f) => /\ PasvOrder(f)'
                     /\ act = "PASV" => Tasks(f, "DATA_ACCEPT")' = 0
  /\ disks'[f] = disks[f] /\ ReactorStays(f)

\* A record n of f has been written to the pipe.
Wrote(f, n, act, final) ==
  /\ \A a : Sent(f, a)' = (IF act = a THEN Sent(f, a) + 1 ELSE Sent(f, a))
  /\ FinalNotices(f)' = (IF final THEN FinalNotices(f) + 1 ELSE FinalNotices(f))
  /\ MyNotices(f)' = MyNotices(f) \cup {n}
  /\ HeadStays /\ n.fd = f /\ n.action = act

TookCounts(f, act) ==
  /\ Waits(f) = (IF act \in {"READ", "PASV", "CTRL_ACCEPT"} THEN Waits(f)' + 1 ELSE Waits(f)')
  /\ Accepts(f) = (IF act = "DATA_ACCEPT" THEN Accepts(f)' + 1 ELSE Accepts(f)')
  /\ Tasks(f, "TRANS_OK") =
       (IF act = "TRANS_OK" THEN Tasks(f, "TRANS_OK")' + 1 ELSE Tasks(f, "TRANS_OK")')
  /\ Tasks(f, "PASV") = (IF act = "PASV" THEN Tasks(f, "PASV")' + 1 ELSE Tasks(f, "PASV")')

LEMMA TookSums ==
  ASSUME IInv, IInv', NEW f \in Fds, NEW h, NEW act, Took(f, h, act)
  PROVE  TookCounts(f, act)
  <1>1. /\ Tasks(f, "READ") \in Nat /\ Tasks(f, "PASV") \in Nat
        /\ Tasks(f, "CTRL_ACCEPT") \in Nat
    BY NumbersType DEF IInv, TypeOK, Numbers
  <1>2. Numbers'
    BY NumbersNext DEF IInv, TypeOK
  <1>3. /\ Tasks(f, "READ")' \in Nat /\ Tasks(f, "PASV")' \in Nat
        /\ Tasks(f, "CTRL_ACCEPT")' \in Nat
    BY <1>2 DEF Numbers
  <1>4. /\ Tasks(f, "READ") = (IF act = "READ" THEN Tasks(f, "READ")' + 1 ELSE Tasks(f, "READ")')
        /\ Tasks(f, "PASV") = (IF act = "PASV" THEN Tasks(f, "PASV")' + 1 ELSE Tasks(f, "PASV")')
        /\ Tasks(f, "CTRL_ACCEPT") =
             (IF act = "CTRL_ACCEPT" THEN Tasks(f, "CTRL_ACCEPT")' + 1
                                     ELSE Tasks(f, "CTRL_ACCEPT")')
        /\ Tasks(f, "DATA_ACCEPT") =
             (IF act = "DATA_ACCEPT" THEN Tasks(f, "DATA_ACCEPT")' + 1
                                     ELSE Tasks(f, "DATA_ACCEPT")')
        /\ Tasks(f, "TRANS_OK") =
             (IF act = "TRANS_OK" THEN Tasks(f, "TRANS_OK")' + 1 ELSE Tasks(f, "TRANS_OK")')
    BY DEF Took
  <1>5. Waits(f) = (IF act \in {"READ", "PASV", "CTRL_ACCEPT"} THEN Waits(f)' + 1 ELSE Waits(f)')
    BY <1>1, <1>3, <1>4 DEF Waits
  <1> QED
    BY <1>4, <1>5 DEF TookCounts, Accepts

-----------------------------------------------------------------------------
(* Steps of the session threads.                                           *)

\* What a handler that took the task h tells others of f.
Tells(f, h, act) ==
  /\ HeadStays
  /\ Sent(f, "DATA_WRITE")' = Sent(f, "DATA_WRITE")
  /\ Work(f, "WRITE_DONE")' = Work(f, "WRITE_DONE")
  /\ \/ Sent(f, "PASV")' = Sent(f, "PASV")
     \/ act = "READ" /\ h.buf[1].verb = "PASV"
  /\ Told(f)' \subseteq Told(f) \cup (IF act = "PASV" THEN {h.port} ELSE {})

\* How it leaves the session of f.
Leaves(f, h, act) ==
  /\ sessions'[f] # NULL => sessions'[f].recv_command = <<>>
  /\ Busy(f)' = 1 => \/ Busy(f) = 1 /\ VerbsOf(Act(f))' = VerbsOf(Act(f))
                     \/ act = "READ" /\ h.buf[1].verb \in Transfers \cap VerbsOf(Act(f)')
  /\ Open(f)' <= Open(f)
  /\ Accepts(f)' + Under(f)' <= Accepts(f) + Under(f)

\* The parts that hold after any handler.
LEMMA HandlerKeeps ==
  ASSUME IInv, IInv', NEW f \in Fds, NEW h, NEW act, Part(f),
         Took(f, h, act), Tells(f, h, act), Leaves(f, h, act)
  PROVE  /\ Absent(f)' /\ OneCommand(f)' /\ OneLine(f)' /\ InHand(f)' /\ Accepting(f)'
         /\ Rounds(f)' /\ Quiet(f)' /\ OneBlock(f)'
         /\ Mentions(f)' \subseteq Mentions(f)
  <1>p. /\ Absent(f) /\ OneCommand(f) /\ OneLine(f) /\ OneTransfer(f) /\ KindsAgree(f)
        /\ Permitted(f) /\ InHand(f) /\ Accepting(f) /\ Rounds(f) /\ Quiet(f) /\ DiskOrder(f)
        /\ OneBlock(f)
    BY DEF Part
  <1>1. /\ Connected(f) /\ Connected(f)' /\ fault = "none"
        /\ clients'[f] = clients[f] /\ peers'[f] = peers[f] /\ disks'[f] = disks[f]
        /\ data_sock' = data_sock /\ ready' = ready
    BY DEF Took, ReactorStays
  <1>2. DAct(f)' = DAct(f) /\ Awaited(f)' = Awaited(f) /\ (Calls(f)' <=> Calls(f))
    BY <1>1 DEF DAct, Awaited, Calls
  <1>3. UnderNat(f) /\ UnderNat(f)' /\ OpenNat(f) /\ OpenNat(f)'
    BY <1>1, CountedType, CountedNext DEF AllCounted
  <1>4. TookCounts(f, act)
    BY TookSums
  <1>5. Tasks(f, "PASV") \in Nat /\ Tasks(f, "PASV")' \in Nat
    BY NumbersType, NumbersNext DEF IInv, TypeOK, Numbers
  <1>6. /\ Accepts(f) = 0 => Accepts(f)' = 0
        /\ Tasks(f, "PASV") = 0 => Tasks(f, "PASV")' = 0 /\ act # "PASV"
        /\ act = "PASV" => Tasks(f, "PASV") > 0
    BY <1>3, <1>4, <1>5 DEF TookCounts, UnderNat
  <1>7. /\ Accepts(f)' + Under(f)' <= Accepts(f) + Under(f)
        /\ Accepts(f) = 0 /\ Under(f) = 0 => Accepts(f)' = 0 /\ Under(f)' = 0
        /\ Accepts(f)' + Under(f)' >= 1 => Accepts(f) + Under(f) >= 1
        /\ Accepts(f) + Under(f) <= 1 => Accepts(f)' + Under(f)' <= 1
    BY <1>3, <1>6 DEF Leaves, UnderNat
  <1>8. /\ MyTasks(f)' \subseteq MyTasks(f) /\ h \in MyTasks(f) /\ h.action = act
        /\ Told(f)' \subseteq Told(f) \cup PasvPorts(f)
        /\ Told(f)' # {} => Told(f) # {} \/ act = "PASV"
        /\ PasvPorts(f)' \subseteq PasvPorts(f)
    BY DEF Took, Tells, PasvPorts
  <1>9. Promised(f)' \subseteq Promised(f)
    BY <1>1, <1>8 DEF Promised
  <1>10. Absent(f)'
    BY <1>1 DEF Absent
  <1>11. OneCommand(f)'
    BY <1>p, <1>1, <1>2, <1>3 DEF OneCommand, Leaves, OpenNat
  <1>12. OneLine(f)'
    BY <1>p, <1>8 DEF OneLine, Leaves
  <1>13. InHand(f)'
    <2>1. peers[f].xfer # NULL =>
            Tasks(f, "PASV")' = 0 /\ Sent(f, "PASV")' = 0 /\ Told(f)' = {}
      BY <1>p, <1>1, <1>6, <1>8 DEF InHand, OnItsWay, Tells, Transfers, Uploads, Downloads
    <2>2. Busy(f)' = 1 => peers[f].xfer # NULL /\ peers[f].xfer.verb \in VerbsOf(Act(f)')
      BY <1>p, <1>1, <1>8 DEF InHand, OnItsWay, Leaves, VerbsOf
    <2>3. \A x \in MyTasks(f)' : x.action = "READ" => OnItsWay(f, x.buf[1])
      BY <1>p, <1>1, <1>8 DEF InHand
    <2>4. VerbsOf(Act(f))' = VerbsOf(Act(f)')
      BY DEF VerbsOf
    <2> QED
      BY <1>p, <1>1, <1>2, <2>1, <2>2, <2>3, <2>4 DEF InHand, OnItsWay
  <1>14. Accepting(f)'
    <2>1. Told(f)' # {} /\ peers[f].xfer = NULL => Accepts(f)' = 0 /\ ~Calls(f)
      BY <1>p, <1>1, <1>6, <1>8 DEF Accepting, Took, Accepts
    <2>2. PasvOrder(f)'
      BY <1>p, <1>1 DEF Accepting, Took
    <2>3. Tasks(f, "PASV")' > 0 => Tasks(f, "PASV") > 0
      BY <1>5, <1>6
    <2> QED
      BY <1>p, <1>1, <1>2, <1>6, <1>7, <2>1, <2>2, <2>3 DEF Accepting
  <1>15. Rounds(f)'
    <2>1. Calls(f) /\ <<"data_accept", f>> \notin ready => Sent(f, "PASV")' = 0
      BY <1>p, <1>1, <1>8 DEF Rounds, Tells
    <2>2. <<"notify">> \in ready => Head(notify_pipe)' = Head(notify_pipe)
      BY DEF IInv, CallbacksValid, Tells, HeadStays
    <2> QED
      BY <1>p, <1>1, <1>2, <1>8, <2>1, <2>2 DEF Rounds
  <1>16. Quiet(f)'
    BY <1>p, <1>1, <1>7, <1>9 DEF Quiet
  <1>17. OneBlock(f)'
    BY <1>p, <1>1, <1>2 DEF OneBlock, Tells
  <1>18. Mentions(f)' \subseteq Mentions(f)
    BY <1>1, <1>9 DEF Mentions
  <1> QED
    BY <1>10, <1>11, <1>12, <1>13, <1>14, <1>15, <1>16, <1>17, <1>18

\* What a command line leaves behind: an answer, a record for the reactor, or
\* a transfer that waits for its data connection.
CommandEnds(fd, s, c) ==
  \E r \in Session :
    /\ Store(fd, r) /\ r.recv_command = s.recv_command /\ disk_pool' = disk_pool
    /\ \/ /\ \E code \in ReplyCodes \ {150, 226, 227} : Post(fd, code, NULL)
          /\ r.data_action = s.data_action
       \/ PasvPost(fd) /\ c.verb = "PASV" /\ r.data_action = s.data_action
       \/ notify_pipe' = notify_pipe /\ r.data_action = s.data_action
       \/ /\ notify_pipe' = notify_pipe /\ c.verb \in Transfers \cap VerbsOf(r.data_action)
          /\ \/ r.data_action = "DATA_LIST"
             \/ r.data_action = "DATA_STOR" /\ r.upload_per
             \/ r.data_action = "DATA_RETR" /\ r.download_per

LEMMA CommandKinds ==
  ASSUME FileTypeOK, NEW fd \in Fds, NEW s \in Session, NEW c \in Command,
         run_fsm_command(fd, s, c)
  PROVE  CommandEnds(fd, s, c)
  <1> USE DEF ReplyCodes
  <1> DEFINE named == [s EXCEPT !.file_name = c.file]
  <1>1. ASSUME NEW r \in Session, NEW code \in ReplyCodes \ {150, 226, 227}, Answer(fd, r, code),
               r.data_action = s.data_action, r.recv_command = s.recv_command
        PROVE  CommandEnds(fd, s, c)
    BY <1>1 DEF CommandEnds, Answer
  <1>2. ASSUME NEW code \in ReplyCodes \ {150, 226, 227}, Answer(fd, s, code)
        PROVE CommandEnds(fd, s, c)
    BY <1>1, <1>2
  <1>3. ASSUME NEW r \in Session, AwaitData(fd, r), r.recv_command = s.recv_command,
               c.verb \in Transfers \cap VerbsOf(r.data_action),
               \/ r.data_action = "DATA_LIST"
               \/ r.data_action = "DATA_STOR" /\ r.upload_per
               \/ r.data_action = "DATA_RETR" /\ r.download_per
        PROVE  CommandEnds(fd, s, c)
    BY <1>3 DEF CommandEnds, AwaitData
  <1>4. CASE c.verb = "USER" /\ com_USER(fd, s, c)
    <2>1. c.user \in UserArgs
      BY <1>4, CommandFields
    <2>2. CASE c.user = "BGIShare"
      <3> DEFINE r == [s EXCEPT !.username = "BGIShare"]
      <3>1. r \in Session /\ r.recv_command = s.recv_command /\ r.data_action = s.data_action
        BY DEF Session, UserNames
      <3>2. Answer(fd, r, 331)
        BY <1>4, <2>2 DEF com_USER
      <3> HIDE DEF r
      <3> QED
        BY <1>1, <3>1, <3>2
    <2>3. CASE \E u \in Seek(c.user) :
                 Answer(fd, [s EXCEPT !.user_info = u, !.username = u], 331)
      <3>1. PICK u \in Seek(c.user) :
                 Answer(fd, [s EXCEPT !.user_info = u, !.username = u], 331)
        BY <2>3
      <3> DEFINE r == [s EXCEPT !.user_info = u, !.username = u]
      <3>2. u \in Users
        BY <2>1, SessionAssumption DEF Seek
      <3>3. r \in Session /\ r.recv_command = s.recv_command /\ r.data_action = s.data_action
        BY <3>2 DEF Session, UserNames
      <3>4. Answer(fd, r, 331)
        BY <3>1
      <3> HIDE DEF r
      <3> QED
        BY <1>1, <3>3, <3>4
    <2>4. CASE Answer(fd, IF c.user = "Anonymous"
                          THEN [s EXCEPT !.username = "Anonymous"] ELSE s, 530)
      <3> DEFINE r == IF c.user = "Anonymous"
                      THEN [s EXCEPT !.username = "Anonymous"] ELSE s
      <3>1. r \in Session /\ r.recv_command = s.recv_command /\ r.data_action = s.data_action
        BY DEF Session, UserNames
      <3>2. Answer(fd, r, 530)
        BY <2>4
      <3> HIDE DEF r
      <3> QED
        BY <1>1, <3>1, <3>2
    <2> QED
      BY <1>4, <2>2, <2>3, <2>4 DEF com_USER
  <1>5. CASE c.verb = "PASS" /\ com_PASS(fd, s, c)
    <2> DEFINE r == [s EXCEPT !.log_in = TRUE]
    <2>1. r \in Session /\ r.recv_command = s.recv_command /\ r.data_action = s.data_action
      BY DEF Session
    <2>2. CASE Answer(fd, r, 230)
      <3> HIDE DEF r
      <3> QED
        BY <1>1, <2>1, <2>2
    <2>3. CASE /\ s.user_info # NULL
               /\ \E account \in Reads(s.user_info) :
                    Answer(fd, [s EXCEPT !.log_in = TRUE,
                                         !.upload_per = account.upload_per,
                                         !.download_per = account.download_per], 230)
      <3>1. PICK account \in Reads(s.user_info) :
                    Answer(fd, [s EXCEPT !.log_in = TRUE,
                                         !.upload_per = account.upload_per,
                                         !.download_per = account.download_per], 230)
        BY <2>3
      <3> DEFINE q == [s EXCEPT !.log_in = TRUE,
                                !.upload_per = account.upload_per,
                                !.download_per = account.download_per]
      <3>2. account \in Account
        BY <2>3, SessionAssumption DEF Session, Reads
      <3>3. q \in Session /\ q.recv_command = s.recv_command /\ q.data_action = s.data_action
        BY <3>2 DEF Session, Account
      <3>4. Answer(fd, q, 230)
        BY <3>1
      <3> HIDE DEF q
      <3> QED
        BY <1>1, <3>3, <3>4
    <2>4. CASE Store(fd, r) /\ UNCHANGED <<notify_pipe, disk_pool>>
      <3> HIDE DEF r
      <3> QED
        BY <2>1, <2>4 DEF CommandEnds
    <2>5. CASE Answer(fd, s, 530)
      BY <1>2, <2>5
    <2> QED
      BY <1>5, <2>2, <2>3, <2>4, <2>5 DEF com_PASS
  <1>6. CASE c.verb = "APPE" /\ com_APPE(fd, s, c)
    <2> DEFINE r == [s EXCEPT !.file_name = c.file, !.rest_size = Size(c.file),
                              !.data_action = "DATA_STOR"]
    <2>1. c.file \in Files
      BY <1>6, CommandFields
    <2>2. /\ r \in Session /\ r.recv_command = s.recv_command /\ r.data_action = "DATA_STOR"
          /\ r.upload_per = s.upload_per
      BY <2>1, SizeType DEF Session, DataActions
    <2>3. \/ s.upload_per /\ AwaitData(fd, r)
          \/ \E code \in {530, 550} : Answer(fd, s, code)
      BY <1>6 DEF com_APPE
    <2>4. c.verb \in Transfers \cap VerbsOf("DATA_STOR")
      BY <1>6 DEF Transfers, Uploads, VerbsOf
    <2> HIDE DEF r
    <2> QED
      BY <1>2, <1>3, <2>2, <2>3, <2>4
  <1>7. CASE c.verb = "SIZE" /\ com_SIZE(fd, s, c)
    <2>1. c.file \in Files
      BY <1>7, CommandFields
    <2>2. /\ named \in Session /\ named.recv_command = s.recv_command
          /\ named.data_action = s.data_action
      BY <2>1 DEF Session
    <2>3. \E code \in {550, 213} : Answer(fd, named, code)
      BY <1>7 DEF com_SIZE
    <2> HIDE DEF named
    <2> QED
      BY <1>1, <2>2, <2>3
  <1>8. CASE c.verb = "REST" /\ com_REST(fd, s, c)
    <2> DEFINE r == [s EXCEPT !.rest_size = c.rest]
    <2>1. c.rest \in Nat
      BY <1>8, CommandFields, DataAssumption
    <2>2. r \in Session /\ r.recv_command = s.recv_command /\ r.data_action = s.data_action
      BY <2>1 DEF Session
    <2>3. Answer(fd, r, 350)
      BY <1>8 DEF com_REST
    <2> HIDE DEF r
    <2> QED
      BY <1>1, <2>2, <2>3
  <1>9. CASE c.verb = "PASV" /\ com_PASV(fd, s)
    <2>1. \/ PasvPost(fd) /\ Store(fd, s) /\ disk_pool' = disk_pool
          \/ Answer(fd, s, 530)
      BY <1>9 DEF com_PASV
    <2> QED
      BY <1>2, <1>9, <2>1 DEF CommandEnds
  <1>10. CASE c.verb = "LIST" /\ com_LIST(fd, s)
    <2> DEFINE r == [s EXCEPT !.data_action = "DATA_LIST"]
    <2>1. r \in Session /\ r.recv_command = s.recv_command /\ r.data_action = "DATA_LIST"
      BY DEF Session, DataActions
    <2>2. AwaitData(fd, r) \/ \E code \in {530, 425} : Answer(fd, s, code)
      BY <1>10 DEF com_LIST
    <2>3. c.verb \in Transfers \cap VerbsOf("DATA_LIST")
      BY <1>10 DEF Transfers, Downloads, VerbsOf
    <2> HIDE DEF r
    <2> QED
      BY <1>2, <1>3, <2>1, <2>2, <2>3
  <1>11. CASE \/ c.verb = "STOR" /\ com_STOR(fd, s, c)
              \/ c.verb = "RETR" /\ com_RETR(fd, s, c)
    <2> DEFINE stor == [named EXCEPT !.data_action = "DATA_STOR"]
               retr == [named EXCEPT !.data_action = "DATA_RETR"]
    <2>1. c.file \in Files
      BY <1>11, CommandFields
    <2>2. /\ named \in Session /\ named.recv_command = s.recv_command
          /\ named.data_action = s.data_action
          /\ named.upload_per = s.upload_per /\ named.download_per = s.download_per
      BY <2>1 DEF Session
    <2>3. \/ c.verb = "STOR" /\ s.upload_per /\ AwaitData(fd, stor)
          \/ c.verb = "RETR" /\ s.download_per /\ AwaitData(fd, retr)
          \/ \E code \in {530, 425, 550} : Answer(fd, s, code)
          \/ \E code \in {550, 554} : Answer(fd, named, code)
      BY <1>11 DEF com_STOR, com_RETR
    <2> HIDE DEF named
    <2>4. /\ stor \in Session /\ stor.recv_command = s.recv_command
          /\ stor.data_action = "DATA_STOR" /\ stor.upload_per = s.upload_per
      BY <2>2 DEF Session, DataActions
    <2>5. /\ retr \in Session /\ retr.recv_command = s.recv_command
          /\ retr.data_action = "DATA_RETR" /\ retr.download_per = s.download_per
      BY <2>2 DEF Session, DataActions
    <2>6. /\ c.verb = "STOR" => c.verb \in Transfers \cap VerbsOf("DATA_STOR")
          /\ c.verb = "RETR" => c.verb \in Transfers \cap VerbsOf("DATA_RETR")
      BY DEF Transfers, Uploads, Downloads, VerbsOf
    <2> HIDE DEF stor, retr
    <2> QED
      BY <1>1, <1>2, <1>3, <2>2, <2>3, <2>4, <2>5, <2>6
  <1>12. CASE \/ c.verb = "TYPE" /\ com_TYPE(fd, s)
              \/ c.verb = "CWD"  /\ com_CWD(fd, s)
              \/ c.verb = "PWD"  /\ com_PWD(fd, s)
              \/ c.verb = "SYST" /\ com_SYST(fd, s)
              \/ c.verb = "FEAT" /\ com_FEAT(fd, s)
              \/ c.verb = "BAD"  /\ com_BAD(fd, s)
    BY <1>2, <1>12 DEF com_TYPE, com_CWD, com_PWD, com_SYST, com_FEAT, com_BAD
  <1> QED
    BY <1>4, <1>5, <1>6, <1>7, <1>8, <1>9, <1>10, <1>11, <1>12 DEF run_fsm_command

\* The head of a queue is taken: whose it is, and what the others keep.
LEMMA SessionTakes ==
  ASSUME Orderly, NEW t \in SessionThreads, NEW act, SessionTake(t, act), fault = "none",
         UNCHANGED <<disks, reactorVars>>, NEW h, h = Head(session_pool[t])
  PROVE  /\ h \in SessionTask /\ h.fd \in Fds /\ Took(h.fd, h, act)
         /\ \A g \in Fds : g # h.fd => TasksStay(g)
  <1>1. PoolTypeOK
    BY DEF Orderly, IInv, TypeOK
  <1>2. /\ session_pool[t] \in Seq(SessionTask) /\ session_pool[t] # <<>> /\ h.action = act
        /\ h \in SessionTask /\ h \in Elements(session_pool[t])
    <2>1. session_pool[t] \in Seq(SessionTask) /\ session_pool[t] # <<>> /\ h.action = act
      BY <1>1 DEF SessionTake, PoolTypeOK
    <2>2. h \in SessionTask
      BY <2>1
    <2>3. h \in Elements(session_pool[t])
      BY <2>1, TailElements
    <2> QED
      BY <2>1, <2>2, <2>3
  <1>3. h.fd \in Fds
    BY <1>2, SessionTaskFields
  <1>4. ThreadOf(h.fd) = t
    BY <1>2 DEF Orderly, Routed
  <1>5. ASSUME NEW g \in Fds
        PROVE  /\ \A a : Tasks(g, a) =
                     (IF h.fd = g /\ act = a THEN Tasks(g, a)' + 1 ELSE Tasks(g, a)')
               /\ MyTasks(g) = MyTasks(g)' \cup (IF h.fd = g THEN {h} ELSE {})
               /\ PasvOrder(g) =>
                    /\ PasvOrder(g)'
                    /\ h.fd = g /\ act = "PASV" => Tasks(g, "DATA_ACCEPT")' = 0
    BY <1>1, <1>2, <1>4, TaskTaken
  <1>6. ASSUME NEW g \in Fds, g # h.fd PROVE TasksStay(g)
    BY <1>5, <1>6 DEF TasksStay
  <1>7. h \in MyTasks(h.fd)
    BY <1>3, <1>5
  <1>8. Connected(h.fd)
    BY <1>3, <1>7, TaskConnected DEF Orderly, Part
  <1>9. ReactorStays(h.fd) /\ disks'[h.fd] = disks[h.fd]
    BY DEF ReactorStays, reactorVars, Connected
  <1>10. Took(h.fd, h, act)
    BY <1>2, <1>3, <1>5, <1>7, <1>8, <1>9 DEF Took
  <1> QED
    BY <1>2, <1>3, <1>6, <1>10

\* A record is written for f: what f has of it, and what the others keep.
LEMMA PipeWritten ==
  ASSUME PoolTypeOK, NEW n \in Notification, notify(n), NEW f \in Fds, n.fd = f
  PROVE  /\ Wrote(f, n, n.action, EndsFor(n, f))
         /\ \A g \in Fds : g # f => NoticesStay(g)
  <1>1. ASSUME NEW g \in Fds
        PROVE  /\ \A a : Sent(g, a)' =
                     (IF n.fd = g /\ n.action = a THEN Sent(g, a) + 1 ELSE Sent(g, a))
               /\ FinalNotices(g)' =
                     (IF EndsFor(n, g) THEN FinalNotices(g) + 1 ELSE FinalNotices(g))
               /\ MyNotices(g)' = MyNotices(g) \cup (IF n.fd = g THEN {n} ELSE {})
               /\ HeadStays
    BY NoticePosted
  <1>2. Wrote(f, n, n.action, EndsFor(n, f))
    BY <1>1 DEF Wrote
  <1>3. ASSUME NEW g \in Fds, g # f PROVE NoticesStay(g)
    <2>1. n.fd # g /\ ~EndsFor(n, g)
      BY <1>3 DEF EndsFor
    <2> QED
      BY <1>1, <2>1 DEF NoticesStay
  <1> QED
    BY <1>2, <1>3

\* The ports that a client is told of after a record for it, or none, was written.
LEMMA ToldAfter ==
  ASSUME NEW f \in Fds, NEW n, ReactorStays(f), MyNotices(f)' = MyNotices(f) \cup {n}
  PROVE  Told(f)' \subseteq Told(f) \cup
           (IF n.action \in {"CTRL_WRITE", "TRANS_OK"} /\ n.reply.code = 227
            THEN {n.reply.port} ELSE {})
  <1>1. ASSUME NEW p \in Told(f)'
        PROVE  \/ \E m \in MyNotices(f) \cup {n} :
                 m.action \in {"CTRL_WRITE", "TRANS_OK"} /\ m.reply.code = 227 /\ p = m.reply.port
               \/ \E r \in Elements(clients[f].write_q) \cup Elements(peers[f].outq) :
                 r.code = 227 /\ p = r.port
    BY DEF Told, ReactorStays
  <1>2. ASSUME NEW p, NEW m \in MyNotices(f), m.action \in {"CTRL_WRITE", "TRANS_OK"},
               m.reply.code = 227,
               p = m.reply.port
        PROVE  p \in Told(f)
    BY <1>2 DEF Told
  <1>3. ASSUME NEW p, NEW r \in Elements(clients[f].write_q) \cup Elements(peers[f].outq),
               r.code = 227, p = r.port
        PROVE  p \in Told(f)
    BY <1>3 DEF Told
  <1> QED
    BY <1>1, <1>2, <1>3

LEMMA ToldStays ==
  ASSUME NEW f \in Fds, ReactorStays(f), MyNotices(f)' = MyNotices(f)
  PROVE  Told(f)' = Told(f)
  BY DEF Told, ReactorStays

\* The answers that end a command, after one more of them or not.
LEMMA EndsAfter ==
  ASSUME IInv, NEW f \in Fds, Connected(f), ReactorStays(f), NEW b,
         FinalNotices(f)' = (IF b THEN FinalNotices(f) + 1 ELSE FinalNotices(f))
  PROVE  Ends(f)' = (IF b THEN Ends(f) + 1 ELSE Ends(f))
  <1>1. FinalNotices(f) \in Nat
    BY NumbersType DEF IInv, TypeOK, Numbers
  <1>2. /\ clients[f].write_q \in Seq(Reply) /\ peers[f].outq \in Seq(Reply)
    BY DEF IInv, TypeOK, ReactorTypeOK, ClientsWhole, Connected, TCP_client, Peer
  <1>3. Finals(clients[f].write_q) \in Nat /\ Finals(peers[f].outq) \in Nat
    BY <1>2, FinalsNone
  <1>4. /\ Finals(clients[f].write_q)' = Finals(clients[f].write_q)
        /\ Finals(peers[f].outq)' = Finals(peers[f].outq)
    BY DEF ReactorStays
  <1> QED
    BY <1>1, <1>3, <1>4 DEF Ends

\* Another client has nothing to do with what a thread did for f.
LEMMA OthersApart ==
  ASSUME IInv, NEW f \in Fds, NEW g \in Fds, g # f, fault = "none",
         sessions'[g] = sessions[g], disks'[g] = disks[g], UNCHANGED reactorVars,
         TasksStay(g), WorkStays(g), NoticesStay(g), HeadStays
  PROVE  Apart(g)
  <1>1. <<"notify">> \in ready => notify_pipe # <<>>
    BY DEF IInv, CallbacksValid
  <1> QED
    BY <1>1 DEF Apart, reactorVars, HeadStays

\* Without work there is nothing to agree with.
LEMMA IdleKeeps ==
  ASSUME IInv', NEW f \in Fds, Under(f)' = 0
  PROVE  OneTransfer(f)' /\ KindsAgree(f)'
  <1>1. UnderNat(f)'
    BY CountedNext DEF AllCounted
  <1>3. /\ Serves(f)' = 0 /\ Work(f, "INDEX_START")' = 0 /\ Work(f, "RETR_START")' = 0
        /\ Work(f, "STOR_START")' = 0
    BY PartsNext DEF AllParts
  <1>4. DAct(f)' = "NONE"
    BY <1>3 DEF Serves, DAct
  <1>5. OneTransfer(f)'
    BY DEF OneTransfer
  <1> QED
    BY <1>3, <1>4, <1>5 DEF KindsAgree, UploadStates

\* The parts of every client, and the sockets.
Kept == (\A g \in Fds : Part(g)') /\ PortsOwn' /\ SocksFresh'

\* A step that is about f, and opens no socket.
LEMMA OnlyFor ==
  ASSUME Orderly, NEW f \in Fds, Connected(f), Part(f)', Mentions(f)' \subseteq Mentions(f),
         data_sock' = data_sock, \A g \in Fds : g # f => Apart(g)
  PROVE  Kept
  <1>1. ASSUME NEW g \in Fds
        PROVE  Part(g)' /\ (Connected(g)' => Connected(g) /\ Mentions(g)' \subseteq Mentions(g))
    <2>1. CASE g = f
      BY <2>1
    <2>2. CASE g # f
      BY <2>2, ApartKeeps, ApartNames DEF Orderly
    <2> QED
      BY <2>1, <2>2
  <1>2. PortsOwn'
    BY <1>1, PortsKept DEF Orderly
  <1>3. SocksFresh'
    BY DEF Orderly, SocksFresh
  <1> QED
    BY <1>1, <1>2, <1>3 DEF Kept

LEMMA HandlerDone ==
  ASSUME Orderly, IInv', NEW f \in Fds, NEW h, NEW act,
         Took(f, h, act), Tells(f, h, act), Leaves(f, h, act),
         OneTransfer(f)', KindsAgree(f)', Permitted(f)', DiskOrder(f)',
         \A g \in Fds : g # f => Apart(g)
  PROVE  Kept
  <1>1. IInv /\ Part(f)
    BY DEF Orderly
  <1>2. /\ Absent(f)' /\ OneCommand(f)' /\ OneLine(f)' /\ InHand(f)' /\ Accepting(f)'
        /\ Rounds(f)' /\ Quiet(f)' /\ OneBlock(f)' /\ Mentions(f)' \subseteq Mentions(f)
    BY <1>1, HandlerKeeps
  <1>3. Part(f)'
    BY <1>2 DEF Part
  <1>4. Connected(f) /\ data_sock' = data_sock
    BY DEF Took, ReactorStays
  <1> QED
    BY <1>2, <1>3, <1>4, OnlyFor

\* While the command is a task, nothing else of the client is under way.
LEMMA IdleFacts ==
  ASSUME Orderly, IInv', NEW f \in Fds, NEW h, NEW act, Took(f, h, act),
         act \in {"READ", "PASV", "CTRL_ACCEPT"}
  PROVE  /\ Waits(f) = 1 /\ Waits(f)' = 0 /\ Unread(f) = 0 /\ Sent(f, "PASV") = 0
         /\ Ends(f) = 0 /\ Busy(f) = 0 /\ Open(f) = 1
         /\ Under(f) = 0 /\ Accepts(f)' = Accepts(f) /\ Accepts(f) \in Nat
  <1>1. IInv /\ OneCommand(f) /\ OneTransfer(f) /\ Connected(f) /\ Connected(f)'
    BY DEF Orderly, Part, Took, ReactorStays
  <1>2. OpenNat(f) /\ OpenNat(f)' /\ UnderNat(f) /\ UnderNat(f)'
    BY <1>1, CountedType, CountedNext DEF AllCounted
  <1>3. TookCounts(f, act)
    BY <1>1, TookSums
  <1>4. Waits(f) = Waits(f)' + 1 /\ Accepts(f) = Accepts(f)'
    BY <1>3 DEF TookCounts
  <1>5. Open(f) <= 1
    BY <1>1, <1>2 DEF OneCommand, OpenNat
  <1>6. /\ Waits(f) = 1 /\ Waits(f)' = 0 /\ Unread(f) = 0 /\ Sent(f, "PASV") = 0
        /\ Ends(f) = 0 /\ Busy(f) = 0
    BY <1>2, <1>4, <1>5 DEF Open, OpenNat
  <1>7. Act(f) \notin Serving
    BY <1>6 DEF Busy, Serving
  <1>8. Under(f) = 0
    BY <1>1, <1>2, <1>7 DEF OneTransfer, UnderNat
  <1>9. Open(f) = 1
    BY <1>6 DEF Open
  <1> QED
    BY <1>2, <1>4, <1>6, <1>8, <1>9 DEF UnderNat

\* The handler of a command, of the port for a PASV, of a new client.
LEMMA IdleHandled ==
  ASSUME Orderly, IInv', NEW f \in Fds, NEW h, NEW act, Took(f, h, act), Tells(f, h, act),
         act \in {"READ", "PASV", "CTRL_ACCEPT"}, WorkStays(f), Permitted(f)',
         sessions'[f] # NULL => sessions'[f].recv_command = <<>>,
         Sent(f, "PASV")' + Ends(f)' + Busy(f)' <= 1,
         Busy(f)' = 1 => act = "READ" /\ h.buf[1].verb \in Transfers \cap VerbsOf(Act(f)'),
         \A g \in Fds : g # f => Apart(g)
  PROVE  Kept
  <1>1. IInv /\ Connected(f) /\ Connected(f)'
    BY DEF Orderly, Took, ReactorStays
  <1>2. OpenNat(f)' /\ UnderNat(f)
    BY <1>1, CountedType, CountedNext DEF AllCounted
  <1>3. /\ Waits(f)' = 0 /\ Unread(f) = 0 /\ Open(f) = 1 /\ Under(f) = 0
        /\ Accepts(f)' = Accepts(f) /\ Accepts(f) \in Nat
    BY IdleFacts
  <1>4. Unread(f)' = Unread(f)
    BY DEF Unread, Took, ReactorStays
  <1>5. Open(f)' <= Open(f)
    BY <1>2, <1>3, <1>4 DEF Open, OpenNat
  <1>6. TookCounts(f, act)
    BY <1>1, TookSums
  <1>7. Tasks(f, "TRANS_OK")' = Tasks(f, "TRANS_OK")
    BY <1>6 DEF TookCounts
  <1>8. Serves(f)' = Serves(f) /\ Starts(f)' = Starts(f)
    BY DEF Serves, Starts, Took, WorkStays
  <1>9. Under(f)' = 0
    BY <1>3, <1>7, <1>8 DEF Under
  <1>10. Leaves(f, h, act)
    BY <1>3, <1>5, <1>9 DEF Leaves
  <1>11. OneTransfer(f)' /\ KindsAgree(f)'
    BY <1>9, IdleKeeps
  <1>12. DiskOrder(f)'
    BY DEF Orderly, Part, DiskOrder, WorkStays, Took, DAct
  <1> QED
    BY <1>10, <1>11, <1>12, HandlerDone

\* What each kind of record means for f, and for the others.
LEMMA AnswerPosted ==
  ASSUME IInv, NEW f \in Fds, NEW code \in ReplyCodes, NEW port \in Ports \cup {NULL},
         Post(f, code, port), Connected(f), ReactorStays(f)
  PROVE  /\ HeadStays /\ Sent(f, "PASV")' = Sent(f, "PASV")
         /\ Sent(f, "DATA_WRITE")' = Sent(f, "DATA_WRITE")
         /\ Ends(f)' = (IF code # 150 THEN Ends(f) + 1 ELSE Ends(f))
         /\ Told(f)' \subseteq Told(f) \cup (IF code = 227 THEN {port} ELSE {})
         /\ \A g \in Fds : g # f => NoticesStay(g)
  <1> DEFINE n == [fd |-> f, action |-> "CTRL_WRITE", reply |-> [code |-> code, port |-> port]]
  <1>1. n \in Notification
    BY DEF Notification, Reply
  <1>2. /\ n.fd = f /\ n.action = "CTRL_WRITE" /\ n.reply.code = code /\ n.reply.port = port
        /\ EndsFor(n, f) <=> code # 150
    BY DEF EndsFor
  <1>3. notify(n) /\ PoolTypeOK
    BY DEF Post, IInv, TypeOK
  <1> HIDE DEF n
  <1>4. /\ Wrote(f, n, "CTRL_WRITE", EndsFor(n, f))
        /\ \A g \in Fds : g # f => NoticesStay(g)
    BY <1>1, <1>2, <1>3, PipeWritten
  <1>5. Ends(f)' = (IF EndsFor(n, f) THEN Ends(f) + 1 ELSE Ends(f))
    BY <1>4, EndsAfter DEF Wrote
  <1>6. Told(f)' \subseteq Told(f) \cup (IF code = 227 THEN {port} ELSE {})
    BY <1>2, <1>4, ToldAfter DEF Wrote
  <1> QED
    BY <1>2, <1>4, <1>5, <1>6 DEF Wrote

LEMMA TransferOkPosted ==
  ASSUME IInv, NEW f \in Fds, NEW code \in ReplyCodes, code \notin {150, 227},
         PostTransferOk(f, code), Connected(f), ReactorStays(f)
  PROVE  /\ HeadStays /\ Sent(f, "PASV")' = Sent(f, "PASV")
         /\ Sent(f, "DATA_WRITE")' = Sent(f, "DATA_WRITE")
         /\ Ends(f)' = Ends(f) + 1
         /\ Told(f)' \subseteq Told(f)
         /\ \A g \in Fds : g # f => NoticesStay(g)
  <1> DEFINE n == [fd |-> f, action |-> "TRANS_OK", reply |-> [code |-> code, port |-> NULL]]
  <1>1. n \in Notification
    BY DEF Notification, Reply
  <1>2. n.fd = f /\ n.action = "TRANS_OK" /\ EndsFor(n, f) /\ n.reply.code # 227
    BY DEF EndsFor
  <1>3. notify(n) /\ PoolTypeOK
    BY DEF PostTransferOk, IInv, TypeOK
  <1> HIDE DEF n
  <1>4. /\ Wrote(f, n, "TRANS_OK", EndsFor(n, f))
        /\ \A g \in Fds : g # f => NoticesStay(g)
    BY <1>1, <1>2, <1>3, PipeWritten
  <1>5. Ends(f)' = (IF EndsFor(n, f) THEN Ends(f) + 1 ELSE Ends(f))
    BY <1>4, EndsAfter DEF Wrote
  <1>6. Told(f)' \subseteq Told(f)
    BY <1>2, <1>4, ToldAfter DEF Wrote
  <1> QED
    BY <1>2, <1>4, <1>5, <1>6 DEF Wrote

LEMMA PasvPosted ==
  ASSUME IInv, NEW f \in Fds, PasvPost(f), Connected(f), ReactorStays(f)
  PROVE  /\ HeadStays /\ Sent(f, "PASV")' = Sent(f, "PASV") + 1
         /\ Sent(f, "DATA_WRITE")' = Sent(f, "DATA_WRITE")
         /\ Ends(f)' = Ends(f)
         /\ Told(f)' \subseteq Told(f)
         /\ \A g \in Fds : g # f => NoticesStay(g)
  <1> DEFINE n == [fd |-> f, action |-> "PASV"]
  <1>1. n \in Notification
    BY DEF Notification
  <1>2. n.fd = f /\ n.action = "PASV" /\ ~EndsFor(n, f)
    BY DEF EndsFor
  <1>3. notify(n) /\ PoolTypeOK
    BY DEF PasvPost, IInv, TypeOK
  <1> HIDE DEF n
  <1>4. /\ Wrote(f, n, "PASV", EndsFor(n, f))
        /\ \A g \in Fds : g # f => NoticesStay(g)
    BY <1>1, <1>2, <1>3, PipeWritten
  <1>5. Ends(f)' = (IF EndsFor(n, f) THEN Ends(f) + 1 ELSE Ends(f))
    BY <1>4, EndsAfter DEF Wrote
  <1>6. Told(f)' \subseteq Told(f)
    BY <1>2, <1>4, ToldAfter DEF Wrote
  <1> QED
    BY <1>2, <1>4, <1>5, <1>6 DEF Wrote

LEMMA NothingPosted ==
  ASSUME IInv, NEW f \in Fds, notify_pipe' = notify_pipe, Connected(f), ReactorStays(f)
  PROVE  /\ HeadStays /\ Sent(f, "PASV")' = Sent(f, "PASV")
         /\ Sent(f, "DATA_WRITE")' = Sent(f, "DATA_WRITE")
         /\ Ends(f)' = Ends(f)
         /\ Told(f)' \subseteq Told(f)
         /\ \A g \in Fds : g # f => NoticesStay(g)
  <1>1. HeadStays /\ \A g \in Fds : NoticesStay(g)
    BY NoticesUnchanged
  <1>2. FinalNotices(f)' = (IF FALSE THEN FinalNotices(f) + 1 ELSE FinalNotices(f))
    BY <1>1 DEF NoticesStay
  <1>3. Ends(f)' = (IF FALSE THEN Ends(f) + 1 ELSE Ends(f))
    BY <1>2, EndsAfter
  <1>4. Told(f)' = Told(f)
    BY <1>1, ToldStays DEF NoticesStay
  <1> QED
    BY <1>1, <1>3, <1>4 DEF NoticesStay

\* A handler stores one session, and works for one client.
LEMMA HandlerApart ==
  ASSUME IInv, NEW f \in Fds, fault = "none", UNCHANGED <<disks, reactorVars>>, HeadStays,
         \A g \in Fds : g # f => /\ TasksStay(g) /\ NoticesStay(g) /\ WorkStays(g)
                                 /\ sessions'[g] = sessions[g]
  PROVE  \A g \in Fds : g # f => Apart(g)
  <1> SUFFICES ASSUME NEW g \in Fds, g # f PROVE Apart(g)
    OBVIOUS
  <1>1. disks'[g] = disks[g] /\ UNCHANGED reactorVars
    OBVIOUS
  <1> QED
    BY <1>1, OthersApart

LEMMA Stored ==
  ASSUME SessionTypeOK, NEW f \in Fds, NEW s, Store(f, s)
  PROVE  sessions'[f] = s /\ \A g \in Fds : g # f => sessions'[g] = sessions[g]
  BY DEF Store, SessionTypeOK

\* The accepted connection of the transfer in hand: the disk threads begin.
LEMMA LoadHandled ==
  ASSUME Orderly, IInv', NEW f \in Fds, NEW h, Took(f, h, "DATA_ACCEPT"),
         UNCHANGED <<disks, reactorVars>>, fault = "none",
         NEW task \in DiskTask, task.fd = f, post_to_disk(task),
         \/ task.action = "INDEX_START" /\ Act(f)' = "DATA_INDEX_DOWNLOAD"
         \/ task.action = "RETR_START" /\ Act(f)' = "DATA_FILE_DOWNLOAD"
         \/ task.action = "STOR_START" /\ Act(f)' = "DATA_STOR",
         Busy(f) = 1, VerbsOf(Act(f))' = VerbsOf(Act(f)), Permitted(f)',
         sessions'[f] # NULL => sessions'[f].recv_command = <<>>,
         HeadStays, Sent(f, "PASV")' = Sent(f, "PASV"), Ends(f)' = Ends(f),
         Sent(f, "DATA_WRITE")' = Sent(f, "DATA_WRITE"), Told(f)' \subseteq Told(f),
         \A g \in Fds : g # f => /\ TasksStay(g) /\ NoticesStay(g) /\ sessions'[g] = sessions[g]
  PROVE  Kept
  <1>1. /\ IInv /\ PoolTypeOK /\ Connected(f) /\ Connected(f)'
        /\ Accepting(f) /\ InHand(f) /\ OneTransfer(f) /\ KindsAgree(f) /\ DiskOrder(f)
    BY DEF Orderly, Part, IInv, TypeOK, Took, ReactorStays
  <1>2. OpenNat(f) /\ OpenNat(f)' /\ UnderNat(f) /\ UnderNat(f)'
    BY <1>1, CountedType, CountedNext DEF AllCounted
  <1>3. TookCounts(f, "DATA_ACCEPT")
    BY <1>1, TookSums
  <1>4. /\ Waits(f)' = Waits(f) /\ Accepts(f) = Accepts(f)' + 1
        /\ Tasks(f, "TRANS_OK")' = Tasks(f, "TRANS_OK")
    BY <1>3 DEF TookCounts
  <1>5. Accepts(f) + Under(f) <= 1
    BY <1>1 DEF Accepting, InHand
  <1>6. Under(f) = 0 /\ Accepts(f)' = 0 /\ Accepts(f) = 1
    BY <1>2, <1>4, <1>5 DEF UnderNat
  <1>7. /\ Starts(f) = 0 /\ Serves(f) = 0 /\ Tasks(f, "TRANS_OK") = 0
        /\ Work(f, "INDEX_START") = 0 /\ Work(f, "RETR_START") = 0 /\ Work(f, "STOR_START") = 0
    BY <1>1, <1>6, PartsNow DEF AllParts
  <1>8. DAct(f) = "NONE" /\ DAct(f)' = "NONE" /\ Serves(f)' = 0
    BY <1>7 DEF Serves, DAct
  <1>9. \A g \in Fds :
          \/ /\ \A a : Work(g, a)' =
                        (IF task.fd = g /\ task.action = a THEN Work(g, a) + 1 ELSE Work(g, a))
             /\ StartOrder(g) => StartOrder(g)'
          \/ WorkStays(g)
    BY <1>1, WorkPosted
  <1>10. \A g \in Fds : g # f => WorkStays(g)
    BY <1>9 DEF WorkStays
  <1>11. \A g \in Fds : g # f => Apart(g)
    BY <1>1, <1>10, HandlerApart
  <1>12. StartOrder(f)'
    BY <1>1, <1>9 DEF DiskOrder, WorkStays
  <1>13. Work(f, "WRITE_DONE")' = Work(f, "WRITE_DONE")
    BY <1>9 DEF WorkStays
  <1>14. ASSUME NEW a \in {"INDEX_START", "RETR_START", "STOR_START"}
         PROVE  Work(f, a)' = 0 \/ (Work(f, a)' = 1 /\ task.action = a)
    <2>1. Work(f, a) = 0
      BY <1>7
    <2>2. \/ Work(f, a)' = (IF task.action = a THEN Work(f, a) + 1 ELSE Work(f, a))
          \/ Work(f, a)' = Work(f, a)
      BY <1>9 DEF WorkStays
    <2> QED
      BY <2>1, <2>2
  <1>15. Starts(f)' <= 1
    <2>1. /\ \/ Work(f, "INDEX_START")' = 0
             \/ Work(f, "INDEX_START")' = 1 /\ task.action = "INDEX_START"
          /\ \/ Work(f, "RETR_START")' = 0
             \/ Work(f, "RETR_START")' = 1 /\ task.action = "RETR_START"
          /\ \/ Work(f, "STOR_START")' = 0
             \/ Work(f, "STOR_START")' = 1 /\ task.action = "STOR_START"
      BY <1>14
    <2> QED
      BY <2>1 DEF Starts
  <1>16. Under(f)' <= 1
    BY <1>2, <1>4, <1>7, <1>8, <1>15 DEF Under, UnderNat
  <1>17. Act(f)' \in Serving /\ Busy(f)' = 1
    BY DEF Serving, Busy
  <1>18. OneTransfer(f)'
    BY <1>16, <1>17 DEF OneTransfer
  <1>19. KindsAgree(f)'
    BY <1>8, <1>14 DEF KindsAgree, UploadStates
  <1>20. DiskOrder(f)'
    BY <1>8, <1>12 DEF DiskOrder, DownloadStates
  <1>21. Unread(f)' = Unread(f)
    BY DEF Unread, Took, ReactorStays
  <1>22. Open(f)' = Open(f)
    BY <1>4, <1>17, <1>21 DEF Open
  <1>23. Leaves(f, h, "DATA_ACCEPT")
    <2>1. Open(f)' <= Open(f)
      BY <1>2, <1>22 DEF OpenNat
    <2>2. Accepts(f)' + Under(f)' <= Accepts(f) + Under(f)
      BY <1>2, <1>6, <1>16 DEF UnderNat
    <2> QED
      BY <2>1, <2>2 DEF Leaves
  <1>24. Tells(f, h, "DATA_ACCEPT")
    BY <1>13 DEF Tells
  <1> QED
    BY <1>11, <1>18, <1>19, <1>20, <1>23, <1>24, HandlerDone

\* The session stays as it is, and no command ends.
LEMMA SameHandled ==
  ASSUME Orderly, IInv', NEW f \in Fds, NEW h, NEW act, Took(f, h, act), Tells(f, h, act),
         sessions'[f] = sessions[f], WorkStays(f),
         Sent(f, "PASV")' = Sent(f, "PASV"), Ends(f)' = Ends(f),
         \A g \in Fds : g # f => Apart(g)
  PROVE  Kept
  <1>1. /\ IInv /\ Connected(f) /\ Connected(f)' /\ OneTransfer(f) /\ KindsAgree(f)
        /\ Permitted(f) /\ DiskOrder(f) /\ OneLine(f)
    BY DEF Orderly, Part, Took, ReactorStays
  <1>2. OpenNat(f) /\ OpenNat(f)' /\ UnderNat(f) /\ UnderNat(f)'
    BY <1>1, CountedType, CountedNext DEF AllCounted
  <1>3. TookCounts(f, act)
    BY <1>1, TookSums
  <1>4. Act(f)' = Act(f) /\ Busy(f)' = Busy(f) /\ DAct(f)' = DAct(f) /\ Serves(f)' = Serves(f)
    BY DEF Act, Busy, DAct, Serves, Took
  <1>5. Starts(f)' = Starts(f) /\ \A a : Work(f, a)' = Work(f, a)
    BY DEF Starts, WorkStays
  <1>6. Under(f)' <= Under(f)
    BY <1>2, <1>3, <1>4, <1>5 DEF Under, TookCounts, UnderNat
  <1>7. Accepts(f)' <= Accepts(f) /\ Waits(f)' <= Waits(f)
    BY <1>2, <1>3 DEF TookCounts, UnderNat, OpenNat
  <1>8. Unread(f)' = Unread(f)
    BY DEF Unread, Took, ReactorStays
  <1>9. Open(f)' <= Open(f)
    BY <1>2, <1>4, <1>7, <1>8 DEF Open, OpenNat
  <1>10. Accepts(f)' + Under(f)' <= Accepts(f) + Under(f)
    BY <1>2, <1>6, <1>7 DEF UnderNat
  <1>11. VerbsOf(Act(f))' = VerbsOf(Act(f))
    BY <1>4 DEF VerbsOf
  <1>12. Leaves(f, h, act)
    BY <1>1, <1>4, <1>9, <1>10, <1>11 DEF Leaves, OneLine
  <1>13. OneTransfer(f)'
    BY <1>1, <1>2, <1>4, <1>6 DEF OneTransfer, UnderNat
  <1>14. KindsAgree(f)' /\ Permitted(f)' /\ DiskOrder(f)'
    BY <1>1, <1>4, <1>5 DEF KindsAgree, Permitted, DiskOrder, WorkStays
  <1> QED
    BY <1>12, <1>13, <1>14, HandlerDone

\* The end of a transfer: 226 for the command, and the session waits again.
LEMMA EndHandled ==
  ASSUME Orderly, IInv', NEW f \in Fds, NEW h, Took(f, h, "TRANS_OK"), Tells(f, h, "TRANS_OK"),
         Act(f)' = "DATA_WAITING", sessions'[f].recv_command = <<>>, WorkStays(f),
         Sent(f, "PASV")' = Sent(f, "PASV"), Ends(f)' = Ends(f) + 1,
         \A g \in Fds : g # f => Apart(g)
  PROVE  Kept
  <1>1. /\ IInv /\ Connected(f) /\ Connected(f)' /\ OneTransfer(f) /\ DiskOrder(f)
    BY DEF Orderly, Part, Took, ReactorStays
  <1>2. OpenNat(f) /\ OpenNat(f)' /\ UnderNat(f) /\ UnderNat(f)'
    BY <1>1, CountedType, CountedNext DEF AllCounted
  <1>3. TookCounts(f, "TRANS_OK")
    BY <1>1, TookSums
  <1>4. /\ Waits(f)' = Waits(f) /\ Accepts(f)' = Accepts(f)
        /\ Tasks(f, "TRANS_OK") = Tasks(f, "TRANS_OK")' + 1
    BY <1>3 DEF TookCounts
  <1>5. DAct(f)' = DAct(f) /\ Serves(f)' = Serves(f) /\ Starts(f)' = Starts(f)
    BY DEF DAct, Serves, Starts, Took, WorkStays
  <1>6. Under(f) = Under(f)' + 1
    BY <1>2, <1>4, <1>5 DEF Under, UnderNat
  <1>7. Act(f) \in Serving /\ Under(f)' = 0 /\ Under(f) = 1
    BY <1>1, <1>2, <1>6 DEF OneTransfer, UnderNat
  <1>8. Busy(f) = 1 /\ Busy(f)' = 0
    BY <1>7 DEF Busy, Serving
  <1>9. Unread(f)' = Unread(f)
    BY DEF Unread, Took, ReactorStays
  <1>10. Open(f)' <= Open(f)
    BY <1>2, <1>4, <1>8, <1>9 DEF Open, OpenNat
  <1>11. Accepts(f)' + Under(f)' <= Accepts(f) + Under(f)
    BY <1>2, <1>4, <1>7 DEF UnderNat
  <1>12. Leaves(f, h, "TRANS_OK")
    BY <1>8, <1>10, <1>11 DEF Leaves
  <1>13. OneTransfer(f)' /\ KindsAgree(f)'
    BY <1>7, IdleKeeps
  <1>14. Permitted(f)' /\ DiskOrder(f)'
    BY <1>1, <1>5 DEF Permitted, DiskOrder, WorkStays
  <1> QED
    BY <1>12, <1>13, <1>14, HandlerDone

LEMMA IdlePermitted ==
  ASSUME NEW f \in Fds, Act(f) \in {"NONE", "DATA_WAITING", "DATA_PASV_OK"}
  PROVE  Busy(f) = 0 /\ Permitted(f)
  BY DEF Busy, Permitted

LEMMA IdleAct ==
  ASSUME NEW f \in Fds, SessionTypeOK, Busy(f) = 0
  PROVE  Act(f) \in {"NONE", "DATA_WAITING", "DATA_PASV_OK"}
  BY DEF Busy

\* The same of the next state.
LEMMA IdleNext ==
  ASSUME NEW f \in Fds, Act(f)' \in {"NONE", "DATA_WAITING", "DATA_PASV_OK"}
  PROVE  Busy(f)' = 0 /\ Permitted(f)'
  BY DEF Busy, Permitted

\* A command, the port for a PASV or a new client is answered, or handed to the
\* reactor, and no data connection is waited for.
LEMMA AnsweredKeeps ==
  ASSUME Orderly, IInv', NEW f \in Fds, NEW h, NEW act, Took(f, h, act),
         act \in {"READ", "PASV", "CTRL_ACCEPT"}, fault = "none",
         UNCHANGED <<disks, reactorVars>>, disk_pool' = disk_pool,
         Act(f)' \in {Act(f), "NONE", "DATA_WAITING", "DATA_PASV_OK"},
         sessions'[f] # NULL => sessions'[f].recv_command = <<>>,
         HeadStays, Sent(f, "DATA_WRITE")' = Sent(f, "DATA_WRITE"),
         \/ /\ Sent(f, "PASV")' = Sent(f, "PASV")
            /\ Ends(f)' = Ends(f) \/ Ends(f)' = Ends(f) + 1
         \/ /\ Sent(f, "PASV")' = Sent(f, "PASV") + 1 /\ Ends(f)' = Ends(f)
            /\ act = "READ" /\ h.buf[1].verb = "PASV",
         Told(f)' \subseteq Told(f) \cup (IF act = "PASV" THEN {h.port} ELSE {}),
         \A g \in Fds : g # f => /\ TasksStay(g) /\ NoticesStay(g) /\ sessions'[g] = sessions[g]
  PROVE  Kept
  <1>1. IInv /\ SessionTypeOK
    BY DEF Orderly, IInv, TypeOK
  <1>2. Busy(f) = 0 /\ Ends(f) = 0 /\ Sent(f, "PASV") = 0
    BY IdleFacts
  <1>3. Act(f)' \in {"NONE", "DATA_WAITING", "DATA_PASV_OK"}
    BY <1>1, <1>2, IdleAct
  <1>4. Busy(f)' = 0 /\ Permitted(f)'
    BY <1>3, IdleNext
  <1>5. \A g \in Fds : WorkStays(g)
    BY WorkUnchanged
  <1>6. \A g \in Fds : g # f => Apart(g)
    BY <1>1, <1>5, HandlerApart
  <1>7. Sent(f, "PASV")' + Ends(f)' + Busy(f)' <= 1
    BY <1>2, <1>4
  <1>8. Tells(f, h, act)
    BY <1>5 DEF Tells, WorkStays
  <1> QED
    BY <1>4, <1>5, <1>6, <1>7, <1>8, IdleHandled

LEMMA SessionAcceptKeeps ==
  ASSUME Orderly, IInv', NEW t \in SessionThreads, SessionAccept(t), fault = "none",
         UNCHANGED <<disks, reactorVars>>
  PROVE  Kept
  <1>h. PICK h : h = Head(session_pool[t])
    OBVIOUS
  <1>f. PICK f : f = h.fd
    OBVIOUS
  <1>1. /\ SessionTake(t, "CTRL_ACCEPT") /\ Post(f, 220, NULL) /\ disk_pool' = disk_pool
        /\ IF sessions[f] = NULL THEN Store(f, NewSession) ELSE sessions' = sessions
    BY <1>h, <1>f DEF SessionAccept
  <1>2. f \in Fds /\ Took(f, h, "CTRL_ACCEPT") /\ \A g \in Fds : g # f => TasksStay(g)
    BY <1>h, <1>f, <1>1, SessionTakes
  <1>3. IInv /\ SessionTypeOK /\ OneLine(f) /\ Connected(f) /\ ReactorStays(f)
    BY <1>2 DEF Orderly, IInv, TypeOK, Part, Took
  <1>4. 220 \in ReplyCodes
    BY DEF ReplyCodes
  <1>5. /\ HeadStays /\ Sent(f, "PASV")' = Sent(f, "PASV")
        /\ Sent(f, "DATA_WRITE")' = Sent(f, "DATA_WRITE")
        /\ Ends(f)' = Ends(f) + 1 /\ Told(f)' \subseteq Told(f)
        /\ \A g \in Fds : g # f => NoticesStay(g)
    BY <1>1, <1>2, <1>3, <1>4, AnswerPosted
  <1>6. /\ sessions'[f] = NewSession \/ sessions'[f] = sessions[f]
        /\ \A g \in Fds : g # f => sessions'[g] = sessions[g]
    BY <1>1, <1>2, <1>3, Stored
  <1>n. NewSession.data_action = "DATA_WAITING" /\ NewSession.recv_command = <<>>
    BY DEF NewSession
  <1>7. Act(f)' \in {Act(f), "DATA_WAITING", "NONE"}
    BY <1>6, <1>n DEF Act
  <1>8. sessions'[f] # NULL => sessions'[f].recv_command = <<>>
    BY <1>3, <1>6, <1>n DEF OneLine
  <1> QED
    BY <1>1, <1>2, <1>5, <1>6, <1>7, <1>8, AnsweredKeeps

LEMMA SessionPasvKeeps ==
  ASSUME Orderly, IInv', NEW t \in SessionThreads, SessionPasv(t), fault = "none",
         UNCHANGED <<disks, reactorVars>>
  PROVE  Kept
  <1>h. PICK h : h = Head(session_pool[t])
    OBVIOUS
  <1>f. PICK f : f = h.fd
    OBVIOUS
  <1>s. PICK s : s = sessions[f]
    OBVIOUS
  <1> DEFINE r == [s EXCEPT !.data_action = "DATA_PASV_OK"]
  <1>1. SessionTake(t, "PASV") /\ s # NULL /\ run_pasv(f, s, h.port)
    BY <1>h, <1>f, <1>s DEF SessionPasv, ForSession
  <1>2. /\ h \in SessionTask /\ f \in Fds /\ Took(f, h, "PASV")
        /\ \A g \in Fds : g # f => TasksStay(g)
    BY <1>h, <1>f, <1>1, SessionTakes
  <1>3. /\ IInv /\ SessionTypeOK /\ OneLine(f) /\ Connected(f) /\ ReactorStays(f)
        /\ h.action = "PASV"
    BY <1>2 DEF Orderly, IInv, TypeOK, Part, Took
  <1>4. h.port \in Ports
    BY <1>2, <1>3, SessionTaskFields
  <1>5. s \in Session
    BY <1>s, <1>1, <1>2, <1>3 DEF SessionTypeOK
  <1>6. /\ r \in Session /\ r.data_action = "DATA_PASV_OK" /\ r.recv_command = s.recv_command
        /\ s.recv_command = <<>>
    BY <1>s, <1>1, <1>3, <1>5 DEF Session, DataActions, OneLine
  <1>7. 227 \in ReplyCodes /\ 502 \in ReplyCodes
    BY DEF ReplyCodes
  <1>8. \/ Post(f, 227, h.port) /\ Store(f, r) /\ disk_pool' = disk_pool
        \/ Post(f, 502, NULL) /\ Store(f, s) /\ disk_pool' = disk_pool
    BY <1>1 DEF run_pasv, Answer
  <1> HIDE DEF r
  <1>9. /\ HeadStays /\ Sent(f, "PASV")' = Sent(f, "PASV")
        /\ Sent(f, "DATA_WRITE")' = Sent(f, "DATA_WRITE")
        /\ Ends(f)' = Ends(f) + 1 /\ Told(f)' \subseteq Told(f) \cup {h.port}
        /\ \A g \in Fds : g # f => NoticesStay(g)
    <2>1. CASE Post(f, 227, h.port)
      BY <2>1, <1>2, <1>3, <1>4, <1>7, AnswerPosted
    <2>2. CASE Post(f, 502, NULL)
      BY <2>2, <1>2, <1>3, <1>7, AnswerPosted
    <2> QED
      BY <1>8, <2>1, <2>2
  <1>10. /\ sessions'[f] = r \/ sessions'[f] = s
         /\ \A g \in Fds : g # f => sessions'[g] = sessions[g]
    BY <1>2, <1>3, <1>8, Stored
  <1>11. Act(f)' \in {Act(f), "DATA_PASV_OK", "NONE"}
    BY <1>s, <1>6, <1>10 DEF Act
  <1>12. sessions'[f].recv_command = <<>> /\ disk_pool' = disk_pool
    BY <1>6, <1>8, <1>10
  <1> QED
    BY <1>2, <1>9, <1>10, <1>11, <1>12, AnsweredKeeps

LEMMA SessionStorStartKeeps ==
  ASSUME Orderly, IInv', NEW t \in SessionThreads, SessionStorStart(t), fault = "none",
         UNCHANGED <<disks, reactorVars>>
  PROVE  Kept
  <1>h. PICK h : h = Head(session_pool[t])
    OBVIOUS
  <1>f. PICK f : f = h.fd
    OBVIOUS
  <1>1. /\ SessionTake(t, "STOR_START") /\ Post(f, 150, NULL) /\ disk_pool' = disk_pool
        /\ Store(f, sessions[f])
    BY <1>h, <1>f DEF SessionStorStart, ForSession, run_stor_start, Answer
  <1>2. f \in Fds /\ Took(f, h, "STOR_START") /\ \A g \in Fds : g # f => TasksStay(g)
    BY <1>h, <1>f, <1>1, SessionTakes
  <1>3. IInv /\ SessionTypeOK /\ Connected(f) /\ ReactorStays(f)
    BY <1>2 DEF Orderly, IInv, TypeOK, Took
  <1>4. 150 \in ReplyCodes
    BY DEF ReplyCodes
  <1>5. /\ HeadStays /\ Sent(f, "PASV")' = Sent(f, "PASV")
        /\ Sent(f, "DATA_WRITE")' = Sent(f, "DATA_WRITE")
        /\ Ends(f)' = Ends(f) /\ Told(f)' \subseteq Told(f)
        /\ \A g \in Fds : g # f => NoticesStay(g)
    BY <1>1, <1>2, <1>3, <1>4, AnswerPosted
  <1>6. \A g \in Fds : sessions'[g] = sessions[g]
    BY <1>1, <1>2, <1>3 DEF Store, SessionTypeOK
  <1>7. \A g \in Fds : WorkStays(g)
    BY <1>1, WorkUnchanged
  <1>8. \A g \in Fds : g # f => Apart(g)
    BY <1>2, <1>3, <1>5, <1>6, <1>7, HandlerApart
  <1>9. Tells(f, h, "STOR_START")
    BY <1>2, <1>5, <1>7 DEF Tells, WorkStays
  <1> QED
    BY <1>2, <1>5, <1>6, <1>7, <1>8, <1>9, SameHandled

LEMMA SessionTransOkKeeps ==
  ASSUME Orderly, IInv', NEW t \in SessionThreads, SessionTransOk(t), fault = "none",
         UNCHANGED <<disks, reactorVars>>
  PROVE  Kept
  <1>h. PICK h : h = Head(session_pool[t])
    OBVIOUS
  <1>f. PICK f : f = h.fd
    OBVIOUS
  <1>s. PICK s : s = sessions[f]
    OBVIOUS
  <1> DEFINE r == [s EXCEPT !.data_action = "DATA_WAITING"]
  <1>1. /\ SessionTake(t, "TRANS_OK") /\ PostTransferOk(f, 226) /\ disk_pool' = disk_pool
        /\ s # NULL /\ Store(f, r)
    BY <1>h, <1>f, <1>s DEF SessionTransOk, ForSession, run_transfer_ok
  <1>2. f \in Fds /\ Took(f, h, "TRANS_OK") /\ \A g \in Fds : g # f => TasksStay(g)
    BY <1>h, <1>f, <1>1, SessionTakes
  <1>3. IInv /\ SessionTypeOK /\ Connected(f) /\ ReactorStays(f) /\ OneLine(f)
    BY <1>2 DEF Orderly, IInv, TypeOK, Took, Part
  <1>4. 226 \in ReplyCodes /\ 226 \notin {150, 227}
    BY DEF ReplyCodes
  <1>5. /\ HeadStays /\ Sent(f, "PASV")' = Sent(f, "PASV")
        /\ Sent(f, "DATA_WRITE")' = Sent(f, "DATA_WRITE")
        /\ Ends(f)' = Ends(f) + 1 /\ Told(f)' \subseteq Told(f)
        /\ \A g \in Fds : g # f => NoticesStay(g)
    <2> HIDE DEF r
    <2> QED
      BY <1>1, <1>2, <1>3, <1>4, TransferOkPosted
  <1>6. s \in Session
    BY <1>s, <1>1, <1>2, <1>3 DEF SessionTypeOK
  <1>7. r \in Session /\ r.data_action = "DATA_WAITING" /\ r.recv_command = <<>>
    BY <1>s, <1>1, <1>3, <1>6 DEF Session, DataActions, OneLine
  <1> HIDE DEF r
  <1>8. sessions'[f] = r /\ \A g \in Fds : g # f => sessions'[g] = sessions[g]
    BY <1>1, <1>2, <1>3, Stored
  <1>9. Act(f)' = "DATA_WAITING" /\ sessions'[f].recv_command = <<>>
    BY <1>7, <1>8, SessionNullAssumption DEF Act
  <1>10. \A g \in Fds : WorkStays(g)
    BY <1>1, WorkUnchanged
  <1>11. \A g \in Fds : g # f => Apart(g)
    BY <1>2, <1>3, <1>5, <1>8, <1>10, HandlerApart
  <1>12. Tells(f, h, "TRANS_OK")
    BY <1>2, <1>5, <1>10 DEF Tells, WorkStays
  <1> QED
    BY <1>2, <1>5, <1>9, <1>10, <1>11, <1>12, EndHandled

LEMMA SessionDroppedKeeps ==
  ASSUME Orderly, IInv', NEW t \in SessionThreads, SessionDropped(t), fault = "none",
         UNCHANGED <<disks, reactorVars>>
  PROVE  Kept
  <1>h. PICK h : h = Head(session_pool[t])
    OBVIOUS
  <1>f. PICK f : f = h.fd
    OBVIOUS
  <1>1. PICK act : SessionTake(t, act)
    BY DEF SessionDropped
  <1>0. notify_pipe' = notify_pipe /\ disk_pool' = disk_pool /\ sessions' = sessions
    BY DEF SessionDropped
  <1>2. f \in Fds /\ Took(f, h, act) /\ \A g \in Fds : g # f => TasksStay(g)
    BY <1>h, <1>f, <1>1, SessionTakes
  <1>3. IInv /\ SessionTypeOK /\ Connected(f) /\ ReactorStays(f)
    BY <1>2 DEF Orderly, IInv, TypeOK, Took
  <1>5. /\ HeadStays /\ Sent(f, "PASV")' = Sent(f, "PASV")
        /\ Sent(f, "DATA_WRITE")' = Sent(f, "DATA_WRITE")
        /\ Ends(f)' = Ends(f) /\ Told(f)' \subseteq Told(f)
        /\ \A g \in Fds : g # f => NoticesStay(g)
    BY <1>0, <1>2, <1>3, NothingPosted
  <1>7. \A g \in Fds : WorkStays(g)
    BY <1>0, WorkUnchanged
  <1>8. \A g \in Fds : g # f => Apart(g)
    BY <1>0, <1>2, <1>3, <1>5, <1>7, HandlerApart
  <1>9. Tells(f, h, act)
    BY <1>2, <1>5, <1>7 DEF Tells, WorkStays
  <1> QED
    BY <1>0, <1>2, <1>5, <1>7, <1>8, <1>9, SameHandled

\* A sequence of one element.
LEMMA OneElement ==
  ASSUME NEW S, NEW q \in Seq(S), Len(q) = 1
  PROVE  Head(q) = q[1] /\ Tail(q) = <<>> /\ q[1] \in S
  <1>1. q # <<>> /\ q[1] \in S
    OBVIOUS
  <1>2. Tail(q) \in Seq(S) /\ Len(Tail(q)) = 0
    BY <1>1
  <1>3. Tail(q) = <<>>
    BY <1>2, EmptySeq
  <1>4. Head(q) = q[1]
    BY <1>1
  <1> QED
    BY <1>1, <1>3, <1>4

LEMMA SessionReadKeeps ==
  ASSUME Orderly, IInv', NEW t \in SessionThreads, SessionRead(t), fault = "none",
         UNCHANGED <<disks, reactorVars>>
  PROVE  Kept
  <1>h. PICK h : h = Head(session_pool[t])
    OBVIOUS
  <1>f. PICK f : f = h.fd
    OBVIOUS
  <1>s. PICK s : s = sessions[f]
    OBVIOUS
  <1>1. /\ SessionTake(t, "READ") /\ s # NULL
        /\ LET lines == s.recv_command \o h.buf IN
           run_fsm_command(f, [s EXCEPT !.recv_command = Tail(lines)], Head(lines))
    BY <1>h, <1>f, <1>s DEF SessionRead, ForSession
  <1>2. /\ h \in SessionTask /\ f \in Fds /\ Took(f, h, "READ")
        /\ \A g \in Fds : g # f => TasksStay(g)
    BY <1>h, <1>f, <1>1, SessionTakes
  <1>3. /\ IInv /\ SessionTypeOK /\ FileTypeOK /\ Connected(f) /\ ReactorStays(f) /\ OneLine(f)
        /\ h \in MyTasks(f) /\ h.action = "READ"
    BY <1>2 DEF Orderly, IInv, TypeOK, Took, Part
  <1>4. s \in Session /\ s.recv_command = <<>>
    BY <1>s, <1>1, <1>2, <1>3 DEF SessionTypeOK, OneLine
  <1>5. h.buf \in Seq(Command) /\ Len(h.buf) = 1
    BY <1>2, <1>3, SessionTaskFields DEF OneLine
  <1>6. s.recv_command \o h.buf = h.buf
    BY <1>4, <1>5
  <1>c. PICK c : c = h.buf[1]
    OBVIOUS
  <1>7. Head(h.buf) = c /\ Tail(h.buf) = <<>> /\ c \in Command
    BY <1>5, <1>c, OneElement
  <1>8. [s EXCEPT !.recv_command = <<>>] = s
    BY <1>4 DEF Session
  <1>9. run_fsm_command(f, s, c)
    BY <1>1, <1>6, <1>7, <1>8
  <1>10. CommandEnds(f, s, c)
    BY <1>2, <1>3, <1>4, <1>7, <1>9, CommandKinds
  <1>11. PICK r \in Session :
         /\ Store(f, r) /\ r.recv_command = <<>> /\ disk_pool' = disk_pool
         /\ \/ /\ \E code \in ReplyCodes \ {150, 226, 227} : Post(f, code, NULL)
               /\ r.data_action = s.data_action
            \/ PasvPost(f) /\ c.verb = "PASV" /\ r.data_action = s.data_action
            \/ notify_pipe' = notify_pipe /\ r.data_action = s.data_action
            \/ /\ notify_pipe' = notify_pipe /\ c.verb \in Transfers \cap VerbsOf(r.data_action)
               /\ \/ r.data_action = "DATA_LIST"
                  \/ r.data_action = "DATA_STOR" /\ r.upload_per
                  \/ r.data_action = "DATA_RETR" /\ r.download_per
    BY <1>4, <1>10 DEF CommandEnds
  <1>12. sessions'[f] = r /\ \A g \in Fds : g # f => sessions'[g] = sessions[g]
    BY <1>2, <1>3, <1>11, Stored
  <1>13. /\ r # NULL /\ Act(f)' = r.data_action /\ Act(f) = s.data_action
         /\ sessions'[f].recv_command = <<>>
    BY <1>s, <1>1, <1>11, <1>12, SessionNullAssumption DEF Act
  <1>14. \A g \in Fds : WorkStays(g)
    BY <1>11, WorkUnchanged
  <1>15. CASE \E code \in ReplyCodes \ {150, 226, 227} :
                Post(f, code, NULL) /\ r.data_action = s.data_action
    <2>1. PICK code \in ReplyCodes \ {150, 226, 227} :
                Post(f, code, NULL) /\ r.data_action = s.data_action
      BY <1>15
    <2>2. /\ HeadStays /\ Sent(f, "PASV")' = Sent(f, "PASV")
          /\ Sent(f, "DATA_WRITE")' = Sent(f, "DATA_WRITE")
          /\ Ends(f)' = Ends(f) + 1 /\ Told(f)' \subseteq Told(f)
          /\ \A g \in Fds : g # f => NoticesStay(g)
      BY <1>2, <1>3, <2>1, AnswerPosted
    <2> QED
      BY <1>2, <1>11, <1>12, <1>13, <2>1, <2>2, AnsweredKeeps
  <1>16. CASE PasvPost(f) /\ c.verb = "PASV" /\ r.data_action = s.data_action
    <2>1. /\ HeadStays /\ Sent(f, "PASV")' = Sent(f, "PASV") + 1
          /\ Sent(f, "DATA_WRITE")' = Sent(f, "DATA_WRITE")
          /\ Ends(f)' = Ends(f) /\ Told(f)' \subseteq Told(f)
          /\ \A g \in Fds : g # f => NoticesStay(g)
      BY <1>2, <1>3, <1>16, PasvPosted
    <2> QED
      BY <1>2, <1>c, <1>11, <1>12, <1>13, <1>16, <2>1, AnsweredKeeps
  <1>17. ASSUME notify_pipe' = notify_pipe
         PROVE  /\ HeadStays /\ Sent(f, "PASV")' = Sent(f, "PASV")
                /\ Sent(f, "DATA_WRITE")' = Sent(f, "DATA_WRITE")
                /\ Ends(f)' = Ends(f) /\ Told(f)' \subseteq Told(f)
                /\ \A g \in Fds : g # f => NoticesStay(g)
    BY <1>2, <1>3, <1>17, NothingPosted
  <1>18. CASE notify_pipe' = notify_pipe /\ r.data_action = s.data_action
    BY <1>2, <1>11, <1>12, <1>13, <1>17, <1>18, AnsweredKeeps
  <1>19. CASE /\ notify_pipe' = notify_pipe /\ c.verb \in Transfers \cap VerbsOf(r.data_action)
              /\ \/ r.data_action = "DATA_LIST"
                 \/ r.data_action = "DATA_STOR" /\ r.upload_per
                 \/ r.data_action = "DATA_RETR" /\ r.download_per
    <2>1. /\ HeadStays /\ Sent(f, "PASV")' = Sent(f, "PASV")
          /\ Sent(f, "DATA_WRITE")' = Sent(f, "DATA_WRITE")
          /\ Ends(f)' = Ends(f) /\ Told(f)' \subseteq Told(f)
          /\ \A g \in Fds : g # f => NoticesStay(g)
      BY <1>17, <1>19
    <2>2. Permitted(f)' /\ Busy(f)' = 1
      BY <1>12, <1>13, <1>19 DEF Permitted, Busy
    <2>3. Ends(f) = 0 /\ Sent(f, "PASV") = 0
      BY <1>2, IdleFacts
    <2>4. Sent(f, "PASV")' + Ends(f)' + Busy(f)' <= 1
      BY <2>1, <2>2, <2>3
    <2>5. \A g \in Fds : g # f => Apart(g)
      BY <1>2, <1>3, <1>12, <1>14, <2>1, HandlerApart
    <2>6. Tells(f, h, "READ")
      BY <1>2, <1>14, <2>1 DEF Tells, WorkStays
    <2>7. h.buf[1].verb \in Transfers \cap VerbsOf(Act(f)')
      BY <1>c, <1>13, <1>19
    <2> QED
      BY <1>2, <1>13, <1>14, <2>2, <2>4, <2>5, <2>6, <2>7, IdleHandled
  <1> QED
    BY <1>11, <1>15, <1>16, <1>18, <1>19

\* The connection is served when a command waits for it, and forgotten otherwise.
LEMMA SessionDataAcceptKeeps ==
  ASSUME Orderly, IInv', NEW t \in SessionThreads, SessionDataAccept(t), fault = "none",
         UNCHANGED <<disks, reactorVars>>
  PROVE  Kept
  <1>h. PICK h : h = Head(session_pool[t])
    OBVIOUS
  <1>f. PICK f : f = h.fd
    OBVIOUS
  <1>s. PICK s : s = sessions[f]
    OBVIOUS
  <1>1. SessionTake(t, "DATA_ACCEPT") /\ s # NULL
    BY <1>h, <1>f, <1>s DEF SessionDataAccept, ForSession
  <1>0. \/ s.data_action = "DATA_LIST" /\ run_list_load(f, s)
        \/ s.data_action = "DATA_STOR" /\ run_stor_load(f, s)
        \/ s.data_action = "DATA_RETR" /\ run_retr_load(f, s)
        \/ UNCHANGED <<sessions, notify_pipe, disk_pool, fault>>
    BY <1>h, <1>f, <1>s DEF SessionDataAccept
  <1>2. f \in Fds /\ Took(f, h, "DATA_ACCEPT") /\ \A g \in Fds : g # f => TasksStay(g)
    BY <1>h, <1>f, <1>1, SessionTakes
  <1>3. /\ IInv /\ SessionTypeOK /\ Connected(f) /\ ReactorStays(f) /\ OneLine(f)
        /\ Permitted(f)
    BY <1>2 DEF Orderly, IInv, TypeOK, Took, Part
  <1>4. s \in Session /\ s.recv_command = <<>> /\ Act(f) = s.data_action
    BY <1>s, <1>1, <1>2, <1>3 DEF SessionTypeOK, OneLine, Act
  <1>5. /\ 150 \in ReplyCodes
        /\ s.file_name \in Files \cup {NULL} /\ s.rest_size \in Nat
    BY <1>4 DEF ReplyCodes, Session
  <1>6. ASSUME Post(f, 150, NULL) \/ notify_pipe' = notify_pipe
        PROVE  /\ HeadStays /\ Sent(f, "PASV")' = Sent(f, "PASV")
               /\ Sent(f, "DATA_WRITE")' = Sent(f, "DATA_WRITE")
               /\ Ends(f)' = Ends(f) /\ Told(f)' \subseteq Told(f)
               /\ \A g \in Fds : g # f => NoticesStay(g)
    <2>1. CASE Post(f, 150, NULL)
      BY <2>1, <1>2, <1>3, <1>5, AnswerPosted
    <2>2. CASE notify_pipe' = notify_pipe
      BY <2>2, <1>2, <1>3, NothingPosted
    <2> QED
      BY <1>6, <2>1, <2>2
  <1>7. CASE s.data_action = "DATA_LIST" /\ run_list_load(f, s)
    <2> DEFINE r    == [s EXCEPT !.data_action = "DATA_INDEX_DOWNLOAD"]
               task == [fd |-> f, action |-> "INDEX_START"]
    <2>1. /\ r \in Session /\ r.data_action = "DATA_INDEX_DOWNLOAD" /\ r.recv_command = <<>>
          /\ task \in DiskTask /\ task.fd = f /\ task.action = "INDEX_START"
      BY <1>2, <1>4 DEF Session, DataActions, DiskTask
    <2>2. Post(f, 150, NULL) /\ Store(f, r) /\ post_to_disk(task)
      BY <1>7 DEF run_list_load
    <2> HIDE DEF r, task
    <2>3. sessions'[f] = r /\ \A g \in Fds : g # f => sessions'[g] = sessions[g]
      BY <1>2, <1>3, <2>2, Stored
    <2>4. /\ Act(f)' = "DATA_INDEX_DOWNLOAD" /\ sessions'[f].recv_command = <<>>
      BY <2>1, <2>3, SessionNullAssumption DEF Act
    <2>5. Busy(f) = 1 /\ VerbsOf(Act(f))' = VerbsOf(Act(f)) /\ Permitted(f)'
      BY <1>4, <1>7, <2>4 DEF Busy, VerbsOf, Permitted
    <2> QED
      BY <1>2, <1>6, <2>1, <2>2, <2>3, <2>4, <2>5, LoadHandled
  <1>8. CASE s.data_action = "DATA_RETR" /\ run_retr_load(f, s)
    <2> DEFINE r    == [s EXCEPT !.data_action = "DATA_FILE_DOWNLOAD"]
               task == [fd |-> f, action |-> "RETR_START",
                        path |-> s.file_name, rest |-> s.rest_size]
    <2>1. /\ r \in Session /\ r.data_action = "DATA_FILE_DOWNLOAD" /\ r.recv_command = <<>>
          /\ r.download_per = s.download_per
      BY <1>4 DEF Session, DataActions
    <2>2. task \in DiskTask /\ task.fd = f /\ task.action = "RETR_START"
      BY <1>2, <1>5 DEF DiskTask
    <2>3. Post(f, 150, NULL) /\ Store(f, r) /\ post_to_disk(task)
      BY <1>8 DEF run_retr_load
    <2> HIDE DEF r, task
    <2>4. sessions'[f] = r /\ \A g \in Fds : g # f => sessions'[g] = sessions[g]
      BY <1>2, <1>3, <2>3, Stored
    <2>5. /\ Act(f)' = "DATA_FILE_DOWNLOAD" /\ sessions'[f].recv_command = <<>>
      BY <2>1, <2>4, SessionNullAssumption DEF Act
    <2>6. Busy(f) = 1 /\ VerbsOf(Act(f))' = VerbsOf(Act(f))
      BY <1>4, <1>8, <2>5 DEF Busy, VerbsOf
    <2>7. Permitted(f)'
      BY <1>s, <1>3, <1>4, <1>8, <2>1, <2>4, <2>5 DEF Permitted
    <2> QED
      BY <1>2, <1>6, <2>2, <2>3, <2>4, <2>5, <2>6, <2>7, LoadHandled
  <1>9. CASE s.data_action = "DATA_STOR" /\ run_stor_load(f, s)
    <2> DEFINE task == [fd |-> f, action |-> "STOR_START",
                        path |-> s.file_name, rest |-> s.rest_size]
    <2>1. task \in DiskTask /\ task.fd = f /\ task.action = "STOR_START"
      BY <1>2, <1>5 DEF DiskTask
    <2>2. notify_pipe' = notify_pipe /\ sessions' = sessions /\ post_to_disk(task)
      BY <1>9 DEF run_stor_load
    <2> HIDE DEF task
    <2>3. /\ Act(f)' = "DATA_STOR" /\ sessions'[f].recv_command = <<>>
      BY <1>s, <1>1, <1>4, <1>9, <2>2 DEF Act
    <2>4. Busy(f) = 1 /\ VerbsOf(Act(f))' = VerbsOf(Act(f)) /\ Permitted(f)'
      BY <1>3, <1>4, <1>9, <2>2, <2>3 DEF Busy, VerbsOf, Permitted
    <2>5. \A g \in Fds : sessions'[g] = sessions[g]
      BY <2>2
    <2> QED
      BY <1>2, <1>6, <2>1, <2>2, <2>3, <2>4, <2>5, LoadHandled
  <1>10. CASE UNCHANGED <<sessions, notify_pipe, disk_pool, fault>>
    <2>1. \A g \in Fds : WorkStays(g)
      BY <1>10, WorkUnchanged
    <2>2. /\ HeadStays /\ Sent(f, "PASV")' = Sent(f, "PASV")
          /\ Sent(f, "DATA_WRITE")' = Sent(f, "DATA_WRITE")
          /\ Ends(f)' = Ends(f) /\ Told(f)' \subseteq Told(f)
          /\ \A g \in Fds : g # f => NoticesStay(g)
      BY <1>6, <1>10
    <2>3. \A g \in Fds : g # f => Apart(g)
      BY <1>2, <1>3, <1>10, <2>1, <2>2, HandlerApart
    <2>4. Tells(f, h, "DATA_ACCEPT")
      BY <1>2, <2>1, <2>2 DEF Tells, WorkStays
    <2> QED
      BY <1>2, <1>10, <2>1, <2>2, <2>3, <2>4, SameHandled
  <1> QED
    BY <1>0, <1>7, <1>8, <1>9, <1>10

LEMMA SessionKeeps ==
  ASSUME Orderly, IInv', NEW t \in SessionThreads, SessionThread(t)
  PROVE  Kept
  <1>1. /\ fault = "none" /\ UNCHANGED <<disks, reactorVars>>
        /\ \/ SessionAccept(t) \/ SessionPasv(t) \/ SessionDataAccept(t) \/ SessionStorStart(t)
           \/ SessionTransOk(t) \/ SessionRead(t) \/ SessionDropped(t)
    BY DEF SessionThread, SessionStep
  <1> QED
    BY <1>1, SessionAcceptKeeps, SessionPasvKeeps, SessionDataAcceptKeeps, SessionStorStartKeeps,
       SessionTransOkKeeps, SessionReadKeeps, SessionDroppedKeeps

-----------------------------------------------------------------------------
(* Steps of the disk threads.                                              *)

\* The disk task h of f has been taken; the reactor and the session threads
\* have what they had.
DiskTook(f, h, act) ==
  /\ fault = "none" /\ Connected(f) /\ h.action = act
  /\ \A a : Work(f, a) = (IF act = a THEN Work(f, a)' + 1 ELSE Work(f, a)')
  /\ StartOrder(f) =>
       /\ StartOrder(f)'
       /\ act \in {"INDEX_START", "RETR_START"} =>
            Work(f, "STORING")' = 0 /\ Work(f, "STOR_OK")' = 0
  /\ sessions'[f] = sessions[f] /\ ReactorStays(f)

LEMMA DiskTakes ==
  ASSUME Orderly, NEW t \in DiskThreads, NEW act, DiskTake(t, act), fault = "none",
         UNCHANGED <<sessions, reactorVars>>, NEW h, h = Head(disk_pool[t])
  PROVE  /\ h \in DiskTask /\ h.fd \in Fds /\ DiskTook(h.fd, h, act)
         /\ \A g \in Fds : g # h.fd => WorkStays(g)
  <1>1. PoolTypeOK
    BY DEF Orderly, IInv, TypeOK
  <1>2. /\ disk_pool[t] \in Seq(DiskTask) /\ disk_pool[t] # <<>> /\ h.action = act
        /\ h \in DiskTask /\ h \in Elements(disk_pool[t])
    <2>1. disk_pool[t] \in Seq(DiskTask) /\ disk_pool[t] # <<>> /\ h.action = act
      BY <1>1 DEF DiskTake, PoolTypeOK
    <2>2. h \in DiskTask
      BY <2>1
    <2>3. h \in Elements(disk_pool[t])
      BY <2>1, TailElements
    <2> QED
      BY <2>1, <2>2, <2>3
  <1>3. h.fd \in Fds
    BY <1>2, DiskTaskFields
  <1>4. ThreadOf(h.fd) = t
    BY <1>2 DEF Orderly, Routed
  <1>5. ASSUME NEW g \in Fds
        PROVE  /\ \A a : Work(g, a) =
                     (IF h.fd = g /\ act = a THEN Work(g, a)' + 1 ELSE Work(g, a)')
               /\ StartOrder(g) =>
                    /\ StartOrder(g)'
                    /\ h.fd = g /\ act \in {"INDEX_START", "RETR_START"} =>
                         Work(g, "STORING")' = 0 /\ Work(g, "STOR_OK")' = 0
    BY <1>1, <1>2, <1>4, WorkTaken
  <1>6. ASSUME NEW g \in Fds, g # h.fd PROVE WorkStays(g)
    BY <1>5, <1>6 DEF WorkStays
  <1>7. Work(h.fd, act) # 0
    <2>1. Work(h.fd, act) = Work(h.fd, act)' + 1
      BY <1>3, <1>5
    <2>2. Work(h.fd, act) = 0 => FALSE
      <3>1. DiskQueue(h.fd) = disk_pool[t]
        BY <1>4 DEF DiskQueue
      <3> QED
        BY <1>2, <3>1, CountNone DEF Work, Elements, Mine
    <2> QED
      BY <2>2
  <1>8. Connected(h.fd)
    BY <1>3, <1>7 DEF Orderly, Part, Absent
  <1>9. ReactorStays(h.fd) /\ sessions'[h.fd] = sessions[h.fd]
    BY DEF ReactorStays, reactorVars, Connected
  <1>10. DiskTook(h.fd, h, act)
    BY <1>2, <1>3, <1>5, <1>8, <1>9 DEF DiskTook
  <1> QED
    BY <1>2, <1>3, <1>6, <1>10

\* What is left of the work.
DiskCounts(f, act) ==
  /\ Starts(f) = (IF act \in {"INDEX_START", "RETR_START", "STOR_START"}
                  THEN Starts(f)' + 1 ELSE Starts(f)')
  /\ \A a \in {"INDEX_START", "RETR_START", "STOR_START", "STORING", "STOR_OK", "WRITE_DONE"} :
       /\ Work(f, a) \in Nat /\ Work(f, a)' \in Nat
       /\ Work(f, a) = (IF act = a THEN Work(f, a)' + 1 ELSE Work(f, a)')
       /\ Work(f, a)' <= Work(f, a)

LEMMA DiskSums ==
  ASSUME IInv, IInv', NEW f \in Fds, NEW h, NEW act, DiskTook(f, h, act)
  PROVE  DiskCounts(f, act)
  <1>1. \A a : Work(f, a) \in Nat /\ Work(f, a)' \in Nat
    BY NumbersType, NumbersNext DEF IInv, TypeOK, Numbers
  <1>2. \A a : Work(f, a) = (IF act = a THEN Work(f, a)' + 1 ELSE Work(f, a)')
    BY DEF DiskTook
  <1>3. ASSUME NEW a
        PROVE  Work(f, a)' <= Work(f, a)
    BY <1>1, <1>2
  <1>4. /\ Work(f, "INDEX_START") = (IF act = "INDEX_START" THEN Work(f, "INDEX_START")' + 1
                                                          ELSE Work(f, "INDEX_START")')
        /\ Work(f, "RETR_START") = (IF act = "RETR_START" THEN Work(f, "RETR_START")' + 1
                                                          ELSE Work(f, "RETR_START")')
        /\ Work(f, "STOR_START") = (IF act = "STOR_START" THEN Work(f, "STOR_START")' + 1
                                                          ELSE Work(f, "STOR_START")')
    BY <1>2
  <1>5. /\ Work(f, "INDEX_START")' \in Nat /\ Work(f, "RETR_START")' \in Nat
        /\ Work(f, "STOR_START")' \in Nat
    BY <1>1
  <1>6. Starts(f) = (IF act \in {"INDEX_START", "RETR_START", "STOR_START"}
                     THEN Starts(f)' + 1 ELSE Starts(f)')
    BY <1>4, <1>5 DEF Starts
  <1> QED
    BY <1>1, <1>2, <1>3, <1>6 DEF DiskCounts

\* What a disk thread tells others of f: no command, and no answer.
DiskTells(f) ==
  /\ Waits(f)' = Waits(f) /\ Accepts(f)' = Accepts(f) /\ Tasks(f, "PASV")' = Tasks(f, "PASV")
  /\ \A x \in MyTasks(f)' : x.action \in {"READ", "PASV"} => x \in MyTasks(f)
  /\ PasvOrder(f) => PasvOrder(f)'
  /\ HeadStays /\ Sent(f, "PASV")' = Sent(f, "PASV") /\ Ends(f)' = Ends(f)
  /\ Told(f)' \subseteq Told(f)

LEMMA DiskDone ==
  ASSUME Orderly, IInv', NEW f \in Fds, NEW h, NEW act, DiskTook(f, h, act), DiskTells(f),
         Under(f)' <= Under(f), KindsAgree(f)', DiskOrder(f)', OneBlock(f)',
         \A g \in Fds : g # f => Apart(g)
  PROVE  Kept
  <1>p. /\ IInv /\ Absent(f) /\ OneCommand(f) /\ OneLine(f) /\ OneTransfer(f)
        /\ Permitted(f) /\ InHand(f) /\ Accepting(f) /\ Rounds(f) /\ Quiet(f)
    BY DEF Orderly, Part
  <1>1. /\ Connected(f) /\ Connected(f)'
        /\ clients'[f] = clients[f] /\ peers'[f] = peers[f] /\ sessions'[f] = sessions[f]
        /\ data_sock' = data_sock /\ ready' = ready
    BY DEF DiskTook, ReactorStays
  <1>2. Act(f)' = Act(f) /\ Awaited(f)' = Awaited(f) /\ (Calls(f)' <=> Calls(f))
    BY <1>1 DEF Act, Awaited, Calls
  <1>3. UnderNat(f) /\ UnderNat(f)' /\ OpenNat(f) /\ OpenNat(f)'
    BY <1>p, <1>1, CountedType, CountedNext DEF AllCounted
  <1>4. Busy(f)' = Busy(f) /\ Unread(f)' = Unread(f)
    BY <1>1, <1>2 DEF Busy, Unread
  <1>5. Open(f)' = Open(f)
    BY <1>4 DEF Open, DiskTells
  <1>6. /\ Accepts(f)' = Accepts(f)
        /\ Under(f) = 0 => Under(f)' = 0
        /\ Accepts(f)' + Under(f)' >= 1 => Accepts(f) + Under(f) >= 1
        /\ Accepts(f) + Under(f) <= 1 => Accepts(f)' + Under(f)' <= 1
    BY <1>3 DEF DiskTells, UnderNat
  <1>7. /\ Told(f)' \subseteq Told(f) /\ PasvPorts(f)' \subseteq PasvPorts(f)
    BY DEF DiskTells, PasvPorts
  <1>8. Promised(f)' \subseteq Promised(f)
    BY <1>1, <1>7 DEF Promised
  <1>9. Absent(f)'
    BY <1>1 DEF Absent
  <1>10. OneCommand(f)'
    BY <1>p, <1>1, <1>2, <1>5 DEF OneCommand
  <1>11. OneLine(f)'
    BY <1>p, <1>1 DEF OneLine, DiskTells
  <1>12. OneTransfer(f)'
    BY <1>p, <1>2, <1>3 DEF OneTransfer, UnderNat
  <1>13. Permitted(f)'
    BY <1>p, <1>1, <1>2 DEF Permitted
  <1>14. InHand(f)'
    BY <1>p, <1>1, <1>2, <1>4, <1>7 DEF InHand, OnItsWay, DiskTells
  <1>15. Accepting(f)'
    BY <1>p, <1>1, <1>2, <1>6, <1>7 DEF Accepting, DiskTells
  <1>16. Rounds(f)'
    <2>1. <<"notify">> \in ready => Head(notify_pipe)' = Head(notify_pipe)
      BY <1>p DEF IInv, CallbacksValid, DiskTells, HeadStays
    <2> QED
      BY <1>p, <1>1, <1>2, <2>1 DEF Rounds, DiskTells
  <1>17. Quiet(f)'
    BY <1>p, <1>1, <1>6, <1>8 DEF Quiet
  <1>18. Mentions(f)' \subseteq Mentions(f)
    BY <1>1, <1>8 DEF Mentions
  <1>19. Part(f)'
    BY <1>9, <1>10, <1>11, <1>12, <1>13, <1>14, <1>15, <1>16, <1>17 DEF Part
  <1> QED
    BY <1>1, <1>18, <1>19, OnlyFor

\* A signal for a session thread.
LEMMA SignalPosted ==
  ASSUME IInv, IInv', NEW f \in Fds, NEW action \in {"STOR_START", "TRANS_OK"},
         post_to_session([fd |-> f, action |-> action])
  PROVE  /\ Waits(f)' = Waits(f) /\ Accepts(f)' = Accepts(f)
         /\ Tasks(f, "PASV")' = Tasks(f, "PASV")
         /\ Tasks(f, "TRANS_OK")' =
              (IF action = "TRANS_OK" THEN Tasks(f, "TRANS_OK") + 1 ELSE Tasks(f, "TRANS_OK"))
         /\ \A x \in MyTasks(f)' : x.action \in {"READ", "PASV"} => x \in MyTasks(f)
         /\ PasvOrder(f) => PasvOrder(f)'
         /\ \A g \in Fds : g # f => TasksStay(g)
  <1> DEFINE task == [fd |-> f, action |-> action]
  <1>1. task \in SessionTask /\ task.fd = f /\ task.action = action
    BY DEF SessionTask, SignalTasks
  <1>2. PoolTypeOK
    BY DEF IInv, TypeOK
  <1> HIDE DEF task
  <1>3. ASSUME NEW g \in Fds
        PROVE  /\ \A a : Tasks(g, a)' =
                     (IF f = g /\ action = a THEN Tasks(g, a) + 1 ELSE Tasks(g, a))
               /\ MyTasks(g)' = MyTasks(g) \cup (IF f = g THEN {task} ELSE {})
               /\ PasvOrder(g) => PasvOrder(g)'
    <2>1. post_to_session(task) /\ task.action # "DATA_ACCEPT"
      BY <1>1 DEF task
    <2> QED
      BY <1>1, <1>2, <2>1, TaskPosted
  <1>4. ASSUME NEW a \in {"READ", "PASV", "CTRL_ACCEPT", "DATA_ACCEPT"}
        PROVE  Tasks(f, a)' = Tasks(f, a)
    <2>1. action # a
      OBVIOUS
    <2> QED
      BY <1>3, <2>1
  <1>5. Waits(f)' = Waits(f) /\ Accepts(f)' = Accepts(f) /\ Tasks(f, "PASV")' = Tasks(f, "PASV")
    BY <1>4 DEF Waits, Accepts
  <1>6. \A x \in MyTasks(f)' : x.action \in {"READ", "PASV"} => x \in MyTasks(f)
    BY <1>1, <1>3
  <1>7. Tasks(f, "TRANS_OK")' =
          (IF action = "TRANS_OK" THEN Tasks(f, "TRANS_OK") + 1 ELSE Tasks(f, "TRANS_OK"))
    BY <1>3
  <1>8. ASSUME NEW g \in Fds, g # f PROVE TasksStay(g)
    BY <1>3, <1>8 DEF TasksStay
  <1> QED
    BY <1>3, <1>5, <1>6, <1>7, <1>8

LEMMA NoSignal ==
  ASSUME NEW f \in Fds, session_pool' = session_pool
  PROVE  /\ Waits(f)' = Waits(f) /\ Accepts(f)' = Accepts(f)
         /\ \A a : Tasks(f, a)' = Tasks(f, a)
         /\ \A x \in MyTasks(f)' : x.action \in {"READ", "PASV"} => x \in MyTasks(f)
         /\ PasvOrder(f) => PasvOrder(f)'
         /\ \A g \in Fds : TasksStay(g)
  <1>1. \A g \in Fds : TasksStay(g)
    BY TasksUnchanged
  <1>2. TasksStay(f)
    BY <1>1
  <1> QED
    BY <1>1, <1>2 DEF TasksStay, Waits, Accepts

\* The last element of a sequence.
LEMMA LastType ==
  ASSUME NEW X, NEW q \in Seq(X), NEW x, Append(q, x) \in Seq(X)
  PROVE  x \in X
  <1>1. q \in Seq(X \cup {x}) /\ Len(q) \in Nat
    OBVIOUS
  <1>2. Len(Append(q, x)) = Len(q) + 1 /\ Append(q, x)[Len(q) + 1] = x
    BY <1>1
  <1> QED
    BY <1>1, <1>2

\* A block for the data connection.
LEMMA BlockPosted ==
  ASSUME IInv, IInv', NEW f \in Fds, NEW data, DataPost(f, data), Connected(f), ReactorStays(f)
  PROVE  /\ HeadStays /\ Sent(f, "PASV")' = Sent(f, "PASV")
         /\ Sent(f, "DATA_WRITE")' = Sent(f, "DATA_WRITE") + 1
         /\ Ends(f)' = Ends(f)
         /\ Told(f)' \subseteq Told(f)
         /\ \A g \in Fds : g # f => NoticesStay(g)
  <1> DEFINE n == [fd |-> f, action |-> "DATA_WRITE", data |-> data]
  <1>2. n.fd = f /\ n.action = "DATA_WRITE" /\ ~EndsFor(n, f)
    BY DEF EndsFor
  <1>3. notify(n) /\ PoolTypeOK
    BY DEF DataPost, IInv, TypeOK
  <1> HIDE DEF n
  <1>1. n \in Notification
    <2>1. notify_pipe' = Append(notify_pipe, n)
      BY <1>3 DEF notify
    <2>2. notify_pipe \in Seq(Notification) /\ notify_pipe' \in Seq(Notification)
      BY DEF IInv, TypeOK, PoolTypeOK
    <2> QED
      BY <2>1, <2>2, LastType
  <1>4. /\ Wrote(f, n, "DATA_WRITE", EndsFor(n, f))
        /\ \A g \in Fds : g # f => NoticesStay(g)
    BY <1>1, <1>2, <1>3, PipeWritten
  <1>5. Ends(f)' = (IF EndsFor(n, f) THEN Ends(f) + 1 ELSE Ends(f))
    BY <1>4, EndsAfter DEF Wrote
  <1>6. Told(f)' \subseteq Told(f)
    BY <1>2, <1>4, ToldAfter DEF Wrote
  <1> QED
    BY <1>2, <1>4, <1>5, <1>6 DEF Wrote

\* A disk thread works for one client.
LEMMA DiskApart ==
  ASSUME IInv, NEW f \in Fds, fault = "none", UNCHANGED <<sessions, reactorVars>>, HeadStays,
         \A g \in Fds : g # f => /\ TasksStay(g) /\ NoticesStay(g) /\ WorkStays(g)
                                 /\ disks'[g] = disks[g]
  PROVE  \A g \in Fds : g # f => Apart(g)
  <1> SUFFICES ASSUME NEW g \in Fds, g # f PROVE Apart(g)
    OBVIOUS
  <1>1. sessions'[g] = sessions[g] /\ UNCHANGED reactorVars
    OBVIOUS
  <1> QED
    BY <1>1, OthersApart

\* A transfer begins.
LEMMA StartDone ==
  ASSUME Orderly, IInv', NEW f \in Fds, NEW h, NEW act, DiskTook(f, h, act), DiskTells(f),
         Tasks(f, "TRANS_OK")' = Tasks(f, "TRANS_OK"), disks'[f] # NULL,
         \/ act = "INDEX_START" /\ DAct(f)' \in {"DISK_INDEX_LOADING", "DISK_INDEX_FINISH"}
         \/ act = "RETR_START" /\ DAct(f)' \in {"DISK_RETR_LOADING", "DISK_RETR_FINISH"}
         \/ act = "STOR_START" /\ DAct(f)' \in UploadStates,
         fault' = "none"
           => Sent(f, "DATA_WRITE")' = (IF act = "STOR_START" THEN Sent(f, "DATA_WRITE")
                                                   ELSE Sent(f, "DATA_WRITE") + 1),
         \A g \in Fds : g # f => Apart(g)
  PROVE  Kept
  <1>p. /\ IInv /\ OneTransfer(f) /\ KindsAgree(f) /\ DiskOrder(f) /\ OneBlock(f)
        /\ Connected(f) /\ Connected(f)' /\ fault = "none" /\ clients'[f] = clients[f]
        /\ sessions'[f] = sessions[f]
    BY DEF Orderly, Part, DiskTook, ReactorStays
  <1>1. UnderNat(f) /\ UnderNat(f)' /\ DiskCounts(f, act)
    BY <1>p, CountedType, CountedNext, DiskSums DEF AllCounted
  <1>2. Starts(f) = Starts(f)' + 1
    BY <1>1 DEF DiskCounts
  <1>3. Under(f) <= 1
    BY <1>p, <1>1 DEF OneTransfer, UnderNat
  <1>4. Serves(f) = 0 /\ Under(f) = 1 /\ Starts(f)' = 0 /\ Tasks(f, "TRANS_OK") = 0
    BY <1>1, <1>2, <1>3 DEF Under, UnderNat
  <1>5. DAct(f) = "NONE" /\ Serves(f)' = 1 /\ Act(f)' = Act(f)
    BY <1>p, <1>4 DEF Serves, DAct, Act
  <1>6. Under(f)' = 1
    BY <1>4, <1>5 DEF Under
  <1>7. /\ Work(f, "INDEX_START")' = 0 /\ Work(f, "RETR_START")' = 0 /\ Work(f, "STOR_START")' = 0
    BY <1>4, PartsNext DEF AllParts
  <1>8. \A a \in {"INDEX_START", "RETR_START", "STOR_START"} : act = a => Work(f, a) > 0
    BY <1>1 DEF DiskCounts
  <1>9. KindsAgree(f)'
    BY <1>p, <1>5, <1>7, <1>8 DEF KindsAgree, UploadStates
  <1>10. DiskOrder(f)'
    BY <1>p DEF DiskOrder, DiskTook, DownloadStates, UploadStates
  <1>11. OneBlock(f)'
    <2>1. Work(f, "WRITE_DONE")' = Work(f, "WRITE_DONE")
      BY DEF DiskTook
    <2>2. /\ Sent(f, "DATA_WRITE") \in Nat /\ Work(f, "WRITE_DONE") \in Nat
          /\ Len(clients[f].data_write_q) \in Nat
      BY <1>p, NumbersType DEF IInv, TypeOK, Numbers, ReactorTypeOK, Connected, TCP_client
    <2>3. Sent(f, "DATA_WRITE") + Len(clients[f].data_write_q) + Work(f, "WRITE_DONE") = 0
      BY <1>p, <1>5 DEF OneBlock, DownloadStates
    <2>4. act = "STOR_START" <=> DAct(f)' \notin DownloadStates
      BY DEF DownloadStates, UploadStates
    <2>5. fault' = "none" =>
            Sent(f, "DATA_WRITE")' + Len(clients'[f].data_write_q) + Work(f, "WRITE_DONE")'
              = IF DAct(f)' \in DownloadStates THEN 1 ELSE 0
      BY <1>p, <2>1, <2>2, <2>3, <2>4
    <2> QED
      BY <2>5 DEF OneBlock
  <1>12. Under(f)' <= Under(f)
    BY <1>4, <1>6
  <1> QED
    BY <1>9, <1>10, <1>11, <1>12, DiskDone

LEMMA BlocksNat ==
  ASSUME IInv, NEW f \in Fds, Connected(f)
  PROVE  /\ Sent(f, "DATA_WRITE") \in Nat /\ Work(f, "WRITE_DONE") \in Nat
         /\ Len(clients[f].data_write_q) \in Nat
  BY NumbersType DEF IInv, TypeOK, Numbers, ReactorTypeOK, Connected, TCP_client

\* Which tasks continue which transfer.
LEMMA WhichGoesOn ==
  ASSUME Orderly, IInv', NEW f \in Fds, NEW h, NEW act, DiskTook(f, h, act)
  PROVE  /\ act = "WRITE_DONE" => DAct(f) \in DownloadStates
         /\ act \in {"STORING", "STOR_OK"} => DAct(f) \notin DownloadStates
  <1>1. IInv /\ DiskOrder(f) /\ OneBlock(f) /\ Connected(f) /\ fault = "none"
    BY DEF Orderly, Part, DiskTook
  <1>2. DiskCounts(f, act)
    BY <1>1, DiskSums
  <1>3. \A a \in {"STORING", "STOR_OK", "WRITE_DONE"} : act = a => Work(f, a) > 0
    BY <1>2 DEF DiskCounts
  <1>4. /\ Sent(f, "DATA_WRITE") \in Nat /\ Work(f, "WRITE_DONE") \in Nat
        /\ Len(clients[f].data_write_q) \in Nat
    BY <1>1, BlocksNat
  <1>5. act = "WRITE_DONE" => DAct(f) \in DownloadStates
    BY <1>1, <1>3, <1>4 DEF OneBlock
  <1>6. act \in {"STORING", "STOR_OK"} => DAct(f) \notin DownloadStates
    BY <1>1, <1>3 DEF DiskOrder
  <1> QED
    BY <1>5, <1>6

\* The states of a kind of transfer.
Kinds ==
  {{"NONE"}, {"DISK_INDEX_LOADING", "DISK_INDEX_FINISH"},
   {"DISK_RETR_LOADING", "DISK_RETR_FINISH"}, UploadStates}

\* A transfer goes on, or there is none: a block for a block.
LEMMA GoesOnDone ==
  ASSUME Orderly, IInv', NEW f \in Fds, NEW h, NEW act, DiskTook(f, h, act), DiskTells(f),
         act \in {"WRITE_DONE", "STORING", "STOR_OK"},
         Tasks(f, "TRANS_OK")' = Tasks(f, "TRANS_OK"), Serves(f)' = Serves(f),
         NEW K \in Kinds, DAct(f) \in K, DAct(f)' \in K,
         fault' = "none" => Sent(f, "DATA_WRITE")' = (IF act = "WRITE_DONE"
                                THEN Sent(f, "DATA_WRITE") + 1 ELSE Sent(f, "DATA_WRITE")),
         \A g \in Fds : g # f => Apart(g)
  PROVE  Kept
  <1>p. /\ IInv /\ OneTransfer(f) /\ KindsAgree(f) /\ DiskOrder(f) /\ OneBlock(f)
        /\ Connected(f) /\ Connected(f)' /\ fault = "none" /\ clients'[f] = clients[f]
        /\ sessions'[f] = sessions[f]
    BY DEF Orderly, Part, DiskTook, ReactorStays
  <1>1. UnderNat(f) /\ UnderNat(f)' /\ DiskCounts(f, act)
    BY <1>p, CountedType, CountedNext, DiskSums DEF AllCounted
  <1>2. Starts(f)' = Starts(f)
    BY <1>1 DEF DiskCounts
  <1>3. Under(f)' = Under(f)
    BY <1>2 DEF Under
  <1>4. Under(f)' <= Under(f)
    BY <1>1, <1>3 DEF UnderNat
  <1>5. Act(f)' = Act(f)
    BY <1>p DEF Act
  <1>6. \A a \in {"INDEX_START", "RETR_START", "STOR_START"} : Work(f, a)' > 0 => Work(f, a) > 0
    BY <1>1 DEF DiskCounts
  <1>7. KindsAgree(f)'
    BY <1>p, <1>5, <1>6 DEF KindsAgree, UploadStates, Kinds
  <1>8. DAct(f)' \in DownloadStates <=> DAct(f) \in DownloadStates
    BY DEF DownloadStates, UploadStates, Kinds
  <1>9. DiskOrder(f)'
    <2>1. \A a \in {"STORING", "STOR_OK"} : Work(f, a) = 0 => Work(f, a)' = 0
      BY <1>1 DEF DiskCounts
    <2> QED
      BY <1>p, <1>8, <2>1 DEF DiskOrder, DiskTook
  <1>10. OneBlock(f)'
    <2>1. Work(f, "WRITE_DONE") = (IF act = "WRITE_DONE" THEN Work(f, "WRITE_DONE")' + 1
                                   ELSE Work(f, "WRITE_DONE")')
      BY <1>1 DEF DiskCounts
    <2>2. /\ Sent(f, "DATA_WRITE") \in Nat /\ Work(f, "WRITE_DONE")' \in Nat
          /\ Len(clients[f].data_write_q) \in Nat
      BY <1>p, <1>1, BlocksNat DEF DiskCounts
    <2>3. Sent(f, "DATA_WRITE") + Len(clients[f].data_write_q) + Work(f, "WRITE_DONE")
            = IF DAct(f) \in DownloadStates THEN 1 ELSE 0
      BY <1>p DEF OneBlock
    <2>4. fault' = "none" =>
            Sent(f, "DATA_WRITE")' + Len(clients'[f].data_write_q) + Work(f, "WRITE_DONE")'
              = IF DAct(f)' \in DownloadStates THEN 1 ELSE 0
      BY <1>p, <1>8, <2>1, <2>2, <2>3
    <2> QED
      BY <2>4 DEF OneBlock
  <1> QED
    BY <1>4, <1>7, <1>9, <1>10, DiskDone

\* A transfer ends: a TRANS_OK for the session.
LEMMA EndDone ==
  ASSUME Orderly, IInv', NEW f \in Fds, NEW h, NEW act, DiskTook(f, h, act), DiskTells(f),
         act \in {"WRITE_DONE", "STOR_OK"}, disks[f] # NULL, disks'[f] = NULL,
         Tasks(f, "TRANS_OK")' = Tasks(f, "TRANS_OK") + 1,
         Sent(f, "DATA_WRITE")' = Sent(f, "DATA_WRITE"),
         \A g \in Fds : g # f => Apart(g)
  PROVE  Kept
  <1>p. /\ IInv /\ OneTransfer(f) /\ KindsAgree(f) /\ DiskOrder(f) /\ OneBlock(f)
        /\ Connected(f) /\ Connected(f)' /\ fault = "none" /\ clients'[f] = clients[f]
        /\ sessions'[f] = sessions[f]
    BY DEF Orderly, Part, DiskTook, ReactorStays
  <1>1. UnderNat(f) /\ UnderNat(f)' /\ DiskCounts(f, act)
    BY <1>p, CountedType, CountedNext, DiskSums DEF AllCounted
  <1>2. Starts(f)' = Starts(f) /\ Serves(f) = 1 /\ Serves(f)' = 0
    BY <1>1 DEF DiskCounts, Serves
  <1>3. Under(f)' = Under(f)
    BY <1>1, <1>2 DEF Under, UnderNat
  <1>4. Under(f)' <= Under(f)
    BY <1>1, <1>3 DEF UnderNat
  <1>5. Act(f)' = Act(f) /\ DAct(f)' = "NONE"
    BY <1>p DEF Act, DAct
  <1>6. \A a \in {"INDEX_START", "RETR_START", "STOR_START"} : Work(f, a)' > 0 => Work(f, a) > 0
    BY <1>1 DEF DiskCounts
  <1>7. KindsAgree(f)'
    BY <1>p, <1>5, <1>6 DEF KindsAgree, UploadStates
  <1>8. DiskOrder(f)'
    BY <1>p, <1>5 DEF DiskOrder, DiskTook, DownloadStates
  <1>9. OneBlock(f)'
    <2>1. Work(f, "WRITE_DONE") = (IF act = "WRITE_DONE" THEN Work(f, "WRITE_DONE")' + 1
                                   ELSE Work(f, "WRITE_DONE")')
      BY <1>1 DEF DiskCounts
    <2>2. /\ Sent(f, "DATA_WRITE") \in Nat /\ Work(f, "WRITE_DONE")' \in Nat
          /\ Len(clients[f].data_write_q) \in Nat
      BY <1>p, <1>1, BlocksNat DEF DiskCounts
    <2>3. Sent(f, "DATA_WRITE") + Len(clients[f].data_write_q) + Work(f, "WRITE_DONE")
            = IF DAct(f) \in DownloadStates THEN 1 ELSE 0
      BY <1>p DEF OneBlock
    <2>4. act = "WRITE_DONE" <=> DAct(f) \in DownloadStates
      BY WhichGoesOn
    <2>5. Sent(f, "DATA_WRITE")' + Len(clients'[f].data_write_q) + Work(f, "WRITE_DONE")' = 0
      BY <1>p, <2>1, <2>2, <2>3, <2>4
    <2> QED
      BY <1>5, <2>5 DEF OneBlock, DownloadStates
  <1> QED
    BY <1>4, <1>7, <1>8, <1>9, DiskDone

\* Before a transfer begins there is no disk_info.
LEMMA NothingServed ==
  ASSUME Orderly, IInv', NEW f \in Fds, NEW h, NEW act, DiskTook(f, h, act),
         act \in {"INDEX_START", "RETR_START", "STOR_START"}
  PROVE  disks[f] = NULL
  <1>p. IInv /\ OneTransfer(f)
    BY DEF Orderly, Part
  <1>1. UnderNat(f) /\ UnderNat(f)' /\ DiskCounts(f, act)
    BY <1>p, CountedType, CountedNext, DiskSums DEF AllCounted
  <1>2. Starts(f) = Starts(f)' + 1
    BY <1>1 DEF DiskCounts
  <1>3. Under(f) <= 1
    BY <1>p, <1>1 DEF OneTransfer, UnderNat
  <1>4. Serves(f) = 0
    BY <1>1, <1>2, <1>3 DEF Under, UnderNat
  <1> QED
    BY <1>4 DEF Serves

LEMMA DiskAdded ==
  ASSUME DiskTypeOK, NEW f \in Fds, disks[f] = NULL, NEW info \in DiskInfo, add_disk(f, info)
  PROVE  /\ disks'[f] = info /\ disks'[f] # NULL /\ DAct(f)' = info.data_action
         /\ \A g \in Fds : g # f => disks'[g] = disks[g]
  BY DiskNullAssumption DEF DiskTypeOK, add_disk, DAct

LEMMA ActionSet ==
  ASSUME DiskTypeOK, NEW f \in Fds, disks[f] # NULL, NEW action \in DiskActions,
         SetAction(f, action)
  PROVE  /\ disks'[f] # NULL /\ DAct(f)' = action
         /\ \A g \in Fds : g # f => disks'[g] = disks[g]
  <1>1. disks[f] \in DiskInfo
    BY DEF DiskTypeOK
  <1>2. PICK info : info = [disks[f] EXCEPT !.data_action = action]
    OBVIOUS
  <1>3. info \in DiskInfo /\ info.data_action = action
    BY <1>1, <1>2 DEF DiskInfo
  <1>4. disks' = [disks EXCEPT ![f] = info]
    BY <1>2 DEF SetAction, DiskTypeOK
  <1> QED
    BY <1>3, <1>4, DiskNullAssumption DEF DiskTypeOK, DAct

\* A task of a disk thread in terms of the parts: the transfer begins.
LEMMA StartKeeps ==
  ASSUME Orderly, IInv', NEW t \in DiskThreads, fault = "none", UNCHANGED <<sessions, reactorVars>>,
         NEW h, h = Head(disk_pool[t]), NEW act, DiskTake(t, act), NEW info \in DiskInfo,
         add_disk(h.fd, info),
         \/ act = "INDEX_START" /\ info.data_action \in {"DISK_INDEX_LOADING", "DISK_INDEX_FINISH"}
         \/ act = "RETR_START" /\ info.data_action \in {"DISK_RETR_LOADING", "DISK_RETR_FINISH"}
         \/ act = "STOR_START" /\ info.data_action = "DISK_STOR_START",
         IF act = "STOR_START" THEN post_to_session([fd |-> h.fd, action |-> "STOR_START"])
                               ELSE session_pool' = session_pool,
         \/ act = "STOR_START" /\ notify_pipe' = notify_pipe
         \/ act # "STOR_START" /\ \E data : DataPost(h.fd, data)
         \/ fault' # "none" /\ notify_pipe' = notify_pipe
  PROVE  Kept
  <1>f. PICK f : f = h.fd
    OBVIOUS
  <1>2. f \in Fds /\ DiskTook(f, h, act) /\ \A g \in Fds : g # f => WorkStays(g)
    BY <1>f, DiskTakes
  <1>3. IInv /\ DiskTypeOK /\ Connected(f) /\ ReactorStays(f)
    BY <1>2 DEF Orderly, IInv, TypeOK, DiskTook
  <1>4. disks[f] = NULL
    BY <1>2, NothingServed
  <1>5. /\ disks'[f] # NULL /\ DAct(f)' = info.data_action
        /\ \A g \in Fds : g # f => disks'[g] = disks[g]
    BY <1>f, <1>2, <1>3, <1>4, DiskAdded
  <1>6. /\ Waits(f)' = Waits(f) /\ Accepts(f)' = Accepts(f)
        /\ Tasks(f, "PASV")' = Tasks(f, "PASV") /\ Tasks(f, "TRANS_OK")' = Tasks(f, "TRANS_OK")
        /\ \A x \in MyTasks(f)' : x.action \in {"READ", "PASV"} => x \in MyTasks(f)
        /\ PasvOrder(f) => PasvOrder(f)'
        /\ \A g \in Fds : g # f => TasksStay(g)
    <2>1. CASE act = "STOR_START"
      BY <2>1, <1>f, <1>2, <1>3, SignalPosted
    <2>2. CASE act # "STOR_START"
      BY <2>2, <1>2, NoSignal
    <2> QED
      BY <2>1, <2>2
  <1>7. /\ HeadStays /\ Sent(f, "PASV")' = Sent(f, "PASV")
        /\ fault' = "none" => Sent(f, "DATA_WRITE")' =
             (IF act = "STOR_START" THEN Sent(f, "DATA_WRITE") ELSE Sent(f, "DATA_WRITE") + 1)
        /\ Ends(f)' = Ends(f) /\ Told(f)' \subseteq Told(f)
        /\ \A g \in Fds : g # f => NoticesStay(g)
    <2>1. CASE notify_pipe' = notify_pipe /\ (act = "STOR_START" \/ fault' # "none")
      BY <2>1, <1>2, <1>3, NothingPosted
    <2>2. ASSUME act # "STOR_START", NEW data, DataPost(h.fd, data)
          PROVE  /\ HeadStays /\ Sent(f, "PASV")' = Sent(f, "PASV")
                 /\ Sent(f, "DATA_WRITE")' = Sent(f, "DATA_WRITE") + 1
                 /\ Ends(f)' = Ends(f) /\ Told(f)' \subseteq Told(f)
                 /\ \A g \in Fds : g # f => NoticesStay(g)
      BY <2>2, <1>f, <1>2, <1>3, BlockPosted
    <2> QED
      BY <2>1, <2>2
  <1>8. DiskTells(f)
    BY <1>6, <1>7 DEF DiskTells
  <1>9. \A g \in Fds : g # f => Apart(g)
    BY <1>2, <1>3, <1>5, <1>6, <1>7, DiskApart
  <1> QED
    BY <1>2, <1>5, <1>6, <1>7, <1>8, <1>9, StartDone DEF UploadStates

LEMMA DiskIndexStartKeeps ==
  ASSUME Orderly, IInv', NEW t \in DiskThreads, fault = "none",
         UNCHANGED <<sessions, reactorVars>>, DiskIndexStart(t)
  PROVE  Kept
  <1>h. PICK h : h = Head(disk_pool[t])
    OBVIOUS
  <1>1. PICK names \in Directory :
          /\ DiskTake(t, "INDEX_START")
          /\ add_disk(h.fd, [data_action |-> IndexAction(Unlisted(names)),
                             file_handle |-> NoHandle, cur_dir |-> Unlisted(names)])
          /\ DataPost(h.fd, Lines(names))
          /\ session_pool' = session_pool
    BY <1>h DEF DiskIndexStart
  <1>2. names \in Seq(Files)
    BY DiskAssumption DEF Directory
  <1>3. PICK info : info = [data_action |-> IndexAction(Unlisted(names)),
                            file_handle |-> NoHandle, cur_dir |-> Unlisted(names)]
    OBVIOUS
  <1>4. /\ info \in DiskInfo
        /\ info.data_action \in {"DISK_INDEX_LOADING", "DISK_INDEX_FINISH"}
    BY <1>2, <1>3, ListingPiece DEF DiskInfo, IndexAction
  <1>5. PICK act : act = "INDEX_START"
    OBVIOUS
  <1>6. DiskTake(t, act) /\ add_disk(h.fd, info) /\ act # "STOR_START"
    BY <1>1, <1>3, <1>5
  <1> QED
    BY <1>h, <1>1, <1>4, <1>5, <1>6, StartKeeps

LEMMA DiskStorStartKeeps ==
  ASSUME Orderly, IInv', NEW t \in DiskThreads, fault = "none",
         UNCHANGED <<sessions, reactorVars>>, DiskStorStart(t)
  PROVE  Kept
  <1>h. PICK h : h = Head(disk_pool[t])
    OBVIOUS
  <1>1. PICK handle : handle = IF StorOpens(h) THEN NextHandle ELSE NoHandle
    OBVIOUS
  <1>2. handle \in Handles \cup {NoHandle}
    BY <1>1, NextHandleType DEF StorOpens, CanOpen
  <1>3. PICK info : info = [data_action |-> "DISK_STOR_START", file_handle |-> handle,
                            cur_dir |-> <<>>]
    OBVIOUS
  <1>4. info \in DiskInfo /\ info.data_action = "DISK_STOR_START"
    BY <1>2, <1>3 DEF DiskInfo, DiskActions
  <1>5. PICK act : act = "STOR_START"
    OBVIOUS
  <1>6. /\ DiskTake(t, act) /\ add_disk(h.fd, info) /\ notify_pipe' = notify_pipe
        /\ post_to_session([fd |-> h.fd, action |-> "STOR_START"])
    BY <1>h, <1>1, <1>3, <1>5 DEF DiskStorStart
  <1> QED
    BY <1>h, <1>4, <1>5, <1>6, StartKeeps

LEMMA DiskRetrStartKeeps ==
  ASSUME Orderly, IInv', NEW t \in DiskThreads, fault = "none",
         UNCHANGED <<sessions, reactorVars>>, DiskRetrStart(t) \/ DiskRetrStartFails(t)
  PROVE  Kept
  <1>h. PICK h : h = Head(disk_pool[t])
    OBVIOUS
  <1>a. PICK act : act = "RETR_START"
    OBVIOUS
  <1>1. act = "RETR_START" /\ act # "STOR_START"
    BY <1>a
  <1>2. CASE DiskRetrStart(t)
    <2>1. PICK data : data = BytesAt(h.path, h.rest)
      OBVIOUS
    <2>2. PICK info : info = [data_action |-> IF data # <<>> THEN "DISK_RETR_LOADING"
                                              ELSE "DISK_RETR_FINISH",
                              file_handle |-> NextHandle, cur_dir |-> <<>>]
      OBVIOUS
    <2>3. /\ DiskTake(t, act) /\ add_disk(h.fd, info) /\ DataPost(h.fd, data)
          /\ CanOpen(h.path) /\ session_pool' = session_pool
      BY <1>h, <1>1, <1>2, <2>1, <2>2 DEF DiskRetrStart
    <2>4. /\ info \in DiskInfo
          /\ info.data_action \in {"DISK_RETR_LOADING", "DISK_RETR_FINISH"}
      BY <2>2, <2>3, NextHandleType DEF DiskInfo, DiskActions, CanOpen
    <2> QED
      BY <1>h, <1>1, <2>3, <2>4, StartKeeps
  <1>3. CASE DiskRetrStartFails(t)
    <2>2. PICK info : info = [data_action |-> "DISK_RETR_FINISH", file_handle |-> NoHandle,
                              cur_dir |-> <<>>]
      OBVIOUS
    <2>3. /\ DiskTake(t, act) /\ add_disk(h.fd, info) /\ notify_pipe' = notify_pipe
          /\ fault' # "none" /\ session_pool' = session_pool
      BY <1>h, <1>1, <1>3, <2>2 DEF DiskRetrStartFails
    <2>4. info \in DiskInfo /\ info.data_action = "DISK_RETR_FINISH"
      BY <2>2 DEF DiskInfo, DiskActions
    <2> QED
      BY <1>h, <1>1, <2>3, <2>4, StartKeeps
  <1> QED
    BY <1>2, <1>3

\* A task of a disk thread in terms of the parts: the transfer goes on.
LEMMA GoesOnKeeps ==
  ASSUME Orderly, IInv', NEW t \in DiskThreads, fault = "none",
         UNCHANGED <<sessions, reactorVars>>,
         NEW h, h = Head(disk_pool[t]), NEW act, DiskTake(t, act),
         act \in {"WRITE_DONE", "STORING", "STOR_OK"},
         NEW K \in Kinds, DAct(h.fd) \in K, DAct(h.fd)' \in K,
         \A g \in Fds : g # h.fd => disks'[g] = disks[g],
         (disks'[h.fd] = NULL) <=> (disks[h.fd] = NULL),
         session_pool' = session_pool,
         \/ act # "WRITE_DONE" /\ notify_pipe' = notify_pipe
         \/ act = "WRITE_DONE" /\ \E data : DataPost(h.fd, data)
         \/ fault' # "none" /\ notify_pipe' = notify_pipe
  PROVE  Kept
  <1>f. PICK f : f = h.fd
    OBVIOUS
  <1>2. f \in Fds /\ DiskTook(f, h, act) /\ \A g \in Fds : g # f => WorkStays(g)
    BY <1>f, DiskTakes
  <1>3. IInv /\ Connected(f) /\ ReactorStays(f)
    BY <1>2 DEF Orderly, DiskTook
  <1>4. Serves(f)' = Serves(f) /\ DAct(f) \in K /\ DAct(f)' \in K
    BY <1>f DEF Serves
  <1>6. /\ Waits(f)' = Waits(f) /\ Accepts(f)' = Accepts(f)
        /\ Tasks(f, "PASV")' = Tasks(f, "PASV") /\ Tasks(f, "TRANS_OK")' = Tasks(f, "TRANS_OK")
        /\ \A x \in MyTasks(f)' : x.action \in {"READ", "PASV"} => x \in MyTasks(f)
        /\ PasvOrder(f) => PasvOrder(f)'
        /\ \A g \in Fds : g # f => TasksStay(g)
    BY <1>2, NoSignal
  <1>7. /\ HeadStays /\ Sent(f, "PASV")' = Sent(f, "PASV")
        /\ fault' = "none" => Sent(f, "DATA_WRITE")' =
             (IF act = "WRITE_DONE" THEN Sent(f, "DATA_WRITE") + 1 ELSE Sent(f, "DATA_WRITE"))
        /\ Ends(f)' = Ends(f) /\ Told(f)' \subseteq Told(f)
        /\ \A g \in Fds : g # f => NoticesStay(g)
    <2>1. CASE notify_pipe' = notify_pipe /\ (act # "WRITE_DONE" \/ fault' # "none")
      BY <2>1, <1>2, <1>3, NothingPosted
    <2>2. ASSUME act = "WRITE_DONE", NEW data, DataPost(h.fd, data)
          PROVE  /\ HeadStays /\ Sent(f, "PASV")' = Sent(f, "PASV")
                 /\ Sent(f, "DATA_WRITE")' = Sent(f, "DATA_WRITE") + 1
                 /\ Ends(f)' = Ends(f) /\ Told(f)' \subseteq Told(f)
                 /\ \A g \in Fds : g # f => NoticesStay(g)
      BY <2>2, <1>f, <1>2, <1>3, BlockPosted
    <2> QED
      BY <2>1, <2>2
  <1>8. DiskTells(f)
    BY <1>6, <1>7 DEF DiskTells
  <1>9. \A g \in Fds : g # f => Apart(g)
    BY <1>f, <1>2, <1>3, <1>6, <1>7, DiskApart
  <1> QED
    BY <1>2, <1>4, <1>6, <1>7, <1>8, <1>9, GoesOnDone

\* The disk_info that a task finds.
LEMMA TakenFor ==
  ASSUME Orderly, IInv', NEW t \in DiskThreads, fault = "none",
         UNCHANGED <<sessions, reactorVars>>,
         NEW h, h = Head(disk_pool[t]), NEW act, DiskTake(t, act),
         act \in {"WRITE_DONE", "STORING", "STOR_OK"}
  PROVE  /\ h.fd \in Fds /\ DiskTypeOK
         /\ act = "WRITE_DONE" => DAct(h.fd) \in DownloadStates
         /\ act \in {"STORING", "STOR_OK"} =>
              (DAct(h.fd) = "NONE" /\ disks[h.fd] = NULL) \/ DAct(h.fd) \in UploadStates
         /\ disks[h.fd] # NULL => disks[h.fd] \in DiskInfo /\ DAct(h.fd) = disks[h.fd].data_action
  <1>f. PICK f : f = h.fd
    OBVIOUS
  <1>1. f \in Fds /\ DiskTook(f, h, act)
    BY <1>f, DiskTakes
  <1>2. /\ act = "WRITE_DONE" => DAct(f) \in DownloadStates
        /\ act \in {"STORING", "STOR_OK"} => DAct(f) \notin DownloadStates
    BY <1>1, WhichGoesOn
  <1>3. DiskTypeOK
    BY DEF Orderly, IInv, TypeOK
  <1>4. disks[f] # NULL => disks[f] \in DiskInfo
    BY <1>1, <1>3 DEF DiskTypeOK
  <1>5. disks[f] # NULL => disks[f].data_action \in DiskActions
    BY <1>4 DEF DiskInfo
  <1>6. IF disks[f] = NULL THEN DAct(f) = "NONE" ELSE DAct(f) = disks[f].data_action
    BY DEF DAct
  <1>7. disks[f] # NULL => DAct(f) \in DownloadStates \/ DAct(f) \in UploadStates
    BY <1>5, <1>6 DEF DiskActions, DownloadStates, UploadStates
  <1> QED
    BY <1>f, <1>1, <1>2, <1>3, <1>4, <1>6, <1>7

LEMMA DownloadGoesOnKeeps ==
  ASSUME Orderly, IInv', NEW t \in DiskThreads, fault = "none",
         UNCHANGED <<sessions, reactorVars>>,
         DiskIndexLoading(t) \/ DiskRetrLoading(t) \/ DiskRetrLoadingFails(t)
  PROVE  Kept
  <1>h. PICK h : h = Head(disk_pool[t])
    OBVIOUS
  <1>a. PICK act : act = "WRITE_DONE"
    OBVIOUS
  <1>f. PICK f : f = h.fd
    OBVIOUS
  <1>1. DiskTake(t, act) /\ disks[f] # NULL /\ session_pool' = session_pool
    BY <1>h, <1>a, <1>f
    DEF DiskIndexLoading, DiskRetrLoading, DiskRetrLoadingFails, ForDisk
  <1>2. /\ f \in Fds /\ DiskTypeOK
        /\ disks[f] \in DiskInfo /\ DAct(f) = disks[f].data_action
    BY <1>h, <1>a, <1>f, <1>1, TakenFor
  <1>3. CASE DiskIndexLoading(t)
    <2>1. PICK names : names = disks[f].cur_dir
      OBVIOUS
    <2>2. PICK action : action = IndexAction(Unlisted(names))
      OBVIOUS
    <2>3. action \in {"DISK_INDEX_LOADING", "DISK_INDEX_FINISH"}
      BY <2>2 DEF IndexAction
    <2>4. PICK info : info = [disks[f] EXCEPT !.data_action = action, !.cur_dir = Unlisted(names)]
      OBVIOUS
    <2>5. info.data_action = action
      BY <1>2, <2>4 DEF DiskInfo
    <2>6. disks' = [disks EXCEPT ![f] = info]
      <3>1. disks' = [disks EXCEPT ![f].data_action = action, ![f].cur_dir = Unlisted(names)]
        BY <1>3, <1>h, <1>f, <2>1, <2>2 DEF DiskIndexLoading
      <3> QED
        BY <3>1, <2>4, <1>2 DEF DiskTypeOK
    <2>7. disks'[f] = info /\ \A g \in Fds : g # f => disks'[g] = disks[g]
      BY <2>6, <1>2 DEF DiskTypeOK
    <2>8. info # NULL
      <3>1. Unlisted(names) \in Seq(Files)
        BY <1>2, <2>1, ListingPiece DEF DiskInfo
      <3>2. info \in DiskInfo
        BY <1>2, <2>3, <2>4, <3>1 DEF DiskInfo, DiskActions
      <3> QED
        BY <3>2, DiskNullAssumption
    <2>9. DAct(f)' = action /\ disks'[f] # NULL
      BY <2>5, <2>7, <2>8 DEF DAct
    <2>10. DAct(f) = "DISK_INDEX_LOADING" /\ DataPost(f, Lines(names))
      BY <1>3, <1>h, <1>f, <1>2, <2>1 DEF DiskIndexLoading
    <2>11. PICK K \in Kinds : K = {"DISK_INDEX_LOADING", "DISK_INDEX_FINISH"}
      BY DEF Kinds
    <2>12. DAct(f) \in K /\ DAct(f)' \in K
      BY <2>3, <2>9, <2>10, <2>11
    <2> QED
      BY <1>h, <1>a, <1>f, <1>1, <1>2, <2>7, <2>9, <2>10, <2>12, GoesOnKeeps
  <1>4. CASE DiskRetrLoading(t) \/ DiskRetrLoadingFails(t)
    <2>1. DAct(f) = "DISK_RETR_LOADING"
      BY <1>4, <1>h, <1>f, <1>2 DEF DiskRetrLoading, DiskRetrLoadingFails
    <2>2. disks' = disks \/ SetAction(f, "DISK_RETR_FINISH")
      BY <1>4, <1>h, <1>f DEF DiskRetrLoading, DiskRetrLoadingFails
    <2>3. /\ disks'[f] # NULL /\ \A g \in Fds : g # f => disks'[g] = disks[g]
          /\ DAct(f)' \in {"DISK_RETR_LOADING", "DISK_RETR_FINISH"}
      <3>1. CASE disks' = disks
        BY <1>1, <2>1, <3>1 DEF DAct
      <3>2. CASE SetAction(f, "DISK_RETR_FINISH")
        BY <1>1, <1>2, <3>2, ActionSet DEF DiskActions
      <3> QED
        BY <2>2, <3>1, <3>2
    <2>4. PICK K \in Kinds : K = {"DISK_RETR_LOADING", "DISK_RETR_FINISH"}
      BY DEF Kinds
    <2>5. DAct(f) \in K /\ DAct(f)' \in K
      BY <2>1, <2>3, <2>4
    <2>6. \/ \E data : DataPost(f, data)
          \/ fault' # "none" /\ notify_pipe' = notify_pipe
      BY <1>4, <1>h, <1>f DEF DiskRetrLoading, DiskRetrLoadingFails
    <2> QED
      BY <1>h, <1>a, <1>f, <1>1, <1>2, <2>3, <2>5, <2>6, GoesOnKeeps
  <1> QED
    BY <1>3, <1>4

LEMMA UploadGoesOnKeeps ==
  ASSUME Orderly, IInv', NEW t \in DiskThreads, fault = "none",
         UNCHANGED <<sessions, reactorVars>>,
         DiskStoring(t) \/ DiskStoringFails(t) \/ DiskStorOkFails(t)
  PROVE  Kept
  <1>h. PICK h : h = Head(disk_pool[t])
    OBVIOUS
  <1>f. PICK f : f = h.fd
    OBVIOUS
  <1>1. PICK act \in {"STORING", "STOR_OK"} : DiskTake(t, act)
    BY DEF DiskStoring, DiskStoringFails, DiskStorOkFails, ForDisk
  <1>2. /\ disks[f] # NULL /\ session_pool' = session_pool /\ notify_pipe' = notify_pipe
        /\ \E action \in UploadStates : SetAction(f, action)
    BY <1>h, <1>f DEF DiskStoring, DiskStoringFails, DiskStorOkFails, ForDisk, UploadStates
  <1>3. f \in Fds /\ DiskTypeOK /\ DAct(f) \in UploadStates
    BY <1>h, <1>f, <1>1, <1>2, TakenFor
  <1>4. PICK action \in UploadStates : SetAction(f, action)
    BY <1>2
  <1>5. action \in DiskActions
    BY DEF UploadStates, DiskActions
  <1>6. /\ disks'[f] # NULL /\ DAct(f)' \in UploadStates
        /\ \A g \in Fds : g # f => disks'[g] = disks[g]
    BY <1>2, <1>3, <1>4, <1>5, ActionSet
  <1>7. PICK K \in Kinds : K = UploadStates
    BY DEF Kinds
  <1>8. DAct(f) \in K /\ DAct(f)' \in K /\ act # "WRITE_DONE"
    BY <1>3, <1>6, <1>7
  <1> QED
    BY <1>h, <1>f, <1>1, <1>2, <1>3, <1>6, <1>8, GoesOnKeeps

LEMMA NothingToDoKeeps ==
  ASSUME Orderly, IInv', NEW t \in DiskThreads, fault = "none",
         UNCHANGED <<sessions, reactorVars>>,
         DiskMissing(t) \/ DiskWriteDoneIgnored(t)
  PROVE  Kept
  <1>h. PICK h : h = Head(disk_pool[t])
    OBVIOUS
  <1>f. PICK f : f = h.fd
    OBVIOUS
  <1>1. PICK act \in {"WRITE_DONE", "STORING", "STOR_OK"} :
          /\ DiskTake(t, act)
          /\ \/ disks[f] = NULL
             \/ act = "WRITE_DONE" /\ disks[f] # NULL /\ disks[f].data_action \in UploadStates
    BY <1>h, <1>f DEF DiskMissing, DiskWriteDoneIgnored, ForDisk, UploadStates
  <1>2. disks' = disks /\ session_pool' = session_pool /\ notify_pipe' = notify_pipe
    BY DEF DiskMissing, DiskWriteDoneIgnored
  <1>3. /\ f \in Fds
        /\ act = "WRITE_DONE" => DAct(f) \in DownloadStates
        /\ disks[f] # NULL => DAct(f) = disks[f].data_action
    BY <1>h, <1>f, <1>1, TakenFor
  <1>4. act # "WRITE_DONE" /\ disks[f] = NULL /\ DAct(f) = "NONE"
    BY <1>1, <1>3 DEF DAct, DownloadStates, UploadStates
  <1>5. DAct(f)' = "NONE"
    BY <1>2, <1>4 DEF DAct
  <1>6. PICK K \in Kinds : K = {"NONE"}
    BY DEF Kinds
  <1>7. DAct(f) \in K /\ DAct(f)' \in K
    BY <1>4, <1>5, <1>6
  <1> QED
    BY <1>h, <1>f, <1>1, <1>2, <1>4, <1>7, GoesOnKeeps

LEMMA TransferEndsKeeps ==
  ASSUME Orderly, IInv', NEW t \in DiskThreads, fault = "none",
         UNCHANGED <<sessions, reactorVars>>,
         DiskDownloadDone(t) \/ DiskStorOk(t)
  PROVE  Kept
  <1>h. PICK h : h = Head(disk_pool[t])
    OBVIOUS
  <1>f. PICK f : f = h.fd
    OBVIOUS
  <1>1. PICK act \in {"WRITE_DONE", "STOR_OK"} : DiskTake(t, act)
    BY DEF DiskDownloadDone, DiskStorOk, ForDisk
  <1>2. /\ disks[f] # NULL /\ notify_pipe' = notify_pipe
        /\ disks' = [disks EXCEPT ![f] = NULL]
        /\ post_to_session([fd |-> f, action |-> "TRANS_OK"])
    BY <1>h, <1>f DEF DiskDownloadDone, DiskStorOk, ForDisk, TransOk, del_disk
  <1>3. f \in Fds /\ DiskTook(f, h, act) /\ \A g \in Fds : g # f => WorkStays(g)
    BY <1>h, <1>f, <1>1, DiskTakes
  <1>4. IInv /\ DiskTypeOK /\ Connected(f) /\ ReactorStays(f)
    BY <1>3 DEF Orderly, IInv, TypeOK, DiskTook
  <1>5. disks'[f] = NULL /\ \A g \in Fds : g # f => disks'[g] = disks[g]
    BY <1>2, <1>3, <1>4 DEF DiskTypeOK
  <1>6. /\ Waits(f)' = Waits(f) /\ Accepts(f)' = Accepts(f)
        /\ Tasks(f, "PASV")' = Tasks(f, "PASV")
        /\ Tasks(f, "TRANS_OK")' = Tasks(f, "TRANS_OK") + 1
        /\ \A x \in MyTasks(f)' : x.action \in {"READ", "PASV"} => x \in MyTasks(f)
        /\ PasvOrder(f) => PasvOrder(f)'
        /\ \A g \in Fds : g # f => TasksStay(g)
    BY <1>2, <1>3, <1>4, SignalPosted
  <1>7. /\ HeadStays /\ Sent(f, "PASV")' = Sent(f, "PASV")
        /\ Sent(f, "DATA_WRITE")' = Sent(f, "DATA_WRITE")
        /\ Ends(f)' = Ends(f) /\ Told(f)' \subseteq Told(f)
        /\ \A g \in Fds : g # f => NoticesStay(g)
    BY <1>2, <1>3, <1>4, NothingPosted
  <1>8. DiskTells(f)
    BY <1>6, <1>7 DEF DiskTells
  <1>9. \A g \in Fds : g # f => Apart(g)
    BY <1>3, <1>4, <1>5, <1>6, <1>7, DiskApart
  <1> QED
    BY <1>1, <1>2, <1>3, <1>5, <1>6, <1>7, <1>8, <1>9, EndDone

\* What is known of the clients stays true in every step of a disk thread.
LEMMA DiskKeeps ==
  ASSUME Orderly, IInv', NEW t \in DiskThreads, DiskThread(t)
  PROVE  Kept
  <1>1. fault = "none" /\ DiskStep(t) /\ UNCHANGED <<sessions, reactorVars>>
    BY DEF DiskThread
  <1> QED
    BY <1>1, DiskIndexStartKeeps, DiskStorStartKeeps, DiskRetrStartKeeps, DownloadGoesOnKeeps,
       UploadGoesOnKeeps, NothingToDoKeeps, TransferEndsKeeps DEF DiskStep
=============================================================================
