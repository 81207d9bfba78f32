---------------------------- MODULE TransferProofs ----------------------------
(***************************************************************************)
(* The steps of the reactor and of the clients keep what OrderlyProofs     *)
(* says of every client, and what follows for all behaviours.              *)
(***************************************************************************)
EXTENDS OrderlyProofs

-----------------------------------------------------------------------------
(* Steps of the reactor.                                                   *)

\* The reactor works for f: what the other threads have of f stays.
Serviced(f) ==
  /\ Connected(f) /\ Connected(f)'
  /\ sessions'[f] = sessions[f] /\ disks'[f] = disks[f]
  /\ peers'[f].st = peers[f].st /\ peers'[f].wait = peers[f].wait
  /\ peers'[f].xfer = peers[f].xfer /\ peers'[f].port = peers[f].port
  /\ \A a \in {"INDEX_START", "RETR_START", "STOR_START"} : Work(f, a)' = Work(f, a)
  /\ Tasks(f, "TRANS_OK")' = Tasks(f, "TRANS_OK")

LEMMA ServicedKeeps ==
  ASSUME Orderly, NEW f \in Fds, Serviced(f), Open(f)' <= Open(f), OpenNat(f), OpenNat(f)'
  PROVE  /\ Under(f)' = Under(f) /\ Act(f)' = Act(f) /\ DAct(f)' = DAct(f)
         /\ Busy(f)' = Busy(f) /\ Awaited(f)' = Awaited(f)
         /\ Absent(f)' /\ OneCommand(f)' /\ OneTransfer(f)' /\ KindsAgree(f)' /\ Permitted(f)'
  <1>p. OneCommand(f) /\ OneTransfer(f) /\ KindsAgree(f) /\ Permitted(f)
    BY DEF Orderly, Part
  <1>1. Act(f)' = Act(f) /\ DAct(f)' = DAct(f) /\ Serves(f)' = Serves(f)
    BY DEF Serviced, Act, DAct, Serves
  <1>2. Busy(f)' = Busy(f) /\ Awaited(f)' = Awaited(f)
    BY <1>1 DEF Busy, Awaited, Serviced
  <1>3. Under(f)' = Under(f)
    BY <1>1 DEF Serviced, Under, Starts
  <1>4. Absent(f)'
    BY DEF Absent, Serviced
  <1>5. OneCommand(f)'
    BY <1>p, <1>2 DEF OneCommand, Serviced, OpenNat
  <1>6. OneTransfer(f)'
    BY <1>p, <1>1, <1>3 DEF OneTransfer
  <1>7. KindsAgree(f)'
    BY <1>p, <1>1 DEF KindsAgree, Serviced
  <1>8. Permitted(f)'
    BY <1>p, <1>1 DEF Permitted, Serviced
  <1> QED
    BY <1>1, <1>2, <1>3, <1>4, <1>5, <1>6, <1>7, <1>8

\* The commands and the ports of f stay where they are, or answers move on.
LinesKeep(f) ==
  /\ peers'[f].inq = peers[f].inq
  /\ \A x \in MyTasks(f)' : x.action \in {"READ", "PASV"} => x \in MyTasks(f)
  /\ Tasks(f, "PASV")' = Tasks(f, "PASV")
  /\ Sent(f, "PASV") = 0 => Sent(f, "PASV")' = 0
  /\ Told(f)' \subseteq Told(f)

LEMMA SameLines ==
  ASSUME Orderly, NEW f \in Fds, Serviced(f), LinesKeep(f), Busy(f)' = Busy(f),
         Act(f)' = Act(f)
  PROVE  OneLine(f)' /\ InHand(f)'
  <1>p. OneLine(f) /\ InHand(f) /\ Connected(f)
    BY DEF Orderly, Part, Serviced
  <1>1. OneLine(f)'
    BY <1>p DEF OneLine, LinesKeep, Serviced
  <1>2. Awaited(f)' = Awaited(f)
    BY DEF Awaited, Serviced
  <1>3. InHand(f)'
    BY <1>p, <1>2 DEF InHand, OnItsWay, LinesKeep, Serviced
  <1> QED
    BY <1>1, <1>3

\* The data connection of f stays, or goes.
SocketsKeep(f) ==
  /\ \/ /\ Calls(f)' = Calls(f) /\ clients'[f].ev_data_accept = clients[f].ev_data_accept
        /\ <<"data_accept", f>> \in ready' <=> <<"data_accept", f>> \in ready
     \/ ~Calls(f)' /\ <<"data_accept", f>> \notin ready'
  /\ clients'[f].data_fd \in {clients[f].data_fd, NULL}
  /\ \A p \in Promised(f) : /\ data_sock'[p].peer = data_sock[p].peer
                            /\ data_sock[p].inq = <<>> => data_sock'[p].inq = <<>>
  /\ Accepts(f)' = Accepts(f) /\ Under(f)' = Under(f)
  /\ PasvOrder(f) => PasvOrder(f)'

\* What f is told stays, or comes to it.
PortsTold(f) ==
  /\ Tasks(f, "PASV")' = Tasks(f, "PASV")
  /\ PasvPorts(f)' \subseteq PasvPorts(f)
  /\ Told(f)' \subseteq Told(f)

LEMMA SameSockets ==
  ASSUME Orderly, NEW f \in Fds, Serviced(f), SocketsKeep(f), PortsTold(f)
  PROVE  Accepting(f)' /\ Quiet(f)' /\ Promised(f)' \subseteq Promised(f)
  <1>p. Accepting(f) /\ Quiet(f) /\ InHand(f) /\ Connected(f)
    BY DEF Orderly, Part, Serviced
  <1>1. Promised(f)' \subseteq Promised(f)
    BY DEF Promised, Serviced, PortsTold
  <1>2. peers[f].port # NULL =>
          /\ data_sock'[peers[f].port].peer = data_sock[peers[f].port].peer
          /\ data_sock[peers[f].port].inq = <<>> => data_sock'[peers[f].port].inq = <<>>
    BY DEF Promised, SocketsKeep
  <1>3. peers[f].xfer # NULL => peers[f].port # NULL
    BY <1>p DEF InHand
  <1>4. Accepting(f)'
    <2>1. CASE /\ Calls(f)' = Calls(f) /\ clients'[f].ev_data_accept = clients[f].ev_data_accept
               /\ <<"data_accept", f>> \in ready' <=> <<"data_accept", f>> \in ready
      BY <1>p, <1>2, <1>3, <2>1 DEF Accepting, Serviced, PortsTold, SocketsKeep
    <2>2. CASE ~Calls(f)' /\ <<"data_accept", f>> \notin ready'
      BY <1>p, <1>2, <1>3, <2>2 DEF Accepting, Serviced, PortsTold, SocketsKeep
    <2> QED
      BY <2>1, <2>2 DEF SocketsKeep
  <1>5. Quiet(f)'
    BY <1>p, <1>1, <1>2, <1>3 DEF Quiet, Serviced, SocketsKeep
  <1> QED
    BY <1>1, <1>4, <1>5

\* The round goes on.
RoundKeeps(f) ==
  /\ <<"read", f>> \in ready' => <<"read", f>> \in ready
  /\ <<"notify">> \in ready' => <<"notify">> \in ready /\ Head(notify_pipe)' = Head(notify_pipe)

LEMMA SameRound ==
  ASSUME Orderly, NEW f \in Fds, Serviced(f), LinesKeep(f), SocketsKeep(f), RoundKeeps(f)
  PROVE  Rounds(f)'
  <1>p. Rounds(f) /\ Connected(f)
    BY DEF Orderly, Part, Serviced
  <1>1. CASE /\ Calls(f)' = Calls(f)
             /\ <<"data_accept", f>> \in ready' <=> <<"data_accept", f>> \in ready
    BY <1>p, <1>1 DEF Rounds, RoundKeeps, LinesKeep, Serviced
  <1>2. CASE ~Calls(f)' /\ <<"data_accept", f>> \notin ready'
    BY <1>p, <1>2 DEF Rounds, RoundKeeps, LinesKeep, Serviced
  <1> QED
    BY <1>1, <1>2 DEF SocketsKeep

\* The reactor works for f, and its commands and ports stay.
LEMMA ServicedPart ==
  ASSUME Orderly, IInv', NEW f \in Fds, Serviced(f), LinesKeep(f), SocketsKeep(f),
         RoundKeeps(f), Open(f)' <= Open(f), DiskOrder(f)', OneBlock(f)'
  PROVE  Part(f)' /\ Promised(f)' \subseteq Promised(f)
  <1>1. OpenNat(f) /\ OpenNat(f)'
    BY CountedType, CountedNext DEF AllCounted, Serviced, Orderly
  <1>2. /\ Act(f)' = Act(f) /\ Busy(f)' = Busy(f)
        /\ Absent(f)' /\ OneCommand(f)' /\ OneTransfer(f)' /\ KindsAgree(f)' /\ Permitted(f)'
    BY <1>1, ServicedKeeps
  <1>3. OneLine(f)' /\ InHand(f)'
    BY <1>2, SameLines
  <1>4. PortsTold(f)
    BY DEF LinesKeep, PortsTold, PasvPorts
  <1>5. Accepting(f)' /\ Quiet(f)' /\ Promised(f)' \subseteq Promised(f)
    BY <1>4, SameSockets
  <1>6. Rounds(f)'
    BY SameRound
  <1> QED
    BY <1>2, <1>3, <1>5, <1>6 DEF Part

\* A step is about f, and opens no socket but free ones.
LEMMA PortsAdded ==
  ASSUME PortsOwn, NEW f \in Fds,
         \A g \in Fds : g # f /\ Connected(g)'
                          => Connected(g) /\ Mentions(g)' \subseteq Mentions(g),
         Connected(f)' => \A p \in Mentions(f)' :
           \/ Connected(f) /\ p \in Mentions(f)
           \/ p \in Ports /\ data_sock[p].st = "free" /\ data_sock'[p].st # "free",
         \A p \in Ports : data_sock[p].st # "free" => data_sock'[p].st # "free"
  PROVE  PortsOwn'
  <1>1. ASSUME NEW g \in Fds, Connected(g)', NEW p \in Mentions(g)'
        PROVE  p \in Ports /\ data_sock'[p].st # "free"
    BY <1>1 DEF PortsOwn
  <1>2. ASSUME NEW g \in Fds, NEW h \in Fds, g # h, Connected(g)', Connected(h)'
        PROVE  Mentions(g)' \cap Mentions(h)' = {}
    <2>1. ASSUME NEW k \in Fds, k # f, Connected(k)', Connected(f)'
          PROVE  Mentions(k)' \cap Mentions(f)' = {}
      BY <2>1 DEF PortsOwn
    <2>2. CASE g # f /\ h # f
      BY <1>2, <2>2 DEF PortsOwn
    <2> QED
      BY <1>2, <2>1, <2>2
  <1> QED
    BY <1>1, <1>2 DEF PortsOwn

LEMMA ServicedDone ==
  ASSUME Orderly, NEW f \in Fds, Part(f)', SocksFresh',
         Connected(f)' => \A p \in Mentions(f)' :
           \/ Connected(f) /\ p \in Mentions(f)
           \/ p \in Ports /\ data_sock[p].st = "free" /\ data_sock'[p].st # "free",
         \A p \in Ports : data_sock[p].st # "free" => data_sock'[p].st # "free",
         \A g \in Fds : g # f => Apart(g)
  PROVE  Kept
  <1>1. ASSUME NEW g \in Fds
        PROVE  Part(g)' /\ (g # f /\ Connected(g)'
                              => Connected(g) /\ Mentions(g)' \subseteq Mentions(g))
    <2>1. CASE g = f
      BY <2>1
    <2>2. CASE g # f
      BY <2>2, ApartKeeps, ApartNames DEF Orderly
    <2> QED
      BY <2>1, <2>2
  <1>2. PortsOwn'
    BY <1>1, PortsAdded DEF Orderly
  <1> QED
    BY <1>1, <1>2 DEF Kept

\* Only callbacks of f leave the round.
RoundFor(f) ==
  /\ ready' \subseteq ready
  /\ \A g \in Fds : g # f => \A e : <<e, g>> \in ready => <<e, g>> \in ready'

LEMMA RanFor ==
  ASSUME NEW f \in Fds, NEW cb, NEW gone, Ran(cb, gone), gone \subseteq EventsOf(f),
         \/ cb \in {<<"accept">>, <<"notify">>}
         \/ cb \in EventsOf(f)
  PROVE  RoundFor(f) /\ cb \in ready /\ cb \notin ready' /\ \A x \in gone : x \notin ready'
  <1>1. ready' = ready \ ({cb} \cup gone) /\ cb \in ready
    BY DEF Ran
  <1>2. ASSUME NEW g \in Fds, g # f, NEW e PROVE <<e, g>> # cb /\ <<e, g>> \notin gone
    BY <1>2 DEF EventsOf
  <1> QED
    BY <1>1, <1>2 DEF RoundFor

\* What the reactor does for f has nothing to do with g.
LEMMA ReactorApart ==
  ASSUME Orderly, NEW f \in Fds, fault = "none", UNCHANGED <<sessions, disks>>,
         Connected(f) \/ data_sock' = data_sock, RoundFor(f),
         <<"notify">> \in ready' => Head(notify_pipe)' = Head(notify_pipe),
         \A p \in Ports : data_sock[p].st # "free" /\ (Connected(f) => p \notin Mentions(f))
           => data_sock'[p] = data_sock[p],
         NEW g \in Fds, g # f, clients'[g] = clients[g], peers'[g] = peers[g],
         TasksStay(g), WorkStays(g), NoticesStay(g)
  PROVE  Apart(g)
  <1>1. Connected(g) => \A p \in Mentions(g) : data_sock'[p] = data_sock[p]
    BY DEF Orderly, PortsOwn
  <1>2. /\ \A e : <<e, g>> \in ready' => <<e, g>> \in ready
        /\ <<"data_accept", g>> \in ready => <<"data_accept", g>> \in ready'
        /\ <<"notify">> \in ready' => <<"notify">> \in ready
    BY DEF RoundFor
  <1> QED
    BY <1>1, <1>2 DEF Apart

\* The reactor has served f, in terms of the parts.
LEMMA CallbackDone ==
  ASSUME Orderly, IInv', NEW f \in Fds, Serviced(f), LinesKeep(f), SocketsKeep(f),
         RoundKeeps(f), Open(f)' <= Open(f), DiskOrder(f)', OneBlock(f)', SocksFresh',
         \A p \in {clients'[f].listen_fd, clients'[f].data_fd,
                   clients'[f].ev_data_accept} \ {NULL} :
           \/ p \in {clients[f].listen_fd, clients[f].data_fd, clients[f].ev_data_accept}
           \/ p \in Ports /\ data_sock[p].st = "free" /\ data_sock'[p].st # "free",
         \A p \in Ports : data_sock[p].st # "free" => data_sock'[p].st # "free",
         \A g \in Fds : g # f => Apart(g)
  PROVE  Kept
  <1>1. Part(f)' /\ Promised(f)' \subseteq Promised(f)
    BY ServicedPart
  <1>2. \A p \in Mentions(f)' :
           \/ p \in Mentions(f)
           \/ p \in Ports /\ data_sock[p].st = "free" /\ data_sock'[p].st # "free"
    BY <1>1 DEF Mentions
  <1> QED
    BY <1>1, <1>2, ServicedDone DEF Serviced

\* What the queues of f and its answers are when the data connection is served.
LEMMA DataOnly ==
  ASSUME Orderly, NEW f \in Fds, UNCHANGED <<sessions, disks, session_pool, notify_pipe, peers>>,
         Connected(f), Connected(f)', clients'[f].write_q = clients[f].write_q
  PROVE  /\ LinesKeep(f) /\ Open(f)' = Open(f) /\ Accepts(f)' = Accepts(f)
         /\ PasvOrder(f) => PasvOrder(f)'
         /\ Tasks(f, "TRANS_OK")' = Tasks(f, "TRANS_OK") /\ Serves(f)' = Serves(f)
         /\ DAct(f)' = DAct(f) /\ Sent(f, "DATA_WRITE")' = Sent(f, "DATA_WRITE")
         /\ \A g \in Fds : TasksStay(g) /\ NoticesStay(g)
         /\ Head(notify_pipe)' = Head(notify_pipe)
  <1>1. \A g \in Fds : TasksStay(g) /\ NoticesStay(g)
    BY TasksUnchanged, NoticesUnchanged
  <1>2. /\ \A a : Tasks(f, a)' = Tasks(f, a) /\ Sent(f, a)' = Sent(f, a)
        /\ MyTasks(f)' = MyTasks(f) /\ MyNotices(f)' = MyNotices(f)
        /\ FinalNotices(f)' = FinalNotices(f)
        /\ PasvOrder(f) => PasvOrder(f)'
    BY <1>1 DEF TasksStay, NoticesStay
  <1>3. Told(f)' = Told(f)
    BY <1>2 DEF Told
  <1>4. Act(f)' = Act(f) /\ DAct(f)' = DAct(f) /\ Serves(f)' = Serves(f)
    BY DEF Act, DAct, Serves
  <1>5. Busy(f)' = Busy(f)
    BY <1>4 DEF Busy
  <1>6. Open(f)' = Open(f)
    BY <1>2, <1>5 DEF Open, Unread, Waits, Ends
  <1>7. LinesKeep(f)
    BY <1>2, <1>3 DEF LinesKeep
  <1> QED
    BY <1>1, <1>2, <1>4, <1>6, <1>7 DEF Accepts

\* The ports that something of f names.
LEMMA NamedPorts ==
  ASSUME PortsOwn, NEW f \in Fds, Connected(f)
  PROVE  /\ Promised(f) \subseteq Mentions(f) /\ Mentions(f) \subseteq Ports
         /\ Held(f) \subseteq Mentions(f)
         /\ \A p \in {clients[f].listen_fd, clients[f].data_fd, clients[f].ev_data_accept} :
              p # NULL => p \in Mentions(f)
  <1>1. NULL \notin Promised(f)
    BY DEF Promised
  <1>2. Promised(f) \subseteq Mentions(f)
    BY <1>1 DEF Mentions
  <1>3. Mentions(f) \subseteq Ports
    BY DEF PortsOwn
  <1> QED
    BY <1>2, <1>3 DEF Mentions, Held

\* What a callback of f does to the sockets: other clients see nothing of it,
\* and no listener gets worse.
SocketsServed(f) ==
  /\ \/ /\ Calls(f)' = Calls(f) /\ clients'[f].ev_data_accept = clients[f].ev_data_accept
        /\ <<"data_accept", f>> \in ready' <=> <<"data_accept", f>> \in ready
     \/ ~Calls(f)' /\ <<"data_accept", f>> \notin ready'
  /\ clients'[f].data_fd \in {clients[f].data_fd, NULL}
  /\ \A p \in {clients'[f].listen_fd, clients'[f].data_fd, clients'[f].ev_data_accept} \ {NULL} :
       \/ p \in {clients[f].listen_fd, clients[f].data_fd, clients[f].ev_data_accept}
       \/ p \in Ports /\ data_sock[p].st = "free" /\ data_sock'[p].st # "free"
  /\ \A p \in Promised(f) : /\ data_sock'[p].peer = data_sock[p].peer
                            /\ data_sock[p].inq = <<>> => data_sock'[p].inq = <<>>
  /\ SocksFresh'
  /\ \A p \in Ports : data_sock[p].st # "free" => data_sock'[p].st # "free"
  /\ \A p \in Ports : data_sock[p].st # "free" /\ p \notin Mentions(f)
       => data_sock'[p] = data_sock[p]

\* The connection p is read, or written to.
LEMMA ServedOn ==
  ASSUME Orderly, NEW f \in Fds, Connected(f), NEW p \in Ports, p \in Mentions(f), NEW k,
         k.st = data_sock[p].st, k.peer = data_sock[p].peer,
         data_sock[p].inq = <<>> => k.inq = <<>>,
         data_sock' = [data_sock EXCEPT ![p] = k],
         clients'[f].listen_fd = clients[f].listen_fd,
         clients'[f].data_fd = clients[f].data_fd,
         clients'[f].ev_data_accept = clients[f].ev_data_accept,
         <<"data_accept", f>> \in ready' <=> <<"data_accept", f>> \in ready
  PROVE  SocketsServed(f)
  <1>1. ReactorTypeOK /\ PortsOwn /\ SocksFresh
    BY DEF Orderly, IInv, TypeOK
  <1>2. ASSUME NEW q \in Ports
        PROVE  /\ data_sock'[q].st = data_sock[q].st /\ data_sock'[q].peer = data_sock[q].peer
               /\ data_sock[q].inq = <<>> => data_sock'[q].inq = <<>>
               /\ q # p => data_sock'[q] = data_sock[q]
    BY <1>1 DEF ReactorTypeOK
  <1>3. Promised(f) \subseteq Mentions(f) /\ Mentions(f) \subseteq Ports
    BY <1>1, NamedPorts
  <1>4. clients[f].ev_data_accept # NULL => clients[f].ev_data_accept \in Ports
    BY <1>1, NamedPorts
  <1>5. Calls(f)' = Calls(f)
    BY <1>2, <1>4 DEF Calls
  <1>6. SocksFresh'
    BY <1>1, <1>2 DEF SocksFresh
  <1> QED
    BY <1>2, <1>3, <1>5, <1>6 DEF SocketsServed

\* Nothing happens to the sockets.
LEMMA ServedNone ==
  ASSUME Orderly, NEW f \in Fds, Connected(f), data_sock' = data_sock,
         clients'[f].listen_fd = clients[f].listen_fd,
         clients'[f].data_fd = clients[f].data_fd,
         clients'[f].ev_data_accept = clients[f].ev_data_accept,
         <<"data_accept", f>> \in ready' <=> <<"data_accept", f>> \in ready
  PROVE  SocketsServed(f)
  <1>1. Calls(f)' = Calls(f)
    BY DEF Calls
  <1>2. SocksFresh'
    BY DEF Orderly, SocksFresh
  <1> QED
    BY <1>1, <1>2 DEF SocketsServed

\* The listener and the connection of f are closed.
LEMMA ServedOff ==
  ASSUME Orderly, NEW f \in Fds, Connected(f), data_sock' = ClosedSocks(f),
         clients'[f].listen_fd = NULL, clients'[f].data_fd = NULL,
         clients'[f].ev_data_accept = NULL, <<"data_accept", f>> \notin ready'
  PROVE  SocketsServed(f)
  <1>1. ReactorTypeOK /\ PortsOwn /\ SocksFresh
    BY DEF Orderly, IInv, TypeOK
  <1>2. ASSUME NEW q \in Ports
        PROVE  /\ data_sock'[q].st \in {data_sock[q].st, "closed"}
               /\ data_sock'[q].peer = data_sock[q].peer
               /\ data_sock'[q].inq = data_sock[q].inq
               /\ q \notin Held(f) => data_sock'[q] = data_sock[q]
    BY <1>1 DEF ReactorTypeOK, ClosedSocks, DataSock
  <1>3. /\ Promised(f) \subseteq Mentions(f) /\ Mentions(f) \subseteq Ports
        /\ Held(f) \subseteq Mentions(f)
    BY <1>1, NamedPorts
  <1>5. ~Calls(f)'
    BY DEF Calls
  <1>6. SocksFresh'
    BY <1>1, <1>2 DEF SocksFresh
  <1>7. \A q \in Ports : data_sock[q].st # "free" => data_sock'[q].st # "free"
    BY <1>2
  <1>8. \A q \in Ports : q \notin Mentions(f) => data_sock'[q] = data_sock[q]
    BY <1>2, <1>3
  <1>9. \A q \in Promised(f) : /\ data_sock'[q].peer = data_sock[q].peer
                               /\ data_sock[q].inq = <<>> => data_sock'[q].inq = <<>>
    BY <1>2, <1>3
  <1> QED
    BY <1>5, <1>6, <1>7, <1>8, <1>9 DEF SocketsServed

\* A callback of the data connection, in terms of the parts.
LEMMA DataServed ==
  ASSUME Orderly, IInv', NEW f \in Fds, fault = "none", Connected(f), Connected(f)',
         UNCHANGED <<sessions, disks, session_pool, notify_pipe, peers>>,
         clients'[f].write_q = clients[f].write_q,
         \A g \in Fds : g # f => clients'[g] = clients[g] /\ WorkStays(g),
         RoundFor(f), SocketsServed(f), DiskOrder(f)', OneBlock(f)',
         \A a \in {"INDEX_START", "RETR_START", "STOR_START"} : Work(f, a)' = Work(f, a)
  PROVE  Kept
  <1>1. /\ LinesKeep(f) /\ Open(f)' = Open(f) /\ Accepts(f)' = Accepts(f)
        /\ PasvOrder(f) => PasvOrder(f)'
        /\ Tasks(f, "TRANS_OK")' = Tasks(f, "TRANS_OK") /\ Serves(f)' = Serves(f)
        /\ \A g \in Fds : TasksStay(g) /\ NoticesStay(g)
        /\ Head(notify_pipe)' = Head(notify_pipe)
    BY DataOnly
  <1>2. Serviced(f)
    BY <1>1 DEF Serviced
  <1>3. Under(f)' = Under(f)
    BY <1>1 DEF Under, Starts
  <1>4. SocketsKeep(f)
    BY <1>1, <1>3 DEF SocketsKeep, SocketsServed
  <1>5. RoundKeeps(f)
    BY <1>1 DEF RoundKeeps, RoundFor
  <1>6. Open(f)' <= Open(f)
    BY <1>1, CountedType DEF AllCounted, OpenNat, Orderly
  <1>7. \A g \in Fds : g # f => Apart(g)
    BY <1>1, ReactorApart DEF SocketsServed
  <1> QED
    BY <1>1, <1>2, <1>4, <1>5, <1>6, <1>7, CallbackDone DEF SocketsServed

LEMMA ClientSet ==
  ASSUME ReactorTypeOK, NEW f \in Fds, NEW c \in TCP_client, SetClient(f, c)
  PROVE  /\ clients'[f] = c /\ Connected(f)'
         /\ \A g \in Fds : g # f => clients'[g] = clients[g]
  <1>1. clients'[f] = c /\ c # NULL
    BY ClientNullAssumption DEF ReactorTypeOK, SetClient
  <1>2. Connected(f)'
    BY <1>1 DEF Connected
  <1> QED
    BY <1>1, <1>2 DEF ReactorTypeOK, SetClient

\* What the client's end sends on the data connection is no download's.
LEMMA NoDownload ==
  ASSUME Orderly, NEW f \in Fds, Connected(f), clients[f].data_fd # NULL,
         \/ data_sock[clients[f].data_fd].inq # <<>>
         \/ data_sock[clients[f].data_fd].peer = "fin"
  PROVE  /\ Work(f, "INDEX_START") = 0 /\ Work(f, "RETR_START") = 0
         /\ DAct(f) \notin DownloadStates
  <1>p. /\ OneTransfer(f) /\ KindsAgree(f) /\ InHand(f) /\ Quiet(f)
        /\ IInv /\ UnderNat(f) /\ AllParts
    BY CountedType, PartsNow DEF Orderly, Part, AllCounted
  <1>1. SUFFICES ASSUME \/ Work(f, "INDEX_START") # 0 \/ Work(f, "RETR_START") # 0
                        \/ DAct(f) \in DownloadStates
                 PROVE  FALSE
    OBVIOUS
  <1>2. Under(f) # 0
    <2>1. CASE Work(f, "INDEX_START") # 0 \/ Work(f, "RETR_START") # 0
      BY <1>p, <2>1 DEF AllParts
    <2>2. CASE DAct(f) \in DownloadStates
      <3>1. Serves(f) # 0
        BY <2>2 DEF DAct, Serves, DownloadStates
      <3> QED
        BY <1>p, <3>1 DEF AllParts
    <2> QED
      BY <1>1, <2>1, <2>2
  <1>3. Under(f) >= 1 /\ Accepts(f) + Under(f) >= 1
    BY <1>p, <1>2 DEF UnderNat
  <1>4. Work(f, "INDEX_START") \in Nat /\ Work(f, "RETR_START") \in Nat
    BY <1>p, NumbersType DEF IInv, TypeOK, Numbers
  <1>5. Act(f) \in {"DATA_INDEX_DOWNLOAD", "DATA_FILE_DOWNLOAD"}
    BY <1>p, <1>1, <1>4 DEF KindsAgree, DownloadStates
  <1>6. Busy(f) = 1
    BY <1>5 DEF Busy
  <1>7. peers[f].xfer # NULL /\ peers[f].xfer.verb \in Downloads
    BY <1>p, <1>5, <1>6 DEF InHand, VerbsOf, Downloads
  <1>8. clients[f].data_fd = peers[f].port
    BY <1>p, <1>3, <1>7 DEF Quiet
  <1> QED
    BY <1>p, <1>7, <1>8 DEF Quiet

\* The disk threads get nothing from a callback.
LEMMA NoWork ==
  ASSUME Orderly, NEW f \in Fds, Connected(f), disk_pool' = disk_pool, disks' = disks,
         notify_pipe' = notify_pipe, fault' = fault \/ fault' # "none",
         Len(clients'[f].data_write_q) = Len(clients[f].data_write_q)
  PROVE  /\ DiskOrder(f)' /\ OneBlock(f)'
         /\ \A a \in {"INDEX_START", "RETR_START", "STOR_START"} : Work(f, a)' = Work(f, a)
         /\ \A g \in Fds : WorkStays(g)
  <1>p. DiskOrder(f) /\ OneBlock(f)
    BY DEF Orderly, Part
  <1>1. \A g \in Fds : WorkStays(g)
    BY WorkUnchanged
  <1>2. /\ \A a : Work(f, a)' = Work(f, a)
        /\ StartOrder(f) => StartOrder(f)'
    BY <1>1 DEF WorkStays
  <1>3. DAct(f)' = DAct(f) /\ Sent(f, "DATA_WRITE")' = Sent(f, "DATA_WRITE")
    BY DEF DAct, Sent
  <1>4. DiskOrder(f)'
    BY <1>p, <1>2, <1>3 DEF DiskOrder
  <1>5. OneBlock(f)'
    BY <1>p, <1>2, <1>3 DEF OneBlock
  <1> QED
    BY <1>1, <1>2, <1>4, <1>5

\* A task of f is posted to a disk thread.
LEMMA TaskForDisk ==
  ASSUME Orderly, NEW f \in Fds, NEW task \in DiskTask, task.fd = f, post_to_disk(task),
         task.action \in {"WRITE_DONE", "STORING", "STOR_OK"},
         task.action # "WRITE_DONE" =>
           Work(f, "INDEX_START") = 0 /\ Work(f, "RETR_START") = 0
  PROVE  /\ \A a \in {"INDEX_START", "RETR_START", "STOR_START"} : Work(f, a)' = Work(f, a)
         /\ \A g \in Fds : g # f => WorkStays(g)
         /\ StartOrder(f) => StartOrder(f)'
         /\ \A a : \/ fault' = fault /\ Work(f, a)' = (IF task.action = a THEN Work(f, a) + 1
                                                      ELSE Work(f, a))
                   \/ fault' # "none" /\ Work(f, a)' = Work(f, a)
  <1>1. PoolTypeOK
    BY DEF Orderly, IInv, TypeOK
  <1>2. ASSUME NEW g \in Fds
        PROVE  \/ /\ fault' = fault
                  /\ \A a : Work(g, a)' =
                        (IF task.fd = g /\ task.action = a THEN Work(g, a) + 1 ELSE Work(g, a))
                  /\ /\ StartOrder(g)
                     /\ task.fd = g /\ task.action \in {"STORING", "STOR_OK"} =>
                          Work(g, "INDEX_START") = 0 /\ Work(g, "RETR_START") = 0
                     => StartOrder(g)'
               \/ fault' = "disk_index" /\ WorkStays(g)
    BY <1>1, WorkPosted
  <1>3. ASSUME NEW g \in Fds, g # f PROVE WorkStays(g)
    BY <1>2, <1>3 DEF WorkStays
  <1>4. \/ /\ fault' = fault
           /\ \A a : Work(f, a)' = (IF task.action = a THEN Work(f, a) + 1 ELSE Work(f, a))
           /\ StartOrder(f) => StartOrder(f)'
        \/ /\ fault' # "none"
           /\ \A a : Work(f, a)' = Work(f, a)
           /\ StartOrder(f) => StartOrder(f)'
    BY <1>2 DEF WorkStays
  <1> QED
    BY <1>3, <1>4

LEMMA UploadPosted ==
  ASSUME Orderly, NEW f \in Fds, Connected(f), NEW task \in DiskTask, task.fd = f,
         post_to_disk(task), task.action \in {"STORING", "STOR_OK"}, disks' = disks,
         notify_pipe' = notify_pipe,
         Work(f, "INDEX_START") = 0, Work(f, "RETR_START") = 0, DAct(f) \notin DownloadStates,
         Len(clients'[f].data_write_q) = Len(clients[f].data_write_q)
  PROVE  /\ DiskOrder(f)' /\ OneBlock(f)'
         /\ \A a \in {"INDEX_START", "RETR_START", "STOR_START"} : Work(f, a)' = Work(f, a)
         /\ \A g \in Fds : g # f => WorkStays(g)
  <1>p. DiskOrder(f) /\ OneBlock(f)
    BY DEF Orderly, Part
  <1>1. /\ \A a \in {"INDEX_START", "RETR_START", "STOR_START"} : Work(f, a)' = Work(f, a)
        /\ \A g \in Fds : g # f => WorkStays(g)
        /\ StartOrder(f) => StartOrder(f)'
        /\ fault' = "none" => fault = "none" /\ Work(f, "WRITE_DONE")' = Work(f, "WRITE_DONE")
    BY TaskForDisk
  <1>2. DAct(f)' = DAct(f) /\ Sent(f, "DATA_WRITE")' = Sent(f, "DATA_WRITE")
    BY DEF DAct, Sent
  <1>3. DiskOrder(f)'
    BY <1>p, <1>1, <1>2 DEF DiskOrder
  <1>4. OneBlock(f)'
    BY <1>p, <1>1, <1>2 DEF OneBlock
  <1> QED
    BY <1>1, <1>3, <1>4

LEMMA WriteDonePosted ==
  ASSUME Orderly, NEW f \in Fds, Connected(f), NEW task \in DiskTask, task.fd = f,
         post_to_disk(task), task.action = "WRITE_DONE", disks' = disks,
         notify_pipe' = notify_pipe, Len(clients'[f].data_write_q) \in Nat,
         Len(clients[f].data_write_q) = Len(clients'[f].data_write_q) + 1
  PROVE  /\ DiskOrder(f)' /\ OneBlock(f)'
         /\ \A a \in {"INDEX_START", "RETR_START", "STOR_START"} : Work(f, a)' = Work(f, a)
         /\ \A g \in Fds : g # f => WorkStays(g)
  <1>p. DiskOrder(f) /\ OneBlock(f)
    BY DEF Orderly, Part
  <1>1. /\ \A a \in {"INDEX_START", "RETR_START", "STOR_START"} : Work(f, a)' = Work(f, a)
        /\ \A g \in Fds : g # f => WorkStays(g)
        /\ StartOrder(f) => StartOrder(f)'
        /\ \A a \in {"STORING", "STOR_OK"} : Work(f, a)' = Work(f, a)
        /\ fault' = "none" => fault = "none" /\ Work(f, "WRITE_DONE")' = Work(f, "WRITE_DONE") + 1
    BY TaskForDisk
  <1>2. DAct(f)' = DAct(f) /\ Sent(f, "DATA_WRITE")' = Sent(f, "DATA_WRITE")
    BY DEF DAct, Sent
  <1>3. DiskOrder(f)'
    BY <1>p, <1>1, <1>2 DEF DiskOrder
  <1>4. Sent(f, "DATA_WRITE") \in Nat /\ Work(f, "WRITE_DONE") \in Nat
    BY BlocksNat DEF Orderly
  <1>5. OneBlock(f)'
    BY <1>p, <1>1, <1>2, <1>4 DEF OneBlock
  <1> QED
    BY <1>1, <1>3, <1>5

LEMMA ServedClient ==
  ASSUME Orderly, NEW f \in Fds, NEW e \in {"data_read", "data_write"}, <<e, f>> \in ready
  PROVE  /\ ReactorTypeOK /\ Connected(f) /\ clients[f] \in TCP_client
         /\ clients[f].data_fd \in Ports /\ clients[f].data_fd # NULL
         /\ clients[f].data_fd \in Mentions(f)
         /\ data_sock[clients[f].data_fd] \in DataSock
  <1>1. ReactorTypeOK /\ CallbacksValid /\ PortsOwn
    BY DEF Orderly, IInv, TypeOK
  <1>2. clients[f] # NULL /\ clients[f].data_fd # NULL
    BY <1>1 DEF CallbacksValid, DataEvents
  <1>3. Connected(f) /\ clients[f] \in TCP_client
    BY <1>1, <1>2 DEF Connected, ReactorTypeOK
  <1>4. clients[f].data_fd \in Ports /\ clients[f].data_fd \in Mentions(f)
    BY <1>1, <1>2, <1>3, NamedPorts
  <1> QED
    BY <1>1, <1>2, <1>3, <1>4 DEF ReactorTypeOK

\* A callback runs and deletes no other.
LEMMA RanAlone ==
  ASSUME NEW f \in Fds, NEW e, e # "data_accept", Ran(<<e, f>>, {})
  PROVE  /\ RoundFor(f) /\ <<e, f>> \in ready
         /\ <<"data_accept", f>> \in ready' <=> <<"data_accept", f>> \in ready
  <1>1. ready' = ready \ {<<e, f>>} /\ <<e, f>> \in ready
    BY DEF Ran
  <1>2. \A g : <<"data_accept", g>> # <<e, f>>
    OBVIOUS
  <1>3. \A g \in Fds : g # f => \A k : <<k, g>> # <<e, f>>
    OBVIOUS
  <1> QED
    BY <1>1, <1>2, <1>3 DEF RoundFor

\* A callback runs and takes the data events of its client with it.
LEMMA RanLast ==
  ASSUME NEW f \in Fds, NEW e, Ran(<<e, f>>, DataEventsOf(f))
  PROVE  RoundFor(f) /\ <<e, f>> \in ready /\ <<"data_accept", f>> \notin ready'
  <1>1. ready' = ready \ ({<<e, f>>} \cup DataEventsOf(f)) /\ <<e, f>> \in ready
    BY DEF Ran
  <1>2. \A g \in Fds : g # f => \A k : <<k, g>> # <<e, f>> /\ <<k, g>> \notin DataEventsOf(f)
    BY DEF DataEventsOf
  <1>3. <<"data_accept", f>> \in DataEventsOf(f)
    BY DEF DataEventsOf, DataEvents
  <1> QED
    BY <1>1, <1>2, <1>3 DEF RoundFor

\* What a callback leaves behind when it clears the data connection.
LEMMA ClearedFields ==
  ASSUME NEW c \in TCP_client, NEW d, d = clear_datafd(c)
  PROVE  /\ d \in TCP_client /\ d.write_q = c.write_q /\ d.data_write_q = c.data_write_q
         /\ d.listen_fd = NULL /\ d.data_fd = NULL /\ d.ev_data_accept = NULL
  BY DEF clear_datafd, TCP_client

LEMMA DataReadDataKeeps ==
  ASSUME Orderly, IInv', NEW f \in Fds, fault = "none", UNCHANGED <<sessions, disks>>,
         data_read_data(f)
  PROVE  Kept
  <1>c. PICK c : c = clients[f]
    OBVIOUS
  <1>p. PICK p : p = c.data_fd
    OBVIOUS
  <1>s. PICK sock : sock = data_sock[p]
    OBVIOUS
  <1>1. PICK n, k, full :
          /\ k = [sock EXCEPT !.inq = SubSeq(@, n + 1, Len(@))]
          /\ full = c.file_buffer \o SubSeq(sock.inq, 1, n)
          /\ n = IF Len(sock.inq) < DATASIZE THEN Len(sock.inq) ELSE DATASIZE
    OBVIOUS
  <1>2. /\ Ran(<<"data_read", f>>, {}) /\ sock.inq # <<>>
        /\ data_sock' = [data_sock EXCEPT ![p] = k]
        /\ UNCHANGED <<session_pool, notify_pipe, peers>>
        /\ \/ fault' = "buffer_exit" /\ UNCHANGED <<clients, disk_pool>>
           \/ SetClient(f, [c EXCEPT !.file_buffer = full]) /\ UNCHANGED <<disk_pool, fault>>
           \/ /\ SetClient(f, [c EXCEPT !.file_buffer = <<>>])
              /\ post_to_disk([fd |-> f, action |-> "STORING", data |-> full])
    BY <1>c, <1>p, <1>s, <1>1 DEF data_read_data
  <1>3. /\ RoundFor(f) /\ <<"data_read", f>> \in ready
        /\ <<"data_accept", f>> \in ready' <=> <<"data_accept", f>> \in ready
    BY <1>2, RanAlone
  <1>4. /\ ReactorTypeOK /\ Connected(f) /\ c \in TCP_client
        /\ p \in Ports /\ p # NULL /\ p \in Mentions(f) /\ sock \in DataSock
    BY <1>3, <1>c, <1>p, <1>s, ServedClient
  <1>5. k.st = sock.st /\ k.peer = sock.peer
    BY <1>1, <1>4 DEF DataSock
  <1>6. sock.inq \in Block /\ n \in 0 .. Len(sock.inq)
    BY <1>1, <1>4, ReactorAssumption DEF DataSock, Block
  <1>7. full \in Block /\ <<>> \in Block
    BY <1>1, <1>4, <1>6, PieceType, JoinType DEF TCP_client, Block
  <1>8. \A b \in Block : LET d == [c EXCEPT !.file_buffer = b] IN
          /\ d \in TCP_client /\ d.listen_fd = c.listen_fd /\ d.data_fd = c.data_fd
          /\ d.ev_data_accept = c.ev_data_accept /\ d.write_q = c.write_q
          /\ d.data_write_q = c.data_write_q
    BY <1>4 DEF TCP_client
  <1>9. PICK d \in TCP_client :
          /\ d.listen_fd = c.listen_fd /\ d.data_fd = c.data_fd
          /\ d.ev_data_accept = c.ev_data_accept /\ d.write_q = c.write_q
          /\ d.data_write_q = c.data_write_q
          /\ clients'[f] = d /\ Connected(f)' /\ \A g \in Fds : g # f => clients'[g] = clients[g]
    <2>1. CASE clients' = clients
      BY <2>1, <1>c, <1>4 DEF Connected
    <2>2. ASSUME NEW b \in Block, SetClient(f, [c EXCEPT !.file_buffer = b])
          PROVE  \E d \in TCP_client :
                   /\ d.listen_fd = c.listen_fd /\ d.data_fd = c.data_fd
                   /\ d.ev_data_accept = c.ev_data_accept /\ d.write_q = c.write_q
                   /\ d.data_write_q = c.data_write_q
                   /\ clients'[f] = d /\ Connected(f)'
                   /\ \A g \in Fds : g # f => clients'[g] = clients[g]
      <3>1. PICK d : d = [c EXCEPT !.file_buffer = b]
        OBVIOUS
      <3>2. /\ d \in TCP_client /\ d.listen_fd = c.listen_fd /\ d.data_fd = c.data_fd
            /\ d.ev_data_accept = c.ev_data_accept /\ d.write_q = c.write_q
            /\ d.data_write_q = c.data_write_q
        BY <1>8, <3>1
      <3>3. SetClient(f, d)
        BY <2>2, <3>1
      <3> QED
        BY <1>4, <3>2, <3>3, ClientSet
    <2> QED
      BY <1>2, <1>7, <2>1, <2>2
  <1>10. SocketsServed(f)
    BY <1>c, <1>p, <1>s, <1>2, <1>3, <1>4, <1>5, <1>9, ServedOn
  <1>11. /\ Work(f, "INDEX_START") = 0 /\ Work(f, "RETR_START") = 0
         /\ DAct(f) \notin DownloadStates
    BY <1>c, <1>p, <1>s, <1>2, <1>4, NoDownload
  <1>12. /\ DiskOrder(f)' /\ OneBlock(f)'
         /\ \A a \in {"INDEX_START", "RETR_START", "STOR_START"} : Work(f, a)' = Work(f, a)
         /\ \A g \in Fds : g # f => WorkStays(g)
    <2>1. Len(clients'[f].data_write_q) = Len(clients[f].data_write_q)
      BY <1>c, <1>9
    <2>2. CASE disk_pool' = disk_pool /\ (fault' = fault \/ fault' # "none")
      BY <1>2, <1>4, <2>1, <2>2, NoWork
    <2>3. CASE post_to_disk([fd |-> f, action |-> "STORING", data |-> full])
      <3>1. PICK task : task = [fd |-> f, action |-> "STORING", data |-> full]
        OBVIOUS
      <3>2. task \in DiskTask /\ task.fd = f /\ task.action = "STORING"
        BY <1>7, <3>1 DEF DiskTask
      <3>3. post_to_disk(task)
        BY <2>3, <3>1
      <3> QED
        BY <1>2, <1>4, <1>11, <2>1, <3>2, <3>3, UploadPosted
    <2> QED
      BY <1>2, <2>2, <2>3
  <1> QED
    BY <1>c, <1>2, <1>3, <1>4, <1>9, <1>10, <1>12, DataServed

LEMMA DataReadEndKeeps ==
  ASSUME Orderly, IInv', NEW f \in Fds, fault = "none", UNCHANGED <<sessions, disks>>,
         data_read_end(f)
  PROVE  Kept
  <1>c. PICK c : c = clients[f]
    OBVIOUS
  <1>1. /\ <<"data_read", f>> \in ready /\ data_sock[c.data_fd].peer = "fin"
        /\ UNCHANGED <<session_pool, notify_pipe, peers>>
    BY <1>c DEF data_read_end
  <1>2. ReactorTypeOK /\ Connected(f) /\ c \in TCP_client /\ c.data_fd # NULL
    BY <1>1, <1>c, ServedClient
  <1>3. CASE /\ Ran(<<"data_read", f>>, DataEventsOf(f))
             /\ post_to_disk([fd |-> f, action |-> "STOR_OK", data |-> c.file_buffer])
             /\ SetClient(f, clear_datafd([c EXCEPT !.file_buffer = <<>>]))
             /\ data_sock' = ClosedSocks(f)
    <2>1. RoundFor(f) /\ <<"data_accept", f>> \notin ready'
      BY <1>3, RanLast
    <2>2. PICK b : b = [c EXCEPT !.file_buffer = <<>>]
      OBVIOUS
    <2>3. b \in TCP_client /\ b.write_q = c.write_q /\ b.data_write_q = c.data_write_q
      <3>1. <<>> \in Block
        BY DEF Block
      <3> QED
        BY <1>2, <2>2, <3>1 DEF TCP_client
    <2>4. PICK d : d = clear_datafd(b)
      OBVIOUS
    <2>5. /\ d \in TCP_client /\ d.write_q = c.write_q /\ d.data_write_q = c.data_write_q
          /\ d.listen_fd = NULL /\ d.data_fd = NULL /\ d.ev_data_accept = NULL
      BY <2>3, <2>4, ClearedFields
    <2>6. SetClient(f, d)
      BY <1>3, <2>2, <2>4
    <2>7. /\ clients'[f] = d /\ Connected(f)'
          /\ \A g \in Fds : g # f => clients'[g] = clients[g]
      BY <1>2, <2>5, <2>6, ClientSet
    <2>8. SocketsServed(f)
      BY <1>2, <1>3, <2>1, <2>5, <2>7, ServedOff
    <2>9. /\ Work(f, "INDEX_START") = 0 /\ Work(f, "RETR_START") = 0
          /\ DAct(f) \notin DownloadStates
      BY <1>c, <1>1, <1>2, NoDownload
    <2>10. PICK task : task = [fd |-> f, action |-> "STOR_OK", data |-> c.file_buffer]
      OBVIOUS
    <2>11. task \in DiskTask /\ task.fd = f /\ task.action = "STOR_OK"
      BY <1>2, <2>10 DEF DiskTask, TCP_client
    <2>12. post_to_disk(task) /\ Len(clients'[f].data_write_q) = Len(clients[f].data_write_q)
      BY <1>3, <1>c, <2>5, <2>7, <2>10
    <2>13. /\ DiskOrder(f)' /\ OneBlock(f)'
           /\ \A a \in {"INDEX_START", "RETR_START", "STOR_START"} : Work(f, a)' = Work(f, a)
           /\ \A g \in Fds : g # f => WorkStays(g)
      BY <1>1, <1>2, <2>9, <2>11, <2>12, UploadPosted
    <2> QED
      BY <1>c, <1>1, <1>2, <2>1, <2>5, <2>7, <2>8, <2>13, DataServed
  <1>4. CASE /\ Ran(<<"data_read", f>>, {})
             /\ UNCHANGED <<disk_pool, fault, clients, data_sock>>
    <2>1. /\ RoundFor(f)
          /\ <<"data_accept", f>> \in ready' <=> <<"data_accept", f>> \in ready
      BY <1>4, RanAlone
    <2>2. clients' = clients /\ Connected(f)'
      BY <1>2, <1>4 DEF Connected
    <2>3. SocketsServed(f)
      BY <1>2, <1>4, <2>1, <2>2, ServedNone
    <2>4. /\ DiskOrder(f)' /\ OneBlock(f)'
          /\ \A a \in {"INDEX_START", "RETR_START", "STOR_START"} : Work(f, a)' = Work(f, a)
          /\ \A g \in Fds : WorkStays(g)
      BY <1>1, <1>2, <1>4, <2>2, NoWork
    <2> QED
      BY <1>1, <1>2, <2>1, <2>2, <2>3, <2>4, DataServed
  <1> QED
    BY <1>c, <1>3, <1>4 DEF data_read_end

LEMMA DataReadErrorKeeps ==
  ASSUME Orderly, IInv', NEW f \in Fds, fault = "none", UNCHANGED <<sessions, disks>>,
         data_read_error(f)
  PROVE  Kept
  <1>c. PICK c : c = clients[f]
    OBVIOUS
  <1>1. /\ Ran(<<"data_read", f>>, DataEventsOf(f)) /\ SetClient(f, clear_datafd(c))
        /\ data_sock' = ClosedSocks(f)
        /\ UNCHANGED <<session_pool, disk_pool, notify_pipe, fault, peers>>
    BY <1>c DEF data_read_error, poolVars
  <1>2. RoundFor(f) /\ <<"data_read", f>> \in ready /\ <<"data_accept", f>> \notin ready'
    BY <1>1, RanLast
  <1>3. ReactorTypeOK /\ Connected(f) /\ c \in TCP_client
    BY <1>2, <1>c, ServedClient
  <1>4. PICK d : d = clear_datafd(c)
    OBVIOUS
  <1>5. /\ d \in TCP_client /\ d.write_q = c.write_q /\ d.data_write_q = c.data_write_q
        /\ d.listen_fd = NULL /\ d.data_fd = NULL /\ d.ev_data_accept = NULL
    BY <1>3, <1>4, ClearedFields
  <1>6. /\ clients'[f] = d /\ Connected(f)'
        /\ \A g \in Fds : g # f => clients'[g] = clients[g]
    BY <1>1, <1>3, <1>4, <1>5, ClientSet
  <1>7. SocketsServed(f)
    BY <1>1, <1>2, <1>3, <1>5, <1>6, ServedOff
  <1>8. Len(clients'[f].data_write_q) = Len(clients[f].data_write_q)
    BY <1>c, <1>5, <1>6
  <1>9. /\ DiskOrder(f)' /\ OneBlock(f)'
        /\ \A a \in {"INDEX_START", "RETR_START", "STOR_START"} : Work(f, a)' = Work(f, a)
        /\ \A g \in Fds : WorkStays(g)
    BY <1>1, <1>3, <1>8, NoWork
  <1> QED
    BY <1>c, <1>1, <1>2, <1>3, <1>5, <1>6, <1>7, <1>9, DataServed

LEMMA DataWriteKeeps ==
  ASSUME Orderly, IInv', NEW f \in Fds, fault = "none", UNCHANGED <<sessions, disks>>,
         data_write(f)
  PROVE  Kept
  <1>c. PICK c : c = clients[f]
    OBVIOUS
  <1>p. PICK p : p = c.data_fd
    OBVIOUS
  <1>s. PICK sock : sock = data_sock[p]
    OBVIOUS
  <1>d. PICK d : d = [c EXCEPT !.data_write_q = Tail(@), !.ev_data_write = FALSE]
    OBVIOUS
  <1>k. PICK k : k = [sock EXCEPT !.out = @ \o Head(c.data_write_q)]
    OBVIOUS
  <1>1. /\ Ran(<<"data_write", f>>, {}) /\ c.data_write_q # <<>>
        /\ data_sock' = [data_sock EXCEPT ![p] = k] /\ SetClient(f, d)
        /\ post_to_disk([fd |-> f, action |-> "WRITE_DONE"])
        /\ UNCHANGED <<session_pool, notify_pipe, peers>>
    BY <1>c, <1>p, <1>s, <1>d, <1>k DEF data_write
  <1>2. /\ RoundFor(f) /\ <<"data_write", f>> \in ready
        /\ <<"data_accept", f>> \in ready' <=> <<"data_accept", f>> \in ready
    BY <1>1, RanAlone
  <1>3. /\ ReactorTypeOK /\ Connected(f) /\ c \in TCP_client
        /\ p \in Ports /\ p # NULL /\ p \in Mentions(f) /\ sock \in DataSock
    BY <1>2, <1>c, <1>p, <1>s, ServedClient
  <1>4. k.st = sock.st /\ k.peer = sock.peer /\ k.inq = sock.inq
    BY <1>k, <1>3 DEF DataSock
  <1>5. /\ Tail(c.data_write_q) \in Seq(Block) /\ Len(c.data_write_q) \in Nat
        /\ Len(Tail(c.data_write_q)) = Len(c.data_write_q) - 1
        /\ Len(c.data_write_q) # 0
    BY <1>1, <1>3, HeadTailProperties, EmptySeq DEF TCP_client
  <1>6. /\ d \in TCP_client /\ d.listen_fd = c.listen_fd /\ d.data_fd = c.data_fd
        /\ d.ev_data_accept = c.ev_data_accept /\ d.write_q = c.write_q
        /\ d.data_write_q = Tail(c.data_write_q)
    BY <1>d, <1>3, <1>5 DEF TCP_client
  <1>7. /\ clients'[f] = d /\ Connected(f)'
        /\ \A g \in Fds : g # f => clients'[g] = clients[g]
    BY <1>1, <1>3, <1>6, ClientSet
  <1>8. SocketsServed(f)
    BY <1>c, <1>p, <1>s, <1>1, <1>2, <1>3, <1>4, <1>6, <1>7, ServedOn
  <1>9. PICK task : task = [fd |-> f, action |-> "WRITE_DONE"]
    OBVIOUS
  <1>10. task \in DiskTask /\ task.fd = f /\ task.action = "WRITE_DONE" /\ post_to_disk(task)
    BY <1>1, <1>9 DEF DiskTask
  <1>11. /\ Len(clients'[f].data_write_q) \in Nat
         /\ Len(clients[f].data_write_q) = Len(clients'[f].data_write_q) + 1
    <2>1. PICK n, m : n = Len(c.data_write_q) /\ m = Len(Tail(c.data_write_q))
      OBVIOUS
    <2>2. n \in Nat /\ m = n - 1 /\ n # 0
      BY <1>5, <2>1
    <2>3. m \in Nat /\ n = m + 1
      BY <2>2
    <2>4. clients'[f].data_write_q = Tail(c.data_write_q)
      BY <1>6, <1>7
    <2> QED
      BY <1>c, <2>1, <2>3, <2>4
  <1>12. /\ DiskOrder(f)' /\ OneBlock(f)'
         /\ \A a \in {"INDEX_START", "RETR_START", "STOR_START"} : Work(f, a)' = Work(f, a)
         /\ \A g \in Fds : g # f => WorkStays(g)
    BY <1>1, <1>3, <1>10, <1>11, WriteDonePosted
  <1> QED
    BY <1>c, <1>1, <1>2, <1>3, <1>6, <1>7, <1>8, <1>12, DataServed

LEMMA DataWritePartKeeps ==
  ASSUME Orderly, IInv', NEW f \in Fds, fault = "none", UNCHANGED <<sessions, disks>>,
         data_write_part(f)
  PROVE  Kept
  <1>c. PICK c : c = clients[f]
    OBVIOUS
  <1>p. PICK p : p = c.data_fd
    OBVIOUS
  <1>s. PICK sock : sock = data_sock[p]
    OBVIOUS
  <1>b. PICK block : block = Head(c.data_write_q)
    OBVIOUS
  <1>0. PICK n \in 0 .. Len(block) - 1 :
          /\ data_sock' = [data_sock EXCEPT ![p].out = @ \o SubSeq(block, 1, n)]
          /\ SetClient(f, [c EXCEPT !.data_write_q =
                                <<SubSeq(block, n + 1, Len(block))>> \o Tail(@)])
    BY <1>c, <1>p, <1>b DEF data_write_part
  <1>r. PICK rest : rest = SubSeq(block, n + 1, Len(block))
    OBVIOUS
  <1>d. PICK d : d = [c EXCEPT !.data_write_q = <<rest>> \o Tail(@)]
    OBVIOUS
  <1>k. PICK k : k = [sock EXCEPT !.out = @ \o SubSeq(block, 1, n)]
    OBVIOUS
  <1>1. /\ Ran(<<"data_write", f>>, {}) /\ c.data_write_q # <<>>
        /\ UNCHANGED <<session_pool, disk_pool, notify_pipe, fault, peers>>
    BY <1>c DEF data_write_part, poolVars
  <1>2. /\ RoundFor(f) /\ <<"data_write", f>> \in ready
        /\ <<"data_accept", f>> \in ready' <=> <<"data_accept", f>> \in ready
    BY <1>1, RanAlone
  <1>3. /\ ReactorTypeOK /\ Connected(f) /\ c \in TCP_client
        /\ p \in Ports /\ p # NULL /\ p \in Mentions(f) /\ sock \in DataSock
    BY <1>2, <1>c, <1>p, <1>s, ServedClient
  <1>4. k.st = sock.st /\ k.peer = sock.peer /\ k.inq = sock.inq
    BY <1>k, <1>3 DEF DataSock
  <1>5. /\ Tail(c.data_write_q) \in Seq(Block) /\ Len(c.data_write_q) \in Nat
        /\ Len(Tail(c.data_write_q)) = Len(c.data_write_q) - 1
        /\ Len(c.data_write_q) # 0 /\ block \in Block
    BY <1>b, <1>1, <1>3, HeadTailProperties, EmptySeq DEF TCP_client
  <1>6. rest \in Block
    <2>1. n \in 0 .. Len(block)
      BY <1>5 DEF Block
    <2> QED
      BY <1>5, <1>r, <2>1, PieceType
  <1>7. PICK q : q = <<rest>> \o Tail(c.data_write_q)
    OBVIOUS
  <1>8. q \in Seq(Block) /\ Len(q) = Len(c.data_write_q)
    <2>1. <<rest>> \in Seq(Block) /\ Len(<<rest>>) = 1
      BY <1>6
    <2>2. q \in Seq(Block) /\ Len(q) = 1 + Len(Tail(c.data_write_q))
      BY <1>5, <1>7, <2>1, ConcatProperties
    <2> QED
      BY <1>5, <2>2
  <1>9. /\ d \in TCP_client /\ d.listen_fd = c.listen_fd /\ d.data_fd = c.data_fd
        /\ d.ev_data_accept = c.ev_data_accept /\ d.write_q = c.write_q
        /\ d.data_write_q = q
    BY <1>d, <1>3, <1>7, <1>8 DEF TCP_client
  <1>10. SetClient(f, d) /\ data_sock' = [data_sock EXCEPT ![p] = k]
    BY <1>0, <1>r, <1>d, <1>k, <1>s
  <1>11. /\ clients'[f] = d /\ Connected(f)'
         /\ \A g \in Fds : g # f => clients'[g] = clients[g]
    BY <1>3, <1>9, <1>10, ClientSet
  <1>12. SocketsServed(f)
    BY <1>c, <1>p, <1>s, <1>2, <1>3, <1>4, <1>9, <1>10, <1>11, ServedOn
  <1>13. Len(clients'[f].data_write_q) = Len(clients[f].data_write_q)
    BY <1>c, <1>8, <1>9, <1>11
  <1>14. /\ DiskOrder(f)' /\ OneBlock(f)'
         /\ \A a \in {"INDEX_START", "RETR_START", "STOR_START"} : Work(f, a)' = Work(f, a)
         /\ \A g \in Fds : WorkStays(g)
    BY <1>1, <1>3, <1>13, NoWork
  <1> QED
    BY <1>c, <1>1, <1>2, <1>3, <1>9, <1>11, <1>12, <1>14, DataServed

LEMMA DataWriteNothingKeeps ==
  ASSUME Orderly, IInv', NEW f \in Fds, fault = "none", UNCHANGED <<sessions, disks>>,
         data_write_nothing(f)
  PROVE  Kept
  <1>c. PICK c : c = clients[f]
    OBVIOUS
  <1>d. PICK d : d = [c EXCEPT !.ev_data_write = FALSE]
    OBVIOUS
  <1>1. /\ Ran(<<"data_write", f>>, {}) /\ SetClient(f, d) /\ data_sock' = data_sock
        /\ UNCHANGED <<session_pool, disk_pool, notify_pipe, fault, peers>>
    BY <1>c, <1>d DEF data_write_nothing, poolVars
  <1>2. /\ RoundFor(f) /\ <<"data_write", f>> \in ready
        /\ <<"data_accept", f>> \in ready' <=> <<"data_accept", f>> \in ready
    BY <1>1, RanAlone
  <1>3. ReactorTypeOK /\ Connected(f) /\ c \in TCP_client
    BY <1>2, <1>c, ServedClient
  <1>4. /\ d \in TCP_client /\ d.listen_fd = c.listen_fd /\ d.data_fd = c.data_fd
        /\ d.ev_data_accept = c.ev_data_accept /\ d.write_q = c.write_q
        /\ d.data_write_q = c.data_write_q
    BY <1>d, <1>3 DEF TCP_client
  <1>5. /\ clients'[f] = d /\ Connected(f)'
        /\ \A g \in Fds : g # f => clients'[g] = clients[g]
    BY <1>1, <1>3, <1>4, ClientSet
  <1>6. SocketsServed(f)
    BY <1>c, <1>1, <1>2, <1>3, <1>4, <1>5, ServedNone
  <1>7. Len(clients'[f].data_write_q) = Len(clients[f].data_write_q)
    BY <1>c, <1>4, <1>5
  <1>8. /\ DiskOrder(f)' /\ OneBlock(f)'
        /\ \A a \in {"INDEX_START", "RETR_START", "STOR_START"} : Work(f, a)' = Work(f, a)
        /\ \A g \in Fds : WorkStays(g)
    BY <1>1, <1>3, <1>7, NoWork
  <1> QED
    BY <1>c, <1>1, <1>2, <1>3, <1>4, <1>5, <1>6, <1>8, DataServed

\* A connection is accepted for the transfer in hand.
LEMMA DataAcceptKeeps ==
  ASSUME Orderly, IInv', NEW f \in Fds, fault = "none", UNCHANGED <<sessions, disks>>,
         data_accept(f)
  PROVE  Kept
  <1>c. PICK c : c = clients[f]
    OBVIOUS
  <1>p. PICK p : p = c.ev_data_accept
    OBVIOUS
  <1>d. PICK d : d = [c EXCEPT !.data_fd = p, !.ev_data_write = FALSE]
    OBVIOUS
  <1>t. PICK task : task = [fd |-> f, action |-> "DATA_ACCEPT"]
    OBVIOUS
  <1>1. /\ Ran(<<"data_accept", f>>, {}) /\ SetClient(f, d) /\ post_to_session(task)
        /\ data_sock' = [data_sock EXCEPT ![p].st = "accepted"]
        /\ fault' = fault \/ fault' # "none"
        /\ UNCHANGED <<disk_pool, notify_pipe, peers>>
    BY <1>c, <1>p, <1>d, <1>t DEF data_accept, event_set, Signal
  <1>2. ready' = ready \ {<<"data_accept", f>>} /\ <<"data_accept", f>> \in ready
    BY <1>1 DEF Ran
  <1>3. RoundFor(f)
    BY <1>2 DEF RoundFor
  <1>4. /\ ReactorTypeOK /\ PoolTypeOK /\ CallbacksValid /\ PortsOwn /\ SocksFresh
        /\ \A g \in Fds : Part(g)
    BY DEF Orderly, IInv, TypeOK
  <1>5. Connected(f) /\ c \in TCP_client
    BY <1>2, <1>4, <1>c DEF CallbacksValid, DataEvents, Connected, ReactorTypeOK
  <1>6. Calls(f) /\ p \in Ports /\ p \in Mentions(f)
    <2>1. Calls(f)
      BY <1>2, <1>4, <1>5 DEF Part, Accepting
    <2> QED
      BY <1>4, <1>5, <1>c, <1>p, <2>1, NamedPorts DEF Calls
  <1>7. d \in TCP_client /\ d.listen_fd = c.listen_fd /\ d.data_fd = p /\ d.ev_data_accept = p
        /\ d.write_q = c.write_q /\ d.data_write_q = c.data_write_q
    BY <1>5, <1>6, <1>d, <1>p DEF TCP_client
  <1>8. /\ clients'[f] = d /\ Connected(f)' /\ \A g \in Fds : g # f => clients'[g] = clients[g]
    BY <1>1, <1>4, <1>7, ClientSet
  <1>9. task \in SessionTask /\ task.fd = f /\ task.action = "DATA_ACCEPT"
    BY <1>t DEF SessionTask, SignalTasks
  <1>10. /\ Tasks(f, "DATA_ACCEPT")' = Tasks(f, "DATA_ACCEPT") + 1
         /\ \A a \in {"READ", "PASV", "CTRL_ACCEPT", "TRANS_OK"} : Tasks(f, a)' = Tasks(f, a)
         /\ MyTasks(f)' = MyTasks(f) \cup {task}
         /\ PasvOrder(f) /\ Tasks(f, "PASV") = 0 => PasvOrder(f)'
         /\ \A g \in Fds : g # f => TasksStay(g)
    <2>1. /\ \A a : Tasks(f, a)' = (IF "DATA_ACCEPT" = a THEN Tasks(f, a) + 1 ELSE Tasks(f, a))
          /\ MyTasks(f)' = MyTasks(f) \cup {task}
          /\ PasvOrder(f) /\ Tasks(f, "PASV") = 0 => PasvOrder(f)'
      BY <1>1, <1>4, <1>9, TaskPosted
    <2>2. \A g \in Fds : g # f => TasksStay(g)
      BY <1>1, <1>4, <1>9, TaskPosted DEF TasksStay
    <2> QED
      BY <2>1, <2>2
  <1>11. /\ \A g \in Fds : NoticesStay(g)
         /\ Head(notify_pipe)' = Head(notify_pipe)
         /\ DiskOrder(f)' /\ OneBlock(f)' /\ \A g \in Fds : WorkStays(g)
         /\ \A a \in {"INDEX_START", "RETR_START", "STOR_START"} : Work(f, a)' = Work(f, a)
    <2>1. Len(clients'[f].data_write_q) = Len(clients[f].data_write_q)
      BY <1>7, <1>8, <1>c
    <2> QED
      BY <1>1, <1>5, <2>1, NoticesUnchanged, NoWork
  <1>12. Serviced(f)
    BY <1>1, <1>5, <1>8, <1>10, <1>11 DEF Serviced
  <1>13. /\ Sent(f, "PASV")' = Sent(f, "PASV") /\ FinalNotices(f)' = FinalNotices(f)
         /\ MyNotices(f)' = MyNotices(f)
    BY <1>11 DEF NoticesStay
  <1>14. /\ Told(f)' = Told(f) /\ PasvPorts(f)' = PasvPorts(f)
         /\ \A x \in MyTasks(f)' : x.action \in {"READ", "PASV"} => x \in MyTasks(f)
    <2>1. Told(f)' = Told(f)
      BY <1>1, <1>7, <1>8, <1>13, <1>c DEF Told
    <2> QED
      BY <1>9, <1>10, <2>1 DEF PasvPorts
  <1>15. LinesKeep(f) /\ Promised(f)' = Promised(f)
    BY <1>1, <1>10, <1>13, <1>14 DEF LinesKeep, Promised
  <1>16. Open(f)' = Open(f)
    <2>1. Busy(f)' = Busy(f)
      BY <1>12 DEF Serviced, Busy, Act
    <2>2. Waits(f)' = Waits(f)
      BY <1>10 DEF Waits
    <2>3. Ends(f)' = Ends(f) /\ Unread(f)' = Unread(f)
      BY <1>1, <1>7, <1>8, <1>13, <1>c DEF Ends, Unread
    <2> QED
      BY <1>13, <2>1, <2>2, <2>3 DEF Open
  <1>17. OpenNat(f) /\ OpenNat(f)' /\ UnderNat(f) /\ Open(f)' <= Open(f)
    BY <1>5, <1>8, <1>16, CountedType, CountedNext DEF AllCounted, OpenNat, Orderly
  <1>18. /\ Under(f)' = Under(f) /\ Act(f)' = Act(f) /\ Busy(f)' = Busy(f)
         /\ Absent(f)' /\ OneCommand(f)' /\ OneTransfer(f)' /\ KindsAgree(f)' /\ Permitted(f)'
    BY <1>12, <1>17, ServicedKeeps
  <1>19. OneLine(f)' /\ InHand(f)'
    BY <1>12, <1>15, <1>18, SameLines
  <1>20. /\ data_sock'[p].st = "accepted"
         /\ \A q \in Ports : /\ data_sock'[q].peer = data_sock[q].peer
                             /\ data_sock'[q].inq = data_sock[q].inq
                             /\ q # p => data_sock'[q] = data_sock[q]
    BY <1>1, <1>4, <1>6 DEF ReactorTypeOK, DataSock
  <1>21. ~Calls(f)' /\ <<"data_accept", f>> \notin ready'
    BY <1>2, <1>7, <1>8, <1>20 DEF Calls
  <1>22. Accepts(f)' = Accepts(f) + 1 /\ Accepts(f) \in Nat /\ Under(f) \in Nat
    BY <1>10, <1>17 DEF Accepts, UnderNat
  <1>23. /\ Accepting(f) /\ InHand(f) /\ Quiet(f) /\ Rounds(f)
    BY <1>4 DEF Part
  <1>24. peers[f].xfer # NULL =>
           /\ p = peers[f].port /\ data_sock[p].peer # "none"
           /\ Accepts(f) = 0 /\ Under(f) = 0
    BY <1>5, <1>6, <1>23, <1>c, <1>p DEF Accepting
  <1>25. peers[f].xfer = NULL => peers[f].port = NULL /\ Told(f) = {}
    BY <1>5, <1>6, <1>23 DEF Accepting
  <1>26. Tasks(f, "PASV") = 0 /\ PasvOrder(f)
    <2>1. Tasks(f, "PASV") \in Nat
      BY <1>4, NumbersType DEF Numbers
    <2> QED
      BY <1>5, <1>6, <1>23, <2>1 DEF Accepting
  <1>27. Accepting(f)'
    <2>1. PasvOrder(f)' /\ Tasks(f, "PASV")' = 0
      BY <1>10, <1>26
    <2>2. peers'[f] = peers[f] /\ Told(f)' = Told(f)
      BY <1>1, <1>14
    <2>3. peers[f].xfer # NULL => data_sock'[peers[f].port].peer # "none"
      BY <1>6, <1>20, <1>24
    <2>4. peers[f].xfer # NULL => Accepts(f)' + Under(f)' <= 1
      BY <1>18, <1>22, <1>24
    <2> QED
      BY <1>21, <1>25, <2>1, <2>2, <2>3, <2>4 DEF Accepting
  <1>28. Quiet(f)'
    <2>1. Promised(f) \subseteq Ports
      BY <1>4, <1>5, NamedPorts
    <2>2. peers[f].xfer # NULL => peers[f].port \in Promised(f)
      BY <1>5, <1>23 DEF InHand, Promised
    <2>3. \A q \in Promised(f) : /\ data_sock'[q].peer = data_sock[q].peer
                                 /\ data_sock'[q].inq = data_sock[q].inq
      BY <1>20, <2>1
    <2>4. peers'[f] = peers[f] /\ Promised(f)' = Promised(f)
      BY <1>1, <1>15
    <2>5. peers[f].xfer # NULL => clients'[f].data_fd = peers[f].port
      BY <1>7, <1>8, <1>24
    <2> QED
      BY <1>5, <1>23, <2>2, <2>3, <2>4, <2>5 DEF Quiet
  <1>29. Rounds(f)'
    BY <1>1, <1>2, <1>5, <1>21, <1>23 DEF Rounds
  <1>30. Part(f)'
    BY <1>11, <1>18, <1>19, <1>27, <1>28, <1>29 DEF Part
  <1>31. SocksFresh' /\ \A q \in Ports : data_sock[q].st # "free" => data_sock'[q].st # "free"
    BY <1>4, <1>20 DEF SocksFresh
  <1>32. \A q \in Mentions(f)' : q \in Mentions(f)
    BY <1>6, <1>7, <1>8, <1>15, <1>c, <1>p DEF Mentions
  <1>33. \A g \in Fds : g # f => Apart(g)
    <2>1. \A q \in Ports : data_sock[q].st # "free" /\ q \notin Mentions(f) =>
            data_sock'[q] = data_sock[q]
      BY <1>6, <1>20
    <2> QED
      BY <1>1, <1>3, <1>5, <1>8, <1>10, <1>11, <2>1, ReactorApart
  <1> QED
    BY <1>5, <1>30, <1>31, <1>32, <1>33, ServicedDone
LEMMA PeerSet ==
  ASSUME IInv, NEW f \in Fds, Connected(f), NEW k, peers' = [peers EXCEPT ![f] = k]
  PROVE  /\ peers[f] \in Peer /\ peers'[f] = k
         /\ \A g \in Fds : g # f => peers'[g] = peers[g]
  BY DEF IInv, TypeOK, ReactorTypeOK, ClientsWhole, Connected

\* A task of f is posted to its session thread.
LEMMA PostedFor ==
  ASSUME PoolTypeOK, NEW f \in Fds, NEW act, NEW task \in SessionTask, task.fd = f,
         task.action = act, post_to_session(task)
  PROVE  /\ \A a : Tasks(f, a)' = (IF act = a THEN Tasks(f, a) + 1 ELSE Tasks(f, a))
         /\ MyTasks(f)' = MyTasks(f) \cup {task}
         /\ PasvOrder(f) /\ (act = "DATA_ACCEPT" => Tasks(f, "PASV") = 0) => PasvOrder(f)'
         /\ \A g \in Fds : g # f => TasksStay(g)
  <1>1. /\ \A a : Tasks(f, a)' = (IF act = a THEN Tasks(f, a) + 1 ELSE Tasks(f, a))
        /\ MyTasks(f)' = MyTasks(f) \cup {task}
        /\ PasvOrder(f) /\ (act = "DATA_ACCEPT" => Tasks(f, "PASV") = 0) => PasvOrder(f)'
    BY TaskPosted
  <1>2. ASSUME NEW g \in Fds, g # f PROVE TasksStay(g)
    <2>1. /\ \A a : Tasks(g, a)' = Tasks(g, a)
          /\ MyTasks(g)' = MyTasks(g)
          /\ PasvOrder(g) => PasvOrder(g)'
      BY <1>2, TaskPosted
    <2> QED
      BY <2>1 DEF TasksStay
  <1> QED
    BY <1>1, <1>2

\* The lines that arrived become one task.
LEMMA ReadLinesKeeps ==
  ASSUME Orderly, IInv', NEW f \in Fds, fault = "none", UNCHANGED <<sessions, disks>>,
         on_read_lines(f)
  PROVE  Kept
  <1>c. PICK me : me = peers[f]
    OBVIOUS
  <1>k. PICK k : k = [me EXCEPT !.inq = <<>>]
    OBVIOUS
  <1>t. PICK task : task = [fd |-> f, action |-> "READ", buf |-> me.inq]
    OBVIOUS
  <1>1. /\ Ran(<<"read", f>>, {}) /\ me.inq # <<>> /\ post_to_session(task)
        /\ peers' = [peers EXCEPT ![f] = k]
        /\ UNCHANGED <<disk_pool, notify_pipe, fault, clients, data_sock>>
    BY <1>c, <1>k, <1>t DEF on_read_lines
  <1>2. /\ RoundFor(f) /\ <<"read", f>> \in ready /\ <<"read", f>> \notin ready'
        /\ <<"data_accept", f>> \in ready' <=> <<"data_accept", f>> \in ready
    <2>1. <<"read", f>> \notin ready'
      BY <1>1 DEF Ran
    <2> QED
      BY <1>1, <2>1, RanAlone
  <1>3. /\ ReactorTypeOK /\ PoolTypeOK /\ CallbacksValid /\ PortsOwn /\ SocksFresh /\ IInv
        /\ Part(f) /\ AllCounted /\ AllCounted'
    BY CountedType, CountedNext DEF Orderly, IInv, TypeOK
  <1>4. Connected(f) /\ Connected(f)'
    BY <1>1, <1>2, <1>3 DEF CallbacksValid, CtrlEvents, Connected
  <1>5. me \in Peer /\ peers'[f] = k /\ \A g \in Fds : g # f => peers'[g] = peers[g]
    BY <1>1, <1>3, <1>4, <1>c, PeerSet
  <1>6. /\ k.inq = <<>> /\ k.outq = me.outq /\ k.st = me.st /\ k.wait = me.wait
        /\ k.xfer = me.xfer /\ k.port = me.port
    BY <1>5, <1>k DEF Peer
  <1>7. me.inq \in Seq(Command) /\ Len(me.inq) \in Nat /\ Len(me.inq) # 0
    BY <1>1, <1>5, EmptySeq DEF Peer
  <1>8. task \in SessionTask /\ task.fd = f /\ task.action = "READ" /\ task.buf = me.inq
    BY <1>1, <1>7, <1>t DEF SessionTask
  <1>9. /\ Tasks(f, "READ")' = Tasks(f, "READ") + 1
        /\ \A a \in {"DATA_ACCEPT", "PASV", "CTRL_ACCEPT", "TRANS_OK"} : Tasks(f, a)' = Tasks(f, a)
        /\ MyTasks(f)' = MyTasks(f) \cup {task}
        /\ PasvOrder(f) => PasvOrder(f)'
        /\ \A g \in Fds : g # f => TasksStay(g)
    BY <1>1, <1>3, <1>8, PostedFor
  <1>10. /\ \A g \in Fds : NoticesStay(g)
         /\ Head(notify_pipe)' = Head(notify_pipe)
         /\ DiskOrder(f)' /\ OneBlock(f)' /\ \A g \in Fds : WorkStays(g)
         /\ \A a \in {"INDEX_START", "RETR_START", "STOR_START"} : Work(f, a)' = Work(f, a)
    BY <1>1, <1>4, NoticesUnchanged, NoWork
  <1>11. Serviced(f)
    BY <1>4, <1>5, <1>6, <1>9, <1>10, <1>c DEF Serviced
  <1>12. /\ Sent(f, "PASV")' = Sent(f, "PASV") /\ FinalNotices(f)' = FinalNotices(f)
         /\ MyNotices(f)' = MyNotices(f)
    BY <1>10 DEF NoticesStay
  <1>13. Told(f)' = Told(f) /\ PasvPorts(f)' = PasvPorts(f)
    <2>1. Told(f)' = Told(f)
      BY <1>1, <1>5, <1>6, <1>12, <1>c DEF Told
    <2> QED
      BY <1>8, <1>9, <2>1 DEF PasvPorts
  <1>14. /\ OpenNat(f) /\ OpenNat(f)' /\ UnderNat(f) /\ Open(f) <= 1
    BY <1>3, <1>4 DEF AllCounted, Part, OneCommand, OpenNat
  <1>15. Open(f)' = Open(f) /\ Len(me.inq) = 1
    <2>1. Busy(f)' = Busy(f)
      BY <1>11 DEF Serviced, Busy, Act
    <2>2. Waits(f)' = Waits(f) + 1
      <3>1. Tasks(f, "READ") \in Nat /\ Tasks(f, "PASV") \in Nat /\ Tasks(f, "CTRL_ACCEPT") \in Nat
        BY <1>3, NumbersType DEF Numbers
      <3> QED
        BY <1>9, <3>1 DEF Waits
    <2>3. Ends(f)' = Ends(f)
      BY <1>1, <1>5, <1>6, <1>12, <1>c DEF Ends
    <2>4. Unread(f) = Len(me.inq) /\ Unread(f)' = 0
      BY <1>5, <1>6, <1>c DEF Unread
    <2>5. Len(me.inq) = 1
      <3>1. Unread(f) <= Open(f)
        BY <1>14 DEF Open, OpenNat
      <3>2. PICK n : n = Len(me.inq)
        OBVIOUS
      <3>3. n \in Nat /\ n # 0 /\ n = Unread(f)
        BY <1>7, <2>4, <3>2
      <3>4. n = 1
        BY <1>14, <3>1, <3>3 DEF OpenNat
      <3> QED
        BY <3>2, <3>4
    <2>6. Open(f)' = Open(f)
      BY <1>12, <1>14, <2>1, <2>2, <2>3, <2>4, <2>5 DEF Open, OpenNat
    <2> QED
      BY <2>5, <2>6
  <1>16. /\ Under(f)' = Under(f) /\ Act(f)' = Act(f) /\ Busy(f)' = Busy(f)
         /\ Absent(f)' /\ OneCommand(f)' /\ OneTransfer(f)' /\ KindsAgree(f)' /\ Permitted(f)'
    BY <1>11, <1>14, <1>15, ServicedKeeps DEF OpenNat
  <1>17. OneLine(f)'
    BY <1>3, <1>8, <1>9, <1>11, <1>15 DEF Part, OneLine, Serviced
  <1>18. InHand(f)'
    <2>1. InHand(f) /\ Awaited(f)' = Awaited(f)
      BY <1>3, <1>5, <1>6, <1>c DEF Part, Awaited
    <2>2. OnItsWay(f, me.inq[1])
      BY <1>4, <1>15, <1>c, <2>1 DEF InHand
    <2>3. \A x : OnItsWay(f, x)' <=> OnItsWay(f, x)
      BY <1>5, <1>6, <1>c DEF OnItsWay
    <2>4. \A x \in MyTasks(f)' : x.action = "READ" => OnItsWay(f, x.buf[1])'
      BY <1>4, <1>8, <1>9, <2>1, <2>2, <2>3 DEF InHand
    <2>5. Len(peers'[f].inq) = 0
      BY <1>5, <1>6
    <2>6. Tasks(f, "PASV")' = Tasks(f, "PASV")
      BY <1>9
    <2>7. \A i \in 1 .. Len(peers'[f].inq) : OnItsWay(f, peers[f].inq[i])'
      BY <2>5
    <2> QED
      BY <1>4, <1>5, <1>6, <1>12, <1>13, <1>16, <1>c, <2>1, <2>4, <2>5, <2>6 DEF InHand
  <1>19. SocketsKeep(f)
    <2>1. Calls(f)' = Calls(f)
      BY <1>1 DEF Calls
    <2>2. Accepts(f)' = Accepts(f)
      BY <1>9 DEF Accepts
    <2> QED
      BY <1>1, <1>2, <1>9, <1>16, <2>1, <2>2 DEF SocketsKeep
  <1>20. PortsTold(f)
    BY <1>9, <1>13 DEF PortsTold
  <1>21. Accepting(f)' /\ Quiet(f)' /\ Promised(f)' \subseteq Promised(f)
    BY <1>11, <1>19, <1>20, SameSockets
  <1>22. Rounds(f)'
    <2>1. Rounds(f) /\ Calls(f)' = Calls(f)
      BY <1>1, <1>3 DEF Part, Calls
    <2> QED
      BY <1>1, <1>2, <1>4, <1>10, <2>1 DEF Rounds, RoundFor
  <1>23. Part(f)'
    BY <1>10, <1>16, <1>17, <1>18, <1>21, <1>22 DEF Part
  <1>24. \A q \in Mentions(f)' : q \in Mentions(f)
    BY <1>1, <1>21 DEF Mentions
  <1>25. \A g \in Fds : g # f => Apart(g)
    BY <1>1, <1>2, <1>4, <1>5, <1>9, <1>10, ReactorApart
  <1> QED
    BY <1>1, <1>3, <1>4, <1>23, <1>24, <1>25, ServicedDone DEF SocksFresh

\* The sockets stay, and what the other threads wait for.
LEMMA SocketsSame ==
  ASSUME NEW f \in Fds, UNCHANGED <<session_pool, data_sock>>,
         clients'[f].data_fd = clients[f].data_fd,
         clients'[f].ev_data_accept = clients[f].ev_data_accept,
         <<"data_accept", f>> \in ready' <=> <<"data_accept", f>> \in ready,
         Under(f)' = Under(f)
  PROVE  SocketsKeep(f)
  <1>1. Calls(f)' = Calls(f)
    BY DEF Calls
  <1>2. TasksStay(f)
    BY TasksUnchanged
  <1>3. Accepts(f)' = Accepts(f) /\ (PasvOrder(f) => PasvOrder(f)')
    BY <1>2 DEF Accepts, TasksStay
  <1> QED
    BY <1>1, <1>3 DEF SocketsKeep

\* An answer leaves for the client.
LEMMA WriteKeeps ==
  ASSUME Orderly, IInv', NEW f \in Fds, fault = "none", UNCHANGED <<sessions, disks>>,
         on_write(f)
  PROVE  Kept
  <1>c. PICK c : c = clients[f]
    OBVIOUS
  <1>d. PICK d : d = [c EXCEPT !.write_q = Tail(@), !.ev_write = FALSE]
    OBVIOUS
  <1>m. PICK me : me = peers[f]
    OBVIOUS
  <1>r. PICK r : r = Head(c.write_q)
    OBVIOUS
  <1>k. PICK k : k = [me EXCEPT !.outq = Append(@, r)]
    OBVIOUS
  <1>1. /\ Ran(<<"write", f>>, {}) /\ SetClient(f, d) /\ peers' = [peers EXCEPT ![f] = k]
        /\ UNCHANGED <<session_pool, disk_pool, notify_pipe, fault, data_sock>>
    BY <1>c, <1>d, <1>m, <1>r, <1>k DEF on_write, poolVars
  <1>2. /\ RoundFor(f) /\ <<"write", f>> \in ready
        /\ <<"data_accept", f>> \in ready' <=> <<"data_accept", f>> \in ready
    BY <1>1, RanAlone
  <1>3. /\ ReactorTypeOK /\ PoolTypeOK /\ CallbacksValid /\ SocksFresh /\ IInv
        /\ AllCounted /\ AllCounted'
    BY CountedType, CountedNext DEF Orderly, IInv, TypeOK
  <1>4. Connected(f) /\ c.write_q # <<>> /\ c \in TCP_client
    BY <1>2, <1>3, <1>c DEF CallbacksValid, CtrlEvents, Connected, ReactorTypeOK
  <1>5. me \in Peer /\ peers'[f] = k /\ \A g \in Fds : g # f => peers'[g] = peers[g]
    BY <1>1, <1>3, <1>4, <1>m, PeerSet
  <1>6. /\ k.inq = me.inq /\ k.outq = Append(me.outq, r) /\ k.st = me.st /\ k.wait = me.wait
        /\ k.xfer = me.xfer /\ k.port = me.port
    BY <1>5, <1>k DEF Peer
  <1>7. c.write_q \in Seq(Reply) /\ r \in Reply /\ Tail(c.write_q) \in Seq(Reply)
    BY <1>4, <1>r, HeadTailProperties DEF TCP_client
  <1>8. /\ d \in TCP_client /\ d.listen_fd = c.listen_fd /\ d.data_fd = c.data_fd
        /\ d.ev_data_accept = c.ev_data_accept /\ d.write_q = Tail(c.write_q)
        /\ d.data_write_q = c.data_write_q
    BY <1>d, <1>4, <1>7 DEF TCP_client
  <1>9. /\ clients'[f] = d /\ Connected(f)' /\ \A g \in Fds : g # f => clients'[g] = clients[g]
    BY <1>1, <1>3, <1>8, ClientSet
  <1>10. /\ \A g \in Fds : NoticesStay(g) /\ TasksStay(g)
         /\ Head(notify_pipe)' = Head(notify_pipe)
         /\ DiskOrder(f)' /\ OneBlock(f)' /\ \A g \in Fds : WorkStays(g)
         /\ \A a \in {"INDEX_START", "RETR_START", "STOR_START"} : Work(f, a)' = Work(f, a)
    <2>1. Len(clients'[f].data_write_q) = Len(clients[f].data_write_q)
      BY <1>8, <1>9, <1>c
    <2> QED
      BY <1>1, <1>4, <2>1, NoticesUnchanged, TasksUnchanged, NoWork
  <1>11. /\ \A a : Tasks(f, a)' = Tasks(f, a) /\ Sent(f, a)' = Sent(f, a)
         /\ MyTasks(f)' = MyTasks(f) /\ MyNotices(f)' = MyNotices(f)
         /\ FinalNotices(f)' = FinalNotices(f)
    BY <1>10 DEF NoticesStay, TasksStay
  <1>12. Serviced(f)
    BY <1>1, <1>4, <1>5, <1>6, <1>9, <1>10, <1>11, <1>m DEF Serviced
  <1>13. Told(f)' \subseteq Told(f)
    <2>1. /\ Elements(c.write_q) = Elements(Tail(c.write_q)) \cup {r}
          /\ Elements(Append(me.outq, r)) = Elements(me.outq) \cup {r}
      BY <1>4, <1>5, <1>7, <1>r, TailElements, AppendElements DEF Peer
    <2>2. /\ clients'[f].write_q = Tail(c.write_q) /\ clients[f].write_q = c.write_q
          /\ peers'[f].outq = Append(me.outq, r) /\ peers[f].outq = me.outq
      BY <1>5, <1>6, <1>8, <1>9, <1>c, <1>m
    <2> QED
      BY <1>11, <2>1, <2>2 DEF Told
  <1>14. LinesKeep(f)
    BY <1>5, <1>6, <1>11, <1>13, <1>m DEF LinesKeep
  <1>15. Open(f)' = Open(f)
    <2>1. Busy(f)' = Busy(f)
      BY <1>12 DEF Serviced, Busy, Act
    <2>2. Ends(f)' = Ends(f)
      <3>1. PICK w, w1, o, o1, n : /\ w = Finals(c.write_q) /\ w1 = Finals(Tail(c.write_q))
                                   /\ o = Finals(me.outq) /\ o1 = Finals(Append(me.outq, r))
                                   /\ n = FinalNotices(f)
        OBVIOUS
      <3>2. w1 \in Nat /\ o \in Nat
        BY <1>5, <1>7, <3>1, FinalsNone DEF Peer
      <3>3. /\ w = (IF r.code # 150 THEN w1 + 1 ELSE w1)
            /\ o1 = (IF r.code # 150 THEN o + 1 ELSE o)
        BY <1>4, <1>5, <1>7, <1>r, <3>1, FinalsTaken, FinalsAdded DEF Peer
      <3>4. Ends(f) = n + w + o /\ Ends(f)' = n + w1 + o1
        BY <1>5, <1>6, <1>8, <1>9, <1>11, <1>c, <1>m, <3>1 DEF Ends
      <3>5. n \in Nat
        BY <1>3, <3>1, NumbersType DEF Numbers
      <3> QED
        BY <3>2, <3>3, <3>4, <3>5
    <2>3. Unread(f)' = Unread(f)
      BY <1>5, <1>6, <1>m DEF Unread
    <2> QED
      BY <1>11, <2>1, <2>2, <2>3 DEF Open, Waits
  <1>16. Under(f)' = Under(f) /\ Open(f)' <= Open(f)
    <2>1. Under(f)' = Under(f)
      BY <1>12 DEF Serviced, Under, Starts, Serves
    <2> QED
      BY <1>3, <1>4, <1>15, <2>1 DEF AllCounted, OpenNat
  <1>17. SocketsKeep(f)
    BY <1>1, <1>2, <1>8, <1>9, <1>16, <1>c, SocketsSame
  <1>18. RoundKeeps(f)
    BY <1>2, <1>10 DEF RoundKeeps, RoundFor
  <1>19. \A g \in Fds : g # f => Apart(g)
    BY <1>1, <1>2, <1>4, <1>5, <1>9, <1>10, ReactorApart
  <1>20. SocksFresh'
    BY <1>1, <1>3 DEF SocksFresh
  <1> QED
    BY <1>1, <1>8, <1>9, <1>10, <1>12, <1>14, <1>16, <1>17, <1>18, <1>19, <1>20, <1>c,
       CallbackDone

\* The reactor takes a record of f from the pipe.
TookNotice(f, n, action) ==
  /\ f \in Fds /\ n \in Notification /\ n.fd = f /\ n.action = action /\ n \in MyNotices(f)
  /\ Connected(f) /\ clients[f] \in TCP_client
  /\ \A a : Sent(f, a) = (IF action = a THEN Sent(f, a)' + 1 ELSE Sent(f, a)')
  /\ FinalNotices(f) = (IF EndsFor(n, f) THEN FinalNotices(f)' + 1 ELSE FinalNotices(f)')
  /\ MyNotices(f) = MyNotices(f)' \cup {n}
  /\ \A g \in Fds : g # f => NoticesStay(g)
  /\ RoundFor(f) /\ <<"notify">> \notin ready'

LEMMA NoticeServed ==
  ASSUME Orderly, NEW action, NEW gone, Notified(action, gone), NEW n, n = Head(notify_pipe),
         gone \subseteq EventsOf(n.fd)
  PROVE  TookNotice(n.fd, n, action)
  <1>1. /\ PoolTypeOK /\ ReactorTypeOK /\ CallbacksValid
    BY DEF Orderly, IInv, TypeOK
  <1>2. /\ Ran(<<"notify">>, gone) /\ n.action = action /\ clients[n.fd] # NULL
        /\ notify_pipe' = Tail(notify_pipe)
    BY DEF Notified
  <1>3. notify_pipe # <<>> /\ notify_pipe \in Seq(Notification)
    BY <1>1, <1>2 DEF CallbacksValid, Ran, PoolTypeOK
  <1>4. n \in Notification
    BY <1>3
  <1>5. n.fd \in Fds
    BY <1>4 DEF Notification
  <1>6. Connected(n.fd) /\ clients[n.fd] \in TCP_client
    BY <1>1, <1>2, <1>5 DEF Connected, ReactorTypeOK
  <1>7. /\ \A a : Sent(n.fd, a) = (IF action = a THEN Sent(n.fd, a)' + 1 ELSE Sent(n.fd, a)')
        /\ FinalNotices(n.fd) =
             (IF EndsFor(n, n.fd) THEN FinalNotices(n.fd)' + 1 ELSE FinalNotices(n.fd)')
        /\ MyNotices(n.fd) = MyNotices(n.fd)' \cup {n}
    BY <1>1, <1>2, <1>3, <1>5, NoticeTaken
  <1>8. ASSUME NEW g \in Fds, g # n.fd PROVE NoticesStay(g)
    <2>1. ~EndsFor(n, g)
      BY <1>8 DEF EndsFor
    <2>2. /\ \A a : Sent(g, a)' = Sent(g, a)
          /\ FinalNotices(g)' = FinalNotices(g) /\ MyNotices(g)' = MyNotices(g)
      BY <1>1, <1>2, <1>3, <1>8, <2>1, NoticeTaken
    <2> QED
      BY <2>2 DEF NoticesStay
  <1>9. RoundFor(n.fd) /\ <<"notify">> \notin ready'
    BY <1>2, <1>5, RanFor
  <1> QED
    BY <1>2, <1>4, <1>5, <1>6, <1>7, <1>8, <1>9 DEF TookNotice

\* The disk threads get nothing, and a block moves on.
LEMMA BlockMoves ==
  ASSUME Orderly, NEW f \in Fds, Connected(f), UNCHANGED <<disk_pool, disks>>,
         fault' = fault \/ fault' # "none",
         Sent(f, "DATA_WRITE")' + Len(clients'[f].data_write_q)
           = Sent(f, "DATA_WRITE") + Len(clients[f].data_write_q)
  PROVE  /\ DiskOrder(f)' /\ OneBlock(f)'
         /\ \A a \in {"INDEX_START", "RETR_START", "STOR_START"} : Work(f, a)' = Work(f, a)
         /\ \A g \in Fds : WorkStays(g)
  <1>p. DiskOrder(f) /\ OneBlock(f)
    BY DEF Orderly, Part
  <1>1. \A g \in Fds : WorkStays(g)
    BY WorkUnchanged
  <1>2. /\ \A a : Work(f, a)' = Work(f, a)
        /\ StartOrder(f) => StartOrder(f)'
    BY <1>1 DEF WorkStays
  <1>3. DAct(f)' = DAct(f)
    BY DEF DAct
  <1>4. DiskOrder(f)'
    BY <1>p, <1>2, <1>3 DEF DiskOrder
  <1>5. OneBlock(f)'
    BY <1>p, <1>2, <1>3 DEF OneBlock
  <1> QED
    BY <1>1, <1>2, <1>4, <1>5

\* A record of f has been served, in terms of the parts.
LEMMA NoticeDone ==
  ASSUME Orderly, IInv', NEW f, NEW n, NEW action, TookNotice(f, n, action), fault = "none",
         UNCHANGED <<sessions, disks, session_pool, disk_pool, peers>>, fault' = fault,
         NEW d \in TCP_client, SetClient(f, d),
         \/ /\ action \in {"CTRL_WRITE", "TRANS_OK"}
            /\ d.write_q = Append(clients[f].write_q, n.reply)
            /\ d.data_write_q = clients[f].data_write_q
         \/ /\ action = "DATA_WRITE"
            /\ d.write_q = clients[f].write_q
            /\ d.data_write_q = Append(clients[f].data_write_q, n.data),
         clients'[f] = d => SocketsServed(f)
  PROVE  Kept
  <1>1. /\ ReactorTypeOK /\ PoolTypeOK /\ IInv /\ AllCounted /\ AllCounted'
    BY CountedType, CountedNext DEF Orderly, IInv, TypeOK
  <1>2. /\ f \in Fds /\ n \in Notification /\ n.fd = f /\ n.action = action
        /\ n \in MyNotices(f) /\ Connected(f) /\ clients[f] \in TCP_client
        /\ FinalNotices(f) = (IF EndsFor(n, f) THEN FinalNotices(f)' + 1 ELSE FinalNotices(f)')
        /\ MyNotices(f) = MyNotices(f)' \cup {n}
        /\ \A g \in Fds : g # f => NoticesStay(g)
        /\ RoundFor(f) /\ <<"notify">> \notin ready'
    BY DEF TookNotice
  <1>3. /\ Sent(f, "PASV")' = Sent(f, "PASV")
        /\ Sent(f, "DATA_WRITE") = (IF action = "DATA_WRITE" THEN Sent(f, "DATA_WRITE")' + 1
                                                             ELSE Sent(f, "DATA_WRITE")')
    <2>1. action # "PASV"
      OBVIOUS
    <2> QED
      BY <2>1 DEF TookNotice
  <1>4. clients'[f] = d /\ Connected(f)' /\ \A g \in Fds : g # f => clients'[g] = clients[g]
    BY <1>1, <1>2, ClientSet
  <1>5. SocketsServed(f)
    BY <1>4
  <1>6. \A g \in Fds : TasksStay(g)
    BY TasksUnchanged
  <1>7. /\ \A a : Tasks(f, a)' = Tasks(f, a) /\ MyTasks(f)' = MyTasks(f)
        /\ PasvOrder(f) => PasvOrder(f)'
    BY <1>2, <1>6 DEF TasksStay
  <1>8. /\ DiskOrder(f)' /\ OneBlock(f)' /\ \A g \in Fds : WorkStays(g)
        /\ \A a \in {"INDEX_START", "RETR_START", "STOR_START"} : Work(f, a)' = Work(f, a)
    <2>1. PICK s, s1, l, l1 : /\ s = Sent(f, "DATA_WRITE") /\ s1 = Sent(f, "DATA_WRITE")'
                              /\ l = Len(clients[f].data_write_q)
                              /\ l1 = Len(clients'[f].data_write_q)
      OBVIOUS
    <2>2. l \in Nat /\ s1 \in Nat
      <3>1. s1 \in Nat
        BY <1>2, <2>1, NumbersNext DEF Numbers, IInv, TypeOK
      <3> QED
        BY <1>2, <2>1, <3>1 DEF TCP_client
    <2>3. CASE action = "DATA_WRITE"
      <3>1. n.data \in Block
        BY <1>2, <2>3 DEF Notification
      <3>2. l1 = l + 1
        BY <1>2, <1>4, <2>1, <2>3, <3>1 DEF TCP_client
      <3>3. s = s1 + 1
        BY <1>3, <2>1, <2>3
      <3>4. s1 + l1 = s + l
        BY <2>2, <3>2, <3>3
      <3> QED
        BY <1>2, <2>1, <3>4, BlockMoves
    <2>4. CASE action # "DATA_WRITE"
      <3>1. l1 = l /\ s1 = s
        BY <1>3, <1>4, <2>1, <2>4
      <3>2. s1 + l1 = s + l
        BY <3>1
      <3> QED
        BY <1>2, <2>1, <3>2, BlockMoves
    <2> QED
      BY <2>3, <2>4
  <1>9. Serviced(f)
    BY <1>2, <1>4, <1>7, <1>8 DEF Serviced
  <1>10. ASSUME action \in {"CTRL_WRITE", "TRANS_OK"}
         PROVE  Told(f)' \subseteq Told(f) /\ Ends(f)' = Ends(f)
    <2>0. PICK answers, reply : answers = clients[f].write_q /\ reply = n.reply
      OBVIOUS
    <2>1. reply \in Reply /\ answers \in Seq(Reply) /\ d.write_q = Append(answers, reply)
      <3>1. action # "DATA_WRITE"
        BY <1>10
      <3>2. d.write_q = Append(answers, reply)
        BY <2>0, <3>1
      <3>3. n.reply \in Reply
        BY <1>2, <1>10 DEF Notification
      <3> QED
        BY <1>2, <2>0, <3>2, <3>3 DEF TCP_client
    <2>2. Elements(d.write_q) = Elements(clients[f].write_q) \cup {n.reply}
      BY <2>0, <2>1, AppendElements
    <2> DEFINE Tell(notices) ==
      {m.reply.port :
         m \in {x \in notices : x.action \in {"CTRL_WRITE", "TRANS_OK"} /\ x.reply.code = 227}}
    <2>3. Told(f)' \subseteq Told(f)
      <3>1. /\ Told(f) = Tell(MyNotices(f)) \cup
                  {r.port : r \in {q \in Elements(clients[f].write_q) \cup Elements(peers[f].outq) :
                            q.code = 227}}
            /\ Told(f)' = Tell(MyNotices(f)') \cup
                  {r.port : r \in {q \in Elements(d.write_q) \cup Elements(peers[f].outq) :
                            q.code = 227}}
        BY <1>4 DEF Told
      <3> QED
        BY <1>2, <1>10, <2>2, <3>1
    <2>4. Ends(f)' = Ends(f)
      <3>1. PICK w, w1, e, e1, o : /\ w = Finals(clients[f].write_q) /\ w1 = Finals(d.write_q)
                                   /\ e = FinalNotices(f) /\ e1 = FinalNotices(f)'
                                   /\ o = Finals(peers[f].outq)
        OBVIOUS
      <3>2. w1 = (IF n.reply.code # 150 THEN w + 1 ELSE w)
        BY <2>0, <2>1, <3>1, FinalsAdded
      <3>3. e = (IF n.reply.code # 150 THEN e1 + 1 ELSE e1)
        BY <1>2, <1>10, <3>1 DEF EndsFor
      <3>4. Ends(f) = e + w + o /\ Ends(f)' = e1 + w1 + o
        BY <1>4, <3>1 DEF Ends
      <3>5. w \in Nat
        BY <2>0, <2>1, <3>1, FinalsNone
      <3>6. e1 \in Nat
        BY <1>2, <3>1, NumbersNext DEF Numbers, IInv, TypeOK
      <3> QED
        BY <3>2, <3>3, <3>4, <3>5, <3>6
    <2> QED
      BY <2>3, <2>4
  <1>11. ASSUME action = "DATA_WRITE"
         PROVE  Told(f)' \subseteq Told(f) /\ Ends(f)' = Ends(f)
    <2>1. ~EndsFor(n, f) /\ clients'[f].write_q = clients[f].write_q
      BY <1>2, <1>4, <1>11 DEF EndsFor
    <2>2. FinalNotices(f)' = FinalNotices(f)
      BY <1>2, <2>1
    <2>3. Ends(f)' = Ends(f)
      BY <2>1, <2>2 DEF Ends
    <2>4. Told(f)' \subseteq Told(f)
      BY <1>2, <2>1 DEF Told
    <2> QED
      BY <2>3, <2>4
  <1>12. Told(f)' \subseteq Told(f) /\ Ends(f)' = Ends(f)
    BY <1>10, <1>11
  <1>13. LinesKeep(f)
    BY <1>3, <1>7, <1>12 DEF LinesKeep
  <1>14. Open(f)' <= Open(f) /\ Under(f)' = Under(f)
    <2>1. Busy(f)' = Busy(f) /\ Under(f)' = Under(f)
      BY <1>9 DEF Serviced, Busy, Act, Under, Starts, Serves
    <2>2. Open(f)' = Open(f)
      BY <1>3, <1>7, <1>12, <2>1 DEF Open, Waits, Unread
    <2> QED
      BY <1>1, <1>2, <2>1, <2>2 DEF AllCounted, OpenNat
  <1>15. SocketsKeep(f)
    BY <1>5, <1>7, <1>14 DEF SocketsKeep, SocketsServed, Accepts
  <1>16. RoundKeeps(f)
    BY <1>2 DEF RoundKeeps, RoundFor
  <1>17. \A g \in Fds : g # f => Apart(g)
    BY <1>2, <1>4, <1>5, <1>6, <1>8, ReactorApart DEF SocketsServed
  <1> QED
    BY <1>2, <1>5, <1>8, <1>9, <1>13, <1>14, <1>15, <1>16, <1>17, CallbackDone DEF SocketsServed

\* A record that deletes no callback leaves the round as it is.
LEMMA NoticeRound ==
  ASSUME NEW f \in Fds, NEW action, Notified(action, {})
  PROVE  <<"data_accept", f>> \in ready' <=> <<"data_accept", f>> \in ready
  <1>1. ready' = ready \ {<<"notify">>}
    BY DEF Notified, Ran
  <1> QED
    BY <1>1

LEMMA CtrlWriteKeeps ==
  ASSUME Orderly, IInv', fault = "none", UNCHANGED <<sessions, disks>>, on_notify_ctrl_write
  PROVE  Kept
  <1>n. PICK n : n = Head(notify_pipe)
    OBVIOUS
  <1>f. PICK f : f = n.fd
    OBVIOUS
  <1>c. PICK c : c = clients[f]
    OBVIOUS
  <1>d. PICK d : d = Queued(c, n.reply)
    OBVIOUS
  <1>1. /\ Notified("CTRL_WRITE", {}) /\ SetClient(f, d) /\ data_sock' = data_sock
        /\ fault' = fault /\ UNCHANGED <<session_pool, disk_pool, peers>>
    BY <1>n, <1>f, <1>c, <1>d DEF on_notify_ctrl_write
  <1>2. TookNotice(f, n, "CTRL_WRITE")
    BY <1>n, <1>f, <1>1, NoticeServed DEF EventsOf
  <1>3. /\ f \in Fds /\ c \in TCP_client /\ Connected(f) /\ n \in Notification
        /\ n.action = "CTRL_WRITE"
    BY <1>c, <1>2 DEF TookNotice
  <1>4. n.reply \in Reply
    BY <1>3 DEF Notification
  <1>5. /\ d \in TCP_client /\ d.listen_fd = c.listen_fd /\ d.data_fd = c.data_fd
        /\ d.ev_data_accept = c.ev_data_accept /\ d.write_q = Append(c.write_q, n.reply)
        /\ d.data_write_q = c.data_write_q
    BY <1>d, <1>3, <1>4, AppendProperties DEF Queued, TCP_client
  <1>6. clients'[f] = d => SocketsServed(f)
    BY <1>1, <1>3, <1>5, <1>c, ServedNone, NoticeRound
  <1> QED
    BY <1>1, <1>2, <1>5, <1>6, <1>c, NoticeDone

LEMMA TransOkKeeps ==
  ASSUME Orderly, IInv', fault = "none", UNCHANGED <<sessions, disks>>, on_notify_trans_ok
  PROVE  Kept
  <1>n. PICK n : n = Head(notify_pipe)
    OBVIOUS
  <1>f. PICK f : f = n.fd
    OBVIOUS
  <1>c. PICK c : c = clients[f]
    OBVIOUS
  <1>b. PICK b : b = Queued(c, n.reply)
    OBVIOUS
  <1>d. PICK d : d = clear_datafd(b)
    OBVIOUS
  <1>1. /\ Notified("TRANS_OK", DataEventsOf(f)) /\ SetClient(f, d) /\ data_sock' = ClosedSocks(f)
        /\ fault' = fault /\ UNCHANGED <<session_pool, disk_pool, peers>>
    BY <1>n, <1>f, <1>c, <1>b, <1>d DEF on_notify_trans_ok
  <1>2. TookNotice(f, n, "TRANS_OK")
    <2>1. DataEventsOf(f) \subseteq EventsOf(f)
      BY DEF DataEventsOf, EventsOf
    <2> QED
      BY <1>n, <1>f, <1>1, <2>1, NoticeServed
  <1>3. /\ f \in Fds /\ c \in TCP_client /\ Connected(f) /\ n \in Notification
        /\ n.action = "TRANS_OK"
    BY <1>c, <1>2 DEF TookNotice
  <1>4. n.reply \in Reply
    BY <1>3 DEF Notification
  <1>5. /\ b \in TCP_client /\ b.write_q = Append(c.write_q, n.reply)
        /\ b.data_write_q = c.data_write_q
    BY <1>b, <1>3, <1>4, AppendProperties DEF Queued, TCP_client
  <1>6. /\ d \in TCP_client /\ d.write_q = Append(c.write_q, n.reply)
        /\ d.data_write_q = c.data_write_q
        /\ d.listen_fd = NULL /\ d.data_fd = NULL /\ d.ev_data_accept = NULL
    BY <1>d, <1>5, ClearedFields
  <1>7. <<"data_accept", f>> \notin ready'
    BY <1>1 DEF Notified, Ran, DataEventsOf, DataEvents
  <1>8. clients'[f] = d => SocketsServed(f)
    BY <1>1, <1>3, <1>6, <1>7, ServedOff
  <1> QED
    BY <1>1, <1>2, <1>6, <1>8, <1>c, NoticeDone

LEMMA BlockQueuedKeeps ==
  ASSUME Orderly, IInv', fault = "none", UNCHANGED <<sessions, disks>>, on_notify_data_write
  PROVE  Kept
  <1>n. PICK n : n = Head(notify_pipe)
    OBVIOUS
  <1>f. PICK f : f = n.fd
    OBVIOUS
  <1>c. PICK c : c = clients[f]
    OBVIOUS
  <1>d. PICK d : d = [c EXCEPT !.data_write_q = Append(@, n.data),
                               !.ev_data_write = c.data_fd # NULL]
    OBVIOUS
  <1>1. /\ Notified("DATA_WRITE", {}) /\ SetClient(f, d) /\ data_sock' = data_sock
        /\ fault' = fault /\ UNCHANGED <<session_pool, disk_pool, peers>>
    BY <1>n, <1>f, <1>c, <1>d DEF on_notify_data_write
  <1>2. TookNotice(f, n, "DATA_WRITE")
    BY <1>n, <1>f, <1>1, NoticeServed DEF EventsOf
  <1>3. /\ f \in Fds /\ c \in TCP_client /\ Connected(f) /\ n \in Notification
        /\ n.action = "DATA_WRITE"
    BY <1>c, <1>2 DEF TookNotice
  <1>4. n.data \in Block
    BY <1>3 DEF Notification
  <1>5. /\ d \in TCP_client /\ d.listen_fd = c.listen_fd /\ d.data_fd = c.data_fd
        /\ d.ev_data_accept = c.ev_data_accept /\ d.write_q = c.write_q
        /\ d.data_write_q = Append(c.data_write_q, n.data)
    BY <1>d, <1>3, <1>4, AppendProperties DEF TCP_client
  <1>6. clients'[f] = d => SocketsServed(f)
    BY <1>1, <1>3, <1>5, <1>c, ServedNone, NoticeRound
  <1> QED
    BY <1>1, <1>2, <1>5, <1>6, <1>c, NoticeDone

\* Free ports become listeners.
LEMMA ListeningSocks ==
  ASSUME ReactorTypeOK, SocksFresh, NEW S \in SUBSET FreePorts, data_sock' = Listening(S)
  PROVE  /\ SocksFresh'
         /\ \A q \in Ports :
              /\ data_sock'[q].peer = data_sock[q].peer /\ data_sock'[q].inq = data_sock[q].inq
              /\ data_sock[q].st # "free" => data_sock'[q] = data_sock[q]
              /\ q \in S => data_sock'[q].st = "listening"
  <1>1. ASSUME NEW q \in Ports
        PROVE  /\ data_sock'[q].peer = data_sock[q].peer /\ data_sock'[q].inq = data_sock[q].inq
               /\ data_sock[q].st # "free" => data_sock'[q] = data_sock[q]
               /\ q \in S => data_sock'[q].st = "listening" /\ data_sock[q].st = "free"
               /\ q \notin S => data_sock'[q] = data_sock[q]
    <2>1. data_sock[q] \in DataSock
      BY DEF ReactorTypeOK
    <2>2. data_sock'[q] = IF q \in S THEN [data_sock[q] EXCEPT !.st = "listening"] ELSE data_sock[q]
      BY DEF Listening
    <2>3. q \in S => data_sock[q].st = "free"
      BY DEF FreePorts
    <2> QED
      BY <2>1, <2>2, <2>3 DEF DataSock
  <1>2. SocksFresh'
    BY <1>1 DEF SocksFresh
  <1> QED
    BY <1>1, <1>2

\* Nothing is open for a client that waits for a port.
LEMMA WaitsForPort ==
  ASSUME Orderly, IInv', NEW f, NEW n, TookNotice(f, n, "PASV"), fault = "none",
         UNCHANGED <<sessions, disks, disk_pool, peers>>
  PROVE  /\ f \in Fds /\ Connected(f) /\ clients[f] \in TCP_client
         /\ Sent(f, "PASV") = 1 /\ Sent(f, "PASV")' = 0 /\ Open(f) = 1 /\ Tasks(f, "PASV") = 0
         /\ Told(f) = {} /\ peers[f].xfer = NULL /\ Busy(f) = 0 /\ Under(f) = 0
         /\ Sent(f, "DATA_WRITE")' = Sent(f, "DATA_WRITE")
         /\ FinalNotices(f)' = FinalNotices(f)
         /\ \A m \in MyNotices(f)' : m \in MyNotices(f)
  <1>1. /\ PoolTypeOK /\ IInv /\ AllCounted /\ AllParts
        /\ \A g \in Fds : Part(g)
    BY CountedType, PartsNow DEF Orderly, IInv, TypeOK
  <1>2. /\ f \in Fds /\ Connected(f) /\ clients[f] \in TCP_client /\ n.action = "PASV"
        /\ Sent(f, "PASV") = Sent(f, "PASV")' + 1
        /\ Sent(f, "DATA_WRITE")' = Sent(f, "DATA_WRITE")
        /\ FinalNotices(f) = (IF EndsFor(n, f) THEN FinalNotices(f)' + 1 ELSE FinalNotices(f)')
        /\ MyNotices(f) = MyNotices(f)' \cup {n}
    <2>1. "DATA_WRITE" # "PASV"
      OBVIOUS
    <2> QED
      BY <2>1 DEF TookNotice
  <1>3. FinalNotices(f)' = FinalNotices(f)
    BY <1>2 DEF EndsFor
  <1>4. Sent(f, "PASV")' \in Nat
    BY <1>2, NumbersNext DEF Numbers, IInv, TypeOK
  <1>5. /\ OpenNat(f) /\ UnderNat(f) /\ Open(f) <= 1
        /\ InHand(f) /\ OneTransfer(f)
    BY <1>1, <1>2 DEF AllCounted, Part, OneCommand, OpenNat
  <1>6. /\ Sent(f, "PASV") = 1 /\ Sent(f, "PASV")' = 0 /\ Open(f) = 1 /\ Waits(f) = 0
        /\ Ends(f) = 0 /\ Busy(f) = 0
    BY <1>2, <1>4, <1>5 DEF Open, OpenNat
  <1>7. Tasks(f, "PASV") = 0
    BY <1>1, <1>2, <1>6 DEF AllParts
  <1>8. Told(f) = {}
    BY <1>1, <1>2, <1>6, ToldIsOpen
  <1>9. peers[f].xfer = NULL
    BY <1>2, <1>5, <1>6 DEF InHand
  <1>10. Under(f) = 0
    <2>1. Act(f) \notin Serving
      BY <1>6 DEF Busy, Serving
    <2> QED
      BY <1>5, <2>1 DEF OneTransfer, UnderNat
  <1> QED
    BY <1>2, <1>3, <1>6, <1>7, <1>8, <1>9, <1>10

\* A listener opens for a client, and its session is told.
LEMMA PasvOpensKeeps ==
  ASSUME Orderly, IInv', NEW f, NEW n, TookNotice(f, n, "PASV"), fault = "none",
         UNCHANGED <<sessions, disks, disk_pool, peers>>, n = Head(notify_pipe),
         <<"notify">> \in ready,
         NEW S \in SUBSET FreePorts, NEW p \in S, data_sock' = Listening(S),
         NEW d \in TCP_client, SetClient(f, d), d.listen_fd = p, d.ev_data_accept = p,
         d.data_fd = clients[f].data_fd, d.write_q = clients[f].write_q,
         d.data_write_q = clients[f].data_write_q, event_set({<<"data_accept", f>>}),
         post_to_session([fd |-> f, action |-> "PASV", port |-> p])
  PROVE  Kept
  <1>t. PICK task : task = [fd |-> f, action |-> "PASV", port |-> p]
    OBVIOUS
  <1>1. /\ ReactorTypeOK /\ PoolTypeOK /\ IInv /\ AllCounted /\ AllCounted'
        /\ PortsOwn /\ SocksFresh /\ \A g \in Fds : Part(g)
    BY CountedType, CountedNext DEF Orderly, IInv, TypeOK
  <1>2. /\ f \in Fds /\ Connected(f) /\ clients[f] \in TCP_client
        /\ Sent(f, "PASV") = 1 /\ Sent(f, "PASV")' = 0 /\ Open(f) = 1 /\ Tasks(f, "PASV") = 0
        /\ Told(f) = {} /\ peers[f].xfer = NULL /\ Busy(f) = 0 /\ Under(f) = 0
        /\ Sent(f, "DATA_WRITE")' = Sent(f, "DATA_WRITE")
        /\ FinalNotices(f)' = FinalNotices(f)
        /\ \A m \in MyNotices(f)' : m \in MyNotices(f)
    BY WaitsForPort
  <1>3. /\ RoundFor(f) /\ <<"notify">> \notin ready' /\ n.fd = f /\ n.action = "PASV"
        /\ \A g \in Fds : g # f => NoticesStay(g)
    BY DEF TookNotice
  <1>4. <<"data_accept", f>> \notin ready /\ <<"data_accept", f>> \notin ready' /\ fault' = fault
    <2>1. <<"data_accept", f>> \notin ready
      BY <1>1, <1>2, <1>3 DEF Part, Rounds
    <2> QED
      BY <1>3, <2>1 DEF RoundFor, event_set
  <1>5. clients'[f] = d /\ Connected(f)' /\ \A g \in Fds : g # f => clients'[g] = clients[g]
    BY <1>1, <1>2, ClientSet
  <1>6. p \in Ports /\ data_sock[p].st = "free" /\ p # NULL
    BY DataAssumption DEF FreePorts
  <1>7. task \in SessionTask /\ task.fd = f /\ task.action = "PASV" /\ task.port = p
    BY <1>2, <1>6, <1>t DEF SessionTask
  <1>8. /\ Tasks(f, "PASV")' = 1
        /\ \A a \in {"DATA_ACCEPT", "READ", "CTRL_ACCEPT", "TRANS_OK"} : Tasks(f, a)' = Tasks(f, a)
        /\ MyTasks(f)' = MyTasks(f) \cup {task}
        /\ PasvOrder(f) => PasvOrder(f)'
        /\ \A g \in Fds : g # f => TasksStay(g)
    <2>1. /\ \A a : Tasks(f, a)' = (IF "PASV" = a THEN Tasks(f, a) + 1 ELSE Tasks(f, a))
          /\ MyTasks(f)' = MyTasks(f) \cup {task}
          /\ PasvOrder(f) => PasvOrder(f)'
          /\ \A g \in Fds : g # f => TasksStay(g)
      BY <1>1, <1>2, <1>7, <1>t, PostedFor
    <2> QED
      BY <1>2, <2>1
  <1>9. /\ DiskOrder(f)' /\ OneBlock(f)' /\ \A g \in Fds : WorkStays(g)
        /\ \A a \in {"INDEX_START", "RETR_START", "STOR_START"} : Work(f, a)' = Work(f, a)
    <2>1. Sent(f, "DATA_WRITE")' + Len(clients'[f].data_write_q)
            = Sent(f, "DATA_WRITE") + Len(clients[f].data_write_q)
      BY <1>2, <1>5
    <2> QED
      BY <1>2, <1>4, <2>1, BlockMoves
  <1>10. Serviced(f)
    BY <1>2, <1>5, <1>8, <1>9 DEF Serviced
  <1>11. Told(f)' = {}
    <2>1. Told(f)' \subseteq Told(f)
      BY <1>2, <1>5 DEF Told
    <2> QED
      BY <1>2, <2>1
  <1>12. Open(f)' = Open(f) /\ OpenNat(f) /\ OpenNat(f)' /\ UnderNat(f)
    <2>1. OpenNat(f) /\ OpenNat(f)' /\ UnderNat(f)
      BY <1>1, <1>2, <1>5 DEF AllCounted
    <2>2. Busy(f)' = Busy(f)
      BY <1>10 DEF Serviced, Busy, Act
    <2>3. Waits(f)' = Waits(f) + 1
      <3>1. Tasks(f, "READ") \in Nat /\ Tasks(f, "CTRL_ACCEPT") \in Nat
        BY <1>1, <1>2, NumbersType DEF Numbers
      <3> QED
        BY <1>2, <1>8, <3>1 DEF Waits
    <2>4. Ends(f)' = Ends(f) /\ Unread(f)' = Unread(f)
      BY <1>2, <1>5 DEF Ends, Unread
    <2> QED
      BY <1>2, <2>1, <2>2, <2>3, <2>4 DEF Open, OpenNat
  <1>13. /\ Under(f)' = Under(f) /\ Act(f)' = Act(f) /\ Busy(f)' = Busy(f)
         /\ Absent(f)' /\ OneCommand(f)' /\ OneTransfer(f)' /\ KindsAgree(f)' /\ Permitted(f)'
    BY <1>2, <1>10, <1>12, ServicedKeeps DEF OpenNat
  <1>14. OneLine(f)'
    BY <1>1, <1>2, <1>7, <1>8 DEF Part, OneLine
  <1>15. InHand(f)'
    <2>1. InHand(f) /\ \A c : OnItsWay(f, c)' <=> OnItsWay(f, c)
      BY <1>1, <1>2 DEF Part, OnItsWay
    <2>2. \A x \in MyTasks(f)' : x.action = "READ" => x \in MyTasks(f)
      BY <1>7, <1>8
    <2>3. peers'[f] = peers[f] /\ Busy(f)' = 0
      BY <1>2, <1>13
    <2> QED
      BY <1>2, <2>1, <2>2, <2>3 DEF InHand
  <1>16. /\ SocksFresh'
         /\ \A q \in Ports :
              /\ data_sock'[q].peer = data_sock[q].peer /\ data_sock'[q].inq = data_sock[q].inq
              /\ data_sock[q].st # "free" => data_sock'[q] = data_sock[q]
              /\ q \in S => data_sock'[q].st = "listening"
    BY <1>1, ListeningSocks
  <1>17. ~Calls(f)'
    BY <1>5, <1>6, <1>16 DEF Calls
  <1>18. Accepts(f)' = Accepts(f)
    BY <1>8 DEF Accepts
  <1>19. Accepting(f)'
    <2>1. Accepting(f)
      BY <1>1, <1>2 DEF Part
    <2>2. PasvOrder(f)' /\ (peers[f].port # NULL => Accepts(f)' = 0)
      BY <1>2, <1>8, <1>18, <2>1 DEF Accepting
    <2> QED
      BY <1>2, <1>4, <1>11, <1>17, <2>2 DEF Accepting
  <1>20. Promised(f)' \subseteq Promised(f) \cup {p}
    <2>1. PasvPorts(f)' \subseteq PasvPorts(f) \cup {p}
      BY <1>7, <1>8 DEF PasvPorts
    <2> QED
      BY <1>11, <2>1 DEF Promised
  <1>21. Quiet(f)'
    <2>1. /\ Quiet(f) /\ Promised(f) \subseteq Ports
      BY <1>1, <1>2, NamedPorts DEF Part
    <2>2. data_sock[p].inq = <<>> /\ data_sock[p].peer = "none"
      BY <1>1, <1>6 DEF SocksFresh
    <2>3. \A q \in Promised(f)' : data_sock'[q].inq = <<>> /\ data_sock'[q].peer = "none"
      BY <1>2, <1>6, <1>16, <1>20, <2>1, <2>2 DEF Quiet
    <2> QED
      BY <1>2, <2>3 DEF Quiet
  <1>22. Rounds(f)'
    BY <1>1, <1>2, <1>3, <1>17 DEF Part, Rounds, RoundFor
  <1>23. Part(f)'
    BY <1>9, <1>13, <1>14, <1>15, <1>19, <1>21, <1>22 DEF Part
  <1>24. \A q \in Mentions(f)' :
           \/ q \in Mentions(f)
           \/ q \in Ports /\ data_sock[q].st = "free" /\ data_sock'[q].st # "free"
    BY <1>5, <1>6, <1>16, <1>20 DEF Mentions
  <1>25. \A g \in Fds : g # f => Apart(g)
    BY <1>2, <1>3, <1>5, <1>8, <1>9, <1>16, ReactorApart
  <1> QED
    BY <1>2, <1>16, <1>23, <1>24, <1>25, ServicedDone

\* No port in range is free: the client hears nothing.
LEMMA PasvFailsKeeps ==
  ASSUME Orderly, IInv', NEW f, NEW n, TookNotice(f, n, "PASV"), fault = "none",
         UNCHANGED <<sessions, disks, disk_pool, session_pool, fault, peers>>,
         <<"data_accept", f>> \in ready' <=> <<"data_accept", f>> \in ready,
         NEW S \in SUBSET FreePorts, data_sock' = Listening(S),
         NEW d \in TCP_client, clients'[f] = d, \A g \in Fds : g # f => clients'[g] = clients[g],
         d.listen_fd \in S \cup {clients[f].listen_fd},
         d.ev_data_accept = clients[f].ev_data_accept,
         d.data_fd = clients[f].data_fd, d.write_q = clients[f].write_q,
         d.data_write_q = clients[f].data_write_q
  PROVE  Kept
  <1>1. /\ ReactorTypeOK /\ PoolTypeOK /\ IInv /\ AllCounted /\ AllCounted'
        /\ PortsOwn /\ SocksFresh
    BY CountedType, CountedNext DEF Orderly, IInv, TypeOK
  <1>2. /\ f \in Fds /\ Connected(f) /\ clients[f] \in TCP_client
        /\ Sent(f, "PASV") = 1 /\ Sent(f, "PASV")' = 0 /\ Open(f) = 1
        /\ Told(f) = {} /\ peers[f].xfer = NULL /\ Under(f) = 0
        /\ Sent(f, "DATA_WRITE")' = Sent(f, "DATA_WRITE")
        /\ FinalNotices(f)' = FinalNotices(f)
        /\ \A m \in MyNotices(f)' : m \in MyNotices(f)
    BY WaitsForPort
  <1>3. /\ RoundFor(f) /\ <<"notify">> \notin ready'
        /\ \A g \in Fds : g # f => NoticesStay(g)
    BY DEF TookNotice
  <1>4. Connected(f)'
    BY ClientNullAssumption DEF Connected
  <1>5. \A g \in Fds : TasksStay(g)
    BY TasksUnchanged
  <1>6. /\ \A a : Tasks(f, a)' = Tasks(f, a) /\ MyTasks(f)' = MyTasks(f)
        /\ PasvOrder(f) => PasvOrder(f)'
    BY <1>2, <1>5 DEF TasksStay
  <1>7. /\ DiskOrder(f)' /\ OneBlock(f)' /\ \A g \in Fds : WorkStays(g)
        /\ \A a \in {"INDEX_START", "RETR_START", "STOR_START"} : Work(f, a)' = Work(f, a)
    <2>1. Sent(f, "DATA_WRITE")' + Len(clients'[f].data_write_q)
            = Sent(f, "DATA_WRITE") + Len(clients[f].data_write_q)
      BY <1>2
    <2> QED
      BY <1>2, <2>1, BlockMoves
  <1>8. Serviced(f)
    BY <1>2, <1>4, <1>6, <1>7 DEF Serviced
  <1>9. LinesKeep(f)
    <2>1. Told(f)' \subseteq Told(f)
      BY <1>2 DEF Told
    <2> QED
      BY <1>2, <1>6, <2>1 DEF LinesKeep
  <1>10. Open(f)' <= Open(f) /\ Under(f)' = Under(f)
    <2>1. OpenNat(f) /\ OpenNat(f)'
      BY <1>1, <1>2, <1>4 DEF AllCounted
    <2>2. Busy(f)' = Busy(f) /\ Under(f)' = Under(f)
      BY <1>8 DEF Serviced, Busy, Act, Under, Starts, Serves
    <2>3. Ends(f)' = Ends(f) /\ Unread(f)' = Unread(f) /\ Waits(f)' = Waits(f)
      BY <1>2, <1>6 DEF Ends, Unread, Waits
    <2> QED
      BY <1>2, <2>1, <2>2, <2>3 DEF Open, OpenNat
  <1>11. /\ SocksFresh'
         /\ \A q \in Ports :
              /\ data_sock'[q].peer = data_sock[q].peer /\ data_sock'[q].inq = data_sock[q].inq
              /\ data_sock[q].st # "free" => data_sock'[q] = data_sock[q]
              /\ q \in S => data_sock'[q].st = "listening"
    BY <1>1, ListeningSocks
  <1>12. SocketsKeep(f)
    <2>1. /\ Promised(f) \subseteq Ports
          /\ clients[f].ev_data_accept # NULL =>
               /\ clients[f].ev_data_accept \in Ports
               /\ data_sock[clients[f].ev_data_accept].st # "free"
      BY <1>1, <1>2, NamedPorts DEF PortsOwn
    <2>2. Calls(f)' = Calls(f)
      BY <1>11, <2>1 DEF Calls
    <2>3. Accepts(f)' = Accepts(f)
      BY <1>6 DEF Accepts
    <2> QED
      BY <1>6, <1>10, <1>11, <2>1, <2>2, <2>3 DEF SocketsKeep
  <1>13. RoundKeeps(f)
    BY <1>3 DEF RoundKeeps, RoundFor
  <1>14. \A g \in Fds : g # f => Apart(g)
    BY <1>2, <1>3, <1>5, <1>7, <1>11, ReactorApart
  <1>15. \A p \in {clients'[f].listen_fd, clients'[f].data_fd,
                   clients'[f].ev_data_accept} \ {NULL} :
           \/ p \in {clients[f].listen_fd, clients[f].data_fd, clients[f].ev_data_accept}
           \/ p \in Ports /\ data_sock[p].st = "free" /\ data_sock'[p].st # "free"
    <2>1. \A p \in S : p \in Ports /\ data_sock[p].st = "free" /\ data_sock'[p].st # "free"
      BY <1>11 DEF FreePorts
    <2> QED
      BY <2>1
  <1>16. \A p \in Ports : data_sock[p].st # "free" => data_sock'[p].st # "free"
    BY <1>11
  <1> QED
    BY <1>2, <1>7, <1>8, <1>9, <1>10, <1>11, <1>12, <1>13, <1>14, <1>15, <1>16, CallbackDone

LEMMA PasvKeeps ==
  ASSUME Orderly, IInv', fault = "none", UNCHANGED <<sessions, disks>>, on_notify_pasv
  PROVE  Kept
  <1>n. PICK n : n = Head(notify_pipe)
    OBVIOUS
  <1>f. PICK f : f = n.fd
    OBVIOUS
  <1>c. PICK c : c = clients[f]
    OBVIOUS
  <1>1. /\ Notified("PASV", {}) /\ UNCHANGED <<disk_pool, peers>> /\ <<"notify">> \in ready
    BY DEF on_notify_pasv, Notified, Ran
  <1>2. TookNotice(f, n, "PASV")
    BY <1>n, <1>f, <1>1, NoticeServed DEF EventsOf
  <1>3. f \in Fds /\ c \in TCP_client /\ Connected(f) /\ ReactorTypeOK
    BY <1>2, <1>c DEF TookNotice, Orderly, IInv, TypeOK
  <1>4. CASE \E refused \in SUBSET {p \in FreePorts : ~InRange(p)},
                port \in {p \in FreePorts : InRange(p)} :
               /\ data_sock' = Listening(refused \cup {port})
               /\ SetClient(f, [c EXCEPT !.listen_fd = port, !.ev_data_accept = port])
               /\ event_set({<<"data_accept", f>>})
               /\ post_to_session([fd |-> f, action |-> "PASV", port |-> port])
    <2>1. PICK refused \in SUBSET {p \in FreePorts : ~InRange(p)},
               port \in {p \in FreePorts : InRange(p)} :
               /\ data_sock' = Listening(refused \cup {port})
               /\ SetClient(f, [c EXCEPT !.listen_fd = port, !.ev_data_accept = port])
               /\ event_set({<<"data_accept", f>>})
               /\ post_to_session([fd |-> f, action |-> "PASV", port |-> port])
      BY <1>4
    <2>d. PICK d : d = [c EXCEPT !.listen_fd = port, !.ev_data_accept = port]
      OBVIOUS
    <2>s. PICK S : S = refused \cup {port}
      OBVIOUS
    <2>2. S \in SUBSET FreePorts /\ port \in S /\ port \in Ports
      BY <2>s DEF FreePorts
    <2>3. /\ d \in TCP_client /\ d.listen_fd = port /\ d.ev_data_accept = port
          /\ d.data_fd = c.data_fd /\ d.write_q = c.write_q
          /\ d.data_write_q = c.data_write_q
      BY <1>3, <2>2, <2>d DEF TCP_client
    <2>4. data_sock' = Listening(S) /\ SetClient(f, d)
      BY <2>1, <2>s, <2>d
    <2> QED
      BY <1>n, <1>c, <1>1, <1>2, <2>1, <2>2, <2>3, <2>4, PasvOpensKeeps
  <1>5. CASE /\ IF FreePorts = {} THEN UNCHANGED <<clients, data_sock>>
                ELSE \E last \in FreePorts :
                       /\ data_sock' = Listening(FreePorts)
                       /\ SetClient(f, [c EXCEPT !.listen_fd = last])
             /\ UNCHANGED <<session_pool, fault>>
    <2>1. <<"data_accept", f>> \in ready' <=> <<"data_accept", f>> \in ready
      BY <1>1, <1>3, NoticeRound
    <2>2. CASE UNCHANGED <<clients, data_sock>>
      <3>1. data_sock' = Listening({})
        BY <1>3, <2>2 DEF Listening, ReactorTypeOK
      <3> QED
        BY <1>c, <1>1, <1>2, <1>3, <1>5, <2>1, <2>2, <3>1, PasvFailsKeeps
    <2>3. ASSUME NEW last \in FreePorts, data_sock' = Listening(FreePorts),
                 SetClient(f, [c EXCEPT !.listen_fd = last])
          PROVE  Kept
      <3>d. PICK d : d = [c EXCEPT !.listen_fd = last]
        OBVIOUS
      <3>1. last \in Ports
        BY DEF FreePorts
      <3>2. /\ d \in TCP_client /\ d.listen_fd = last /\ d.ev_data_accept = c.ev_data_accept
            /\ d.data_fd = c.data_fd /\ d.write_q = c.write_q
            /\ d.data_write_q = c.data_write_q
        BY <1>3, <3>1, <3>d DEF TCP_client
      <3>3. clients'[f] = d /\ \A g \in Fds : g # f => clients'[g] = clients[g]
        BY <1>3, <2>3, <3>d, <3>2, ClientSet
      <3>4. FreePorts \in SUBSET FreePorts /\ data_sock' = Listening(FreePorts)
        BY <2>3
      <3> QED
        BY <1>c, <1>1, <1>2, <1>5, <2>1, <3>2, <3>3, <3>4, PasvFailsKeeps
    <2> QED
      BY <1>5, <2>2, <2>3
  <1> QED
    BY <1>n, <1>f, <1>c, <1>4, <1>5 DEF on_notify_pasv

\* The record of a client that is gone never comes.
LEMMA NoNullClient ==
  ASSUME Orderly, on_notify_null
  PROVE  FALSE
  <1>n. PICK n : n = Head(notify_pipe)
    OBVIOUS
  <1>1. /\ PoolTypeOK /\ CallbacksValid /\ <<"notify">> \in ready
    BY DEF Orderly, IInv, TypeOK, on_notify_null, Ran
  <1>2. notify_pipe \in Seq(Notification) /\ notify_pipe # <<>>
    BY <1>1 DEF PoolTypeOK, CallbacksValid
  <1>3. n \in Notification
    BY <1>2, <1>n
  <1>4. n.fd \in Fds
    BY <1>3 DEF Notification
  <1>5. n \in MyNotices(n.fd)
    BY <1>2, <1>n, MineTaken DEF MyNotices
  <1>6. ~Connected(n.fd)
    BY <1>n DEF on_notify_null, Connected
  <1> QED
    BY <1>4, <1>5, <1>6 DEF Orderly, Part, Absent

LEMMA NotifyKeeps ==
  ASSUME Orderly, IInv', fault = "none", UNCHANGED <<sessions, disks>>, NotifyStep
  PROVE  Kept
  BY NoNullClient, CtrlWriteKeeps, TransOkKeeps, PasvKeeps, BlockQueuedKeeps DEF NotifyStep

\* Nothing is counted for a number no client has.
LEMMA AbsentCounts ==
  ASSUME Orderly, NEW f \in Fds, ~Connected(f)
  PROVE  /\ sessions[f] = NULL /\ disks[f] = NULL
         /\ MyTasks(f) = {} /\ MyNotices(f) = {}
         /\ \A a : Tasks(f, a) = 0 /\ Sent(f, a) = 0 /\ Work(f, a) = 0
         /\ FinalNotices(f) = 0 /\ PasvOrder(f) /\ DiskOrder(f)
         /\ \A e : e \in CtrlEvents \cup DataEvents => <<e, f>> \notin ready
  <1>1. PoolTypeOK /\ CallbacksValid /\ Absent(f) /\ DiskOrder(f)
    BY DEF Orderly, IInv, TypeOK, Part
  <1>2. /\ sessions[f] = NULL /\ disks[f] = NULL
        /\ MyTasks(f) = {} /\ MyNotices(f) = {} /\ \A a : Work(f, a) = 0
    BY <1>1 DEF Absent
  <1>3. \A a : Tasks(f, a) = 0 /\ Sent(f, a) = 0
    BY <1>1, <1>2, NoneWaiting
  <1>4. FinalNotices(f) = 0
    BY <1>1, <1>2, FinalNoticesNone DEF PoolTypeOK
  <1>5. PasvOrder(f)
    <2>1. Count(SessionQueue(f), f, "PASV") = 0
      BY <1>3 DEF Tasks
    <2> QED
      BY <1>1, <2>1, QueuesType, OrderNone DEF PasvOrder
  <1>6. \A e : e \in CtrlEvents \cup DataEvents => <<e, f>> \notin ready
    BY <1>1 DEF CallbacksValid, Connected
  <1> QED
    BY <1>1, <1>2, <1>3, <1>4, <1>5, <1>6

LEMMA NothingSaid == Finals(<<>>) = 0 /\ Elements(<<>>) = {}
  <1>1. <<>> \in Seq(Reply)
    OBVIOUS
  <1>2. Elements(<<>>) = {}
    BY DEF Elements
  <1> QED
    BY <1>1, <1>2, FinalsNone

\* A client that connects waits for its greeting.
LEMMA AcceptKeeps ==
  ASSUME Orderly, IInv', NEW f \in Fds, fault = "none", UNCHANGED <<sessions, disks>>,
         on_accept(f)
  PROVE  Kept
  <1>t. PICK task : task = [fd |-> f, action |-> "CTRL_ACCEPT"]
    OBVIOUS
  <1>1. PICK script \in Scripts[f] : peers' = [peers EXCEPT ![f] = NewPeer(script)]
    BY DEF on_accept
  <1>c. PICK c : c = NewClient
    OBVIOUS
  <1>m. PICK me : me = NewPeer(script)
    OBVIOUS
  <1>2. /\ Ran(<<"accept">>, {}) /\ ~Connected(f) /\ SetClient(f, c) /\ post_to_session(task)
        /\ peers' = [peers EXCEPT ![f] = me]
        /\ UNCHANGED <<disk_pool, notify_pipe, fault, data_sock>>
    BY <1>c, <1>m, <1>t, <1>1 DEF on_accept, Signal, Connected
  <1>3. /\ ReactorTypeOK /\ PoolTypeOK /\ IInv /\ SocksFresh
    BY DEF Orderly, IInv, TypeOK
  <1>4. /\ c \in TCP_client /\ c.listen_fd = NULL /\ c.data_fd = NULL
        /\ c.ev_data_accept = NULL /\ c.write_q = <<>> /\ c.data_write_q = <<>>
    BY <1>c DEF NewClient, TCP_client, Block
  <1>5. /\ clients'[f] = c /\ Connected(f)' /\ \A g \in Fds : g # f => clients'[g] = clients[g]
    BY <1>2, <1>3, <1>4, ClientSet
  <1>6. peers'[f] = me /\ \A g \in Fds : g # f => peers'[g] = peers[g]
    BY <1>2, <1>3 DEF ReactorTypeOK
  <1>7. /\ me.inq = <<>> /\ me.outq = <<>> /\ me.st = "open" /\ me.wait = 1
        /\ me.xfer = NULL /\ me.port = NULL
    BY <1>m DEF NewPeer
  <1>8. task \in SessionTask /\ task.fd = f /\ task.action = "CTRL_ACCEPT"
    BY <1>t DEF SessionTask, SignalTasks
  <1>9. /\ sessions[f] = NULL /\ disks[f] = NULL
        /\ MyTasks(f) = {} /\ MyNotices(f) = {}
        /\ \A a : Tasks(f, a) = 0 /\ Sent(f, a) = 0 /\ Work(f, a) = 0
        /\ FinalNotices(f) = 0 /\ PasvOrder(f) /\ DiskOrder(f)
        /\ \A e : e \in CtrlEvents \cup DataEvents => <<e, f>> \notin ready
    BY <1>2, AbsentCounts
  <1>10. /\ Tasks(f, "CTRL_ACCEPT")' = 1
         /\ \A a \in {"DATA_ACCEPT", "READ", "PASV", "TRANS_OK"} : Tasks(f, a)' = 0
         /\ MyTasks(f)' = {task} /\ PasvOrder(f)'
         /\ \A g \in Fds : g # f => TasksStay(g)
    <2>1. /\ \A a : Tasks(f, a)' = (IF "CTRL_ACCEPT" = a THEN Tasks(f, a) + 1 ELSE Tasks(f, a))
          /\ MyTasks(f)' = MyTasks(f) \cup {task}
          /\ PasvOrder(f) => PasvOrder(f)'
          /\ \A g \in Fds : g # f => TasksStay(g)
      BY <1>2, <1>3, <1>8, PostedFor
    <2> QED
      BY <1>9, <2>1
  <1>11. /\ \A g \in Fds : NoticesStay(g) /\ WorkStays(g)
         /\ Head(notify_pipe)' = Head(notify_pipe)
    BY <1>2, NoticesUnchanged, WorkUnchanged
  <1>12. /\ \A a : Sent(f, a)' = 0 /\ Work(f, a)' = 0
         /\ MyNotices(f)' = {} /\ FinalNotices(f)' = 0
         /\ StartOrder(f)'
    BY <1>9, <1>11 DEF NoticesStay, WorkStays, DiskOrder
  <1>13. Act(f)' = "NONE" /\ DAct(f)' = "NONE" /\ Serves(f)' = 0
    BY <1>9 DEF Act, DAct, Serves
  <1>14. Busy(f)' = 0 /\ Under(f)' = 0 /\ Accepts(f)' = 0
    BY <1>10, <1>12, <1>13 DEF Busy, Under, Starts, Accepts
  <1>15. Told(f)' = {} /\ PasvPorts(f)' = {}
    <2>1. Told(f)' = {}
      BY <1>4, <1>5, <1>6, <1>7, <1>12, NothingSaid DEF Told
    <2>2. PasvPorts(f)' = {}
      BY <1>8, <1>10 DEF PasvPorts
    <2> QED
      BY <2>1, <2>2
  <1>16. Mentions(f)' = {} /\ Promised(f)' = {}
    <2>1. Promised(f)' = {}
      BY <1>6, <1>7, <1>15 DEF Promised
    <2> QED
      BY <1>4, <1>5, <2>1 DEF Mentions
  <1>17. Open(f)' = 1
    <2>1. Ends(f)' = 0 /\ Unread(f)' = 0
      BY <1>4, <1>5, <1>6, <1>7, <1>12, NothingSaid DEF Ends, Unread
    <2>2. Waits(f)' = 1
      BY <1>10 DEF Waits
    <2> QED
      BY <1>12, <1>14, <2>1, <2>2 DEF Open
  <1>18. ready' \subseteq ready /\ RoundFor(f)
    <2>1. RoundFor(f)
      BY <1>2, RanFor
    <2> QED
      BY <2>1 DEF RoundFor
  <1>19. /\ <<"read", f>> \notin ready' /\ <<"data_accept", f>> \notin ready'
    BY <1>9, <1>18 DEF CtrlEvents, DataEvents
  <1>20. ~Calls(f)'
    BY <1>4, <1>5 DEF Calls
  <1>21. Absent(f)' /\ OneCommand(f)' /\ OneLine(f)'
    <2>1. Absent(f)'
      BY <1>5 DEF Absent
    <2>2. OneCommand(f)'
      BY <1>6, <1>7, <1>17 DEF OneCommand, Awaited
    <2>3. OneLine(f)'
      BY <1>8, <1>9, <1>10 DEF OneLine
    <2> QED
      BY <2>1, <2>2, <2>3
  <1>22. OneTransfer(f)' /\ KindsAgree(f)' /\ Permitted(f)'
    <2>1. OneTransfer(f)'
      BY <1>13, <1>14 DEF OneTransfer, Serving
    <2>2. KindsAgree(f)'
      <3>1. /\ Work(f, "INDEX_START")' = 0 /\ Work(f, "RETR_START")' = 0
            /\ Work(f, "STOR_START")' = 0
        BY <1>12
      <3> QED
        BY <1>13, <3>1 DEF KindsAgree, UploadStates
    <2>3. Permitted(f)'
      BY <1>13 DEF Permitted
    <2> QED
      BY <2>1, <2>2, <2>3
  <1>23. InHand(f)'
    BY <1>6, <1>7, <1>8, <1>10, <1>14 DEF InHand
  <1>24. Accepting(f)' /\ Rounds(f)' /\ Quiet(f)'
    BY <1>6, <1>7, <1>10, <1>14, <1>16, <1>19, <1>20 DEF Accepting, Rounds, Quiet
  <1>25. DiskOrder(f)' /\ OneBlock(f)'
    BY <1>4, <1>5, <1>12, <1>13 DEF DiskOrder, OneBlock, DownloadStates
  <1>26. Part(f)'
    BY <1>21, <1>22, <1>23, <1>24, <1>25 DEF Part
  <1>27. \A g \in Fds : g # f => Apart(g)
    BY <1>2, <1>5, <1>6, <1>10, <1>11, <1>18, ReactorApart
  <1> QED
    BY <1>2, <1>3, <1>16, <1>26, <1>27, ServicedDone DEF SocksFresh

\* A new round finds what there is.
LEMMA PollKeeps ==
  ASSUME Orderly, IInv', fault = "none", UNCHANGED <<sessions, disks>>, Poll
  PROVE  Kept
  <1>1. PICK full \in SUBSET ({"write"} \X Fds) : ready' = ReadyNow \ full
    BY DEF Poll
  <1>2. /\ ready = {} /\ clients' = clients /\ peers' = peers /\ data_sock' = data_sock
        /\ session_pool' = session_pool /\ disk_pool' = disk_pool /\ notify_pipe' = notify_pipe
        /\ fault' = fault
    BY DEF Poll, poolVars
  <1>3. PoolTypeOK /\ PortsOwn /\ SocksFresh /\ \A f \in Fds : Part(f)
    BY DEF Orderly, IInv, TypeOK
  <1>4. ASSUME NEW f \in Fds
        PROVE  Part(f)' /\ Mentions(f)' = Mentions(f)
    <2>p. Part(f)
      BY <1>3
    <2>1. TasksStay(f) /\ WorkStays(f) /\ NoticesStay(f)
      BY <1>2, TasksUnchanged, WorkUnchanged, NoticesUnchanged
    <2>2. /\ sessions'[f] = sessions[f] /\ disks'[f] = disks[f]
          /\ clients'[f] = clients[f] /\ peers'[f] = peers[f]
          /\ MyTasks(f)' = MyTasks(f) /\ MyNotices(f)' = MyNotices(f)
          /\ \A a : Tasks(f, a)' = Tasks(f, a) /\ Work(f, a)' = Work(f, a)
                    /\ Sent(f, a)' = Sent(f, a)
          /\ FinalNotices(f)' = FinalNotices(f)
          /\ PasvOrder(f) => PasvOrder(f)'
          /\ StartOrder(f) => StartOrder(f)'
      BY <1>2, <2>1 DEF TasksStay, WorkStays, NoticesStay
    <2>3. Act(f)' = Act(f) /\ DAct(f)' = DAct(f) /\ Connected(f)' = Connected(f)
      BY <2>2 DEF Act, DAct, Connected
    <2>4. Busy(f)' = Busy(f)
      BY <2>3 DEF Busy
    <2>5. Told(f)' = Told(f)
      BY <2>2 DEF Told
    <2>6. Promised(f)' = Promised(f)
      BY <2>2, <2>5 DEF Promised, PasvPorts
    <2>7. Mentions(f)' = Mentions(f)
      BY <2>2, <2>6 DEF Mentions
    <2>8. Accepts(f)' = Accepts(f) /\ Under(f)' = Under(f)
      BY <2>2 DEF Accepts, Under, Starts, Serves
    <2>9. Open(f)' = Open(f)
      BY <2>2, <2>4 DEF Open, Unread, Waits, Ends
    <2>10. Calls(f)' = Calls(f)
      BY <1>2, <2>2 DEF Calls
    <2>11. Absent(f)'
      BY <2>p, <2>2, <2>3 DEF Part, Absent
    <2>12. OneCommand(f)' /\ OneLine(f)' /\ OneTransfer(f)' /\ KindsAgree(f)' /\ Permitted(f)'
      BY <2>p, <2>2, <2>3, <2>4, <2>8, <2>9
      DEF Part, OneCommand, Awaited, OneLine, OneTransfer, KindsAgree, Permitted
    <2>13. InHand(f)'
      BY <2>p, <2>2, <2>3, <2>4, <2>5 DEF Part, InHand, Awaited, OnItsWay
    <2>14. Connected(f) => (<<"data_accept", f>> \in ready' <=> Calls(f))
      <3>1. <<"data_accept", f>> \in ready' <=> <<"data_accept", f>> \in ReadyNow
        BY <1>1
      <3>2. <<"data_accept", f>> \in ReadyNow <=>
              /\ clients[f] # NULL /\ clients[f].ev_data_accept # NULL
              /\ data_sock[clients[f].ev_data_accept].st = "connecting"
        BY DEF ReadyNow
      <3> QED
        BY <3>1, <3>2 DEF Calls, Connected
    <2>15. Connected(f) /\ <<"read", f>> \in ready' => peers[f].inq # <<>>
      <3>1. <<"read", f>> \in ready' => Readable(f)
        BY <1>1 DEF ReadyNow
      <3> QED
        BY <2>p, <3>1 DEF Readable, Part, OneCommand
    <2>16. Accepting(f)'
      BY <1>2, <2>p, <2>2, <2>3, <2>5, <2>8, <2>10, <2>14 DEF Part, Accepting
    <2>17. Rounds(f)'
      <3>1. /\ <<"notify">> \in ready' /\ Head(notify_pipe).action = "PASV"
            /\ Head(notify_pipe).fd = f
            => Sent(f, "PASV") # 0
        <4>1. <<"notify">> \in ready' => notify_pipe # <<>>
          BY <1>1 DEF ReadyNow
        <4>2. notify_pipe # <<>> => Head(notify_pipe) \in Mine(notify_pipe, Head(notify_pipe).fd)
          BY <1>3, MineTaken DEF PoolTypeOK
        <4> QED
          BY <1>3, <4>1, <4>2, NoneWaiting DEF MyNotices
      <3>2. Connected(f) /\ Calls(f) => Sent(f, "PASV") = 0
        BY <1>2, <2>p DEF Part, Rounds
      <3> QED
        BY <1>2, <2>2, <2>3, <2>10, <2>14, <2>15, <3>1, <3>2 DEF Rounds
    <2>18. Quiet(f)'
      BY <1>2, <2>p, <2>2, <2>3, <2>6, <2>8 DEF Part, Quiet
    <2>19. DiskOrder(f)' /\ OneBlock(f)'
      BY <1>2, <2>p, <2>2, <2>3 DEF Part, DiskOrder, OneBlock
    <2> QED
      BY <2>7, <2>11, <2>12, <2>13, <2>16, <2>17, <2>18, <2>19 DEF Part
  <1>5. PortsOwn'
    <2>1. \A f \in Fds : Connected(f)' => Connected(f) /\ Mentions(f)' \subseteq Mentions(f)
      BY <1>2, <1>4 DEF Connected
    <2> QED
      BY <1>2, <1>3, <2>1, PortsKept
  <1>6. SocksFresh'
    BY <1>2, <1>3 DEF SocksFresh
  <1> QED
    BY <1>4, <1>5, <1>6 DEF Kept

\* No client that keeps the rules goes away.
LEMMA NobodyGoes ==
  ASSUME Orderly, NEW f \in Fds, on_read_gone(f) \/ on_write_error(f)
  PROVE  FALSE
  <1>1. CallbacksValid /\ OneCommand(f)
    BY DEF Orderly, IInv, Part
  <1>2. peers[f].st # "open"
    BY DEF on_read_gone, on_write_error
  <1>3. Connected(f)
    BY <1>1 DEF CallbacksValid, CtrlEvents, Connected, on_read_gone, on_write_error, Ran
  <1> QED
    BY <1>1, <1>2, <1>3 DEF OneCommand

LEMMA ReactorKeeps ==
  ASSUME Orderly, IInv', Timeouts = FALSE, Reactor
  PROVE  Kept
  <1>1. fault = "none" /\ ReactorStep /\ UNCHANGED <<sessions, disks>>
    BY DEF Reactor
  <1>2. CASE Poll
    BY <1>1, <1>2, PollKeeps
  <1>3. CASE NotifyStep
    BY <1>1, <1>3, NotifyKeeps
  <1>4. ASSUME NEW f \in Fds, CtrlStep(f) PROVE Kept
    BY <1>1, <1>4, AcceptKeeps, ReadLinesKeeps, WriteKeeps, NobodyGoes DEF CtrlStep
  <1>5. ASSUME NEW f \in Fds, DataStep(f) PROVE Kept
    BY <1>1, <1>5, DataAcceptKeeps, DataReadDataKeeps, DataReadEndKeeps, DataReadErrorKeeps,
       DataWriteKeeps, DataWritePartKeeps, DataWriteNothingKeeps DEF DataStep
  <1>6. ASSUME NEW f \in Fds, on_timeout(f) PROVE FALSE
    BY <1>6 DEF on_timeout
  <1> QED
    BY <1>1, <1>2, <1>3, <1>4, <1>5, <1>6 DEF ReactorStep, DispatchStep
-----------------------------------------------------------------------------
(* Steps of the clients.                                                   *)

\* The client of f does something: the server stays as it is.
Spoken(f) ==
  /\ f \in Fds /\ Connected(f) /\ Connected(f)' /\ fault = "none"
  /\ UNCHANGED <<sessions, disks, clients, session_pool, disk_pool, notify_pipe, fault, ready>>
  /\ \A g \in Fds : g # f => peers'[g] = peers[g]

\* What of f the server has.
LEMMA SpokenSame ==
  ASSUME NEW f, Spoken(f)
  PROVE  /\ Act(f)' = Act(f) /\ DAct(f)' = DAct(f) /\ Busy(f)' = Busy(f)
         /\ MyTasks(f)' = MyTasks(f) /\ MyNotices(f)' = MyNotices(f)
         /\ \A a : Tasks(f, a)' = Tasks(f, a) /\ Work(f, a)' = Work(f, a)
                   /\ Sent(f, a)' = Sent(f, a)
         /\ FinalNotices(f)' = FinalNotices(f)
         /\ Waits(f)' = Waits(f) /\ Accepts(f)' = Accepts(f) /\ Under(f)' = Under(f)
         /\ PasvPorts(f)' = PasvPorts(f)
         /\ PasvOrder(f) => PasvOrder(f)'
         /\ StartOrder(f) => StartOrder(f)'
         /\ \A g \in Fds : TasksStay(g) /\ WorkStays(g) /\ NoticesStay(g)
  <1>1. \A g \in Fds : TasksStay(g) /\ WorkStays(g) /\ NoticesStay(g)
    BY TasksUnchanged, WorkUnchanged, NoticesUnchanged DEF Spoken
  <1>2. /\ MyTasks(f)' = MyTasks(f) /\ MyNotices(f)' = MyNotices(f)
        /\ \A a : Tasks(f, a)' = Tasks(f, a) /\ Work(f, a)' = Work(f, a) /\ Sent(f, a)' = Sent(f, a)
        /\ FinalNotices(f)' = FinalNotices(f)
        /\ PasvOrder(f) => PasvOrder(f)'
        /\ StartOrder(f) => StartOrder(f)'
    BY <1>1 DEF TasksStay, WorkStays, NoticesStay, Spoken
  <1>3. Act(f)' = Act(f) /\ DAct(f)' = DAct(f)
    BY DEF Spoken, Act, DAct
  <1>4. Busy(f)' = Busy(f)
    BY <1>3 DEF Busy
  <1>5. Waits(f)' = Waits(f) /\ Accepts(f)' = Accepts(f) /\ PasvPorts(f)' = PasvPorts(f)
    BY <1>2 DEF Waits, Accepts, PasvPorts
  <1>6. Under(f)' = Under(f)
    BY <1>2 DEF Spoken, Under, Starts, Serves
  <1> QED
    BY <1>1, <1>2, <1>3, <1>4, <1>5, <1>6

\* What is left to show of what a client does.
LEMMA SpokenDone ==
  ASSUME Orderly, IInv', NEW f, Spoken(f),
         \A q \in Ports : q \notin Mentions(f) => data_sock'[q] = data_sock[q],
         \A q \in Ports : data_sock[q].st # "free" => data_sock'[q].st # "free",
         OneCommand(f)', InHand(f)', Accepting(f)', Rounds(f)', Quiet(f)', SocksFresh',
         Promised(f)' \subseteq Promised(f)
  PROVE  Kept
  <1>p. /\ Absent(f) /\ OneLine(f) /\ OneTransfer(f) /\ KindsAgree(f) /\ Permitted(f)
        /\ DiskOrder(f) /\ OneBlock(f) /\ PortsOwn
    BY DEF Orderly, Part, Spoken
  <1>1. /\ Act(f)' = Act(f) /\ DAct(f)' = DAct(f) /\ Under(f)' = Under(f)
        /\ MyTasks(f)' = MyTasks(f)
        /\ \A a : Tasks(f, a)' = Tasks(f, a) /\ Work(f, a)' = Work(f, a) /\ Sent(f, a)' = Sent(f, a)
        /\ StartOrder(f) => StartOrder(f)'
        /\ \A g \in Fds : TasksStay(g) /\ WorkStays(g) /\ NoticesStay(g)
    BY SpokenSame
  <1>2. Absent(f)' /\ OneLine(f)'
    BY <1>p, <1>1 DEF Spoken, Absent, OneLine
  <1>3. OneTransfer(f)' /\ KindsAgree(f)' /\ Permitted(f)'
    BY <1>p, <1>1 DEF Spoken, OneTransfer, KindsAgree, Permitted
  <1>4. DiskOrder(f)' /\ OneBlock(f)'
    BY <1>p, <1>1 DEF Spoken, DiskOrder, OneBlock
  <1>5. Part(f)'
    BY <1>2, <1>3, <1>4 DEF Part
  <1>6. Mentions(f)' \subseteq Mentions(f)
    BY DEF Mentions, Spoken
  <1>7. RoundFor(f) /\ Head(notify_pipe)' = Head(notify_pipe)
    BY DEF RoundFor, Spoken
  <1>8. \A g \in Fds : g # f => Apart(g)
    BY <1>1, <1>7, ReactorApart DEF Spoken
  <1> QED
    BY <1>5, <1>6, <1>8, ServicedDone DEF Spoken

\* A client that is there, and its data connection.
LEMMA Speaks ==
  ASSUME Orderly, NEW f \in Fds, Alive(f), fault = "none",
         UNCHANGED <<poolVars, clients, ready, sessions, disks>>,
         NEW me \in Peer, peers' = [peers EXCEPT ![f] = me]
  PROVE  /\ Spoken(f) /\ peers'[f] = me /\ peers[f] \in Peer
         /\ peers[f].port # NULL => peers[f].port \in Ports /\ peers[f].port \in Mentions(f)
  <1>1. Connected(f) /\ IInv /\ PortsOwn
    BY DEF Orderly, Part, Absent, Alive
  <1>2. /\ peers[f] \in Peer /\ peers'[f] = me
        /\ \A g \in Fds : g # f => peers'[g] = peers[g]
    BY <1>1, PeerSet
  <1>3. Spoken(f)
    BY <1>1, <1>2 DEF Spoken, poolVars, Connected
  <1>4. peers[f].port # NULL => peers[f].port \in Ports /\ peers[f].port \in Mentions(f)
    BY <1>1, NamedPorts DEF Promised
  <1> QED
    BY <1>2, <1>3, <1>4

\* A client says nothing, and its data connection changes.
LEMMA Silent ==
  ASSUME Orderly, NEW f \in Fds, Alive(f), fault = "none", peers' = peers,
         UNCHANGED <<poolVars, clients, ready, sessions, disks>>
  PROVE  /\ Spoken(f) /\ peers'[f] = peers[f] /\ peers[f] \in Peer
         /\ peers[f].port # NULL => peers[f].port \in Ports /\ peers[f].port \in Mentions(f)
  <1>1. peers[f] \in Peer
    BY DEF Orderly, IInv, TypeOK, ReactorTypeOK, Alive
  <1>2. peers' = [peers EXCEPT ![f] = peers[f]]
    BY DEF Orderly, IInv, TypeOK, ReactorTypeOK
  <1> QED
    BY <1>1, <1>2, Speaks

\* The transfer has a connection of its own.
LEMMA OwnPort ==
  ASSUME Orderly, NEW f \in Fds, Connected(f), peers[f].xfer # NULL
  PROVE  /\ peers[f].port # NULL /\ peers[f].port \in Ports /\ peers[f].port \in Mentions(f)
         /\ peers[f].port \in Promised(f)
         /\ data_sock[peers[f].port] \in DataSock
  <1>1. InHand(f) /\ PortsOwn /\ ReactorTypeOK
    BY DEF Orderly, Part, IInv, TypeOK
  <1>2. peers[f].port # NULL
    BY <1>1 DEF InHand
  <1>3. peers[f].port \in Promised(f)
    BY <1>2 DEF Promised
  <1>4. peers[f].port \in Ports /\ peers[f].port \in Mentions(f)
    BY <1>1, <1>3, NamedPorts
  <1> QED
    BY <1>1, <1>2, <1>3, <1>4 DEF ReactorTypeOK

\* A client connects for the transfer in hand.
LEMMA ConnectKeeps ==
  ASSUME Orderly, IInv', Habits = {}, NEW f \in Fds, fault = "none", ClientConnect(f),
         UNCHANGED <<poolVars, clients, ready, sessions, disks>>
  PROVE  Kept
  <1>p. PICK p : p = peers[f].port
    OBVIOUS
  <1>1. /\ Alive(f) /\ p # NULL /\ peers[f].xfer # NULL /\ peers[f].inq = <<>>
        /\ data_sock[p].st = "listening" /\ data_sock[p].peer = "none" /\ peers' = peers
        /\ data_sock' = [data_sock EXCEPT ![p].st = "connecting", ![p].peer = "open"]
    BY <1>p DEF ClientConnect, Dial
  <1>2. Spoken(f) /\ peers'[f] = peers[f]
    BY <1>1, Silent
  <1>3. Connected(f) /\ clients'[f] = clients[f] /\ ready' = ready
    BY <1>2 DEF Spoken
  <1>4. /\ p \in Ports /\ p \in Mentions(f) /\ p \in Promised(f)
        /\ data_sock[p] \in DataSock /\ ReactorTypeOK /\ PortsOwn /\ SocksFresh
    BY <1>1, <1>3, <1>p, OwnPort DEF Orderly, IInv, TypeOK
  <1>5. /\ data_sock'[p].st = "connecting" /\ data_sock'[p].peer = "open"
        /\ data_sock'[p].inq = data_sock[p].inq
        /\ \A q \in Ports : q # p => data_sock'[q] = data_sock[q]
    BY <1>1, <1>4 DEF ReactorTypeOK, DataSock
  <1>6. OneCommand(f) /\ InHand(f) /\ Accepting(f) /\ Rounds(f) /\ Quiet(f)
    BY DEF Orderly, Part
  <1>7. /\ Busy(f)' = Busy(f) /\ Accepts(f)' = Accepts(f) /\ Under(f)' = Under(f)
        /\ Act(f)' = Act(f) /\ MyTasks(f)' = MyTasks(f) /\ MyNotices(f)' = MyNotices(f)
        /\ \A a : Tasks(f, a)' = Tasks(f, a) /\ Sent(f, a)' = Sent(f, a)
        /\ FinalNotices(f)' = FinalNotices(f) /\ Waits(f)' = Waits(f)
        /\ PasvPorts(f)' = PasvPorts(f) /\ (PasvOrder(f) => PasvOrder(f)')
    BY <1>2, SpokenSame
  <1>8. Told(f)' = Told(f)
    BY <1>2, <1>3, <1>7 DEF Told
  <1>9. Promised(f)' = Promised(f)
    BY <1>2, <1>7, <1>8 DEF Promised
  <1>10. Open(f)' = Open(f)
    BY <1>2, <1>3, <1>7 DEF Open, Unread, Ends
  <1>11. OneCommand(f)' /\ InHand(f)'
    BY <1>2, <1>3, <1>6, <1>7, <1>8, <1>10 DEF OneCommand, InHand, Awaited, OnItsWay, Spoken
  <1>12. ~Calls(f)
    BY <1>1, <1>3, <1>6, <1>p DEF Accepting
  <1>13. /\ <<"data_accept", f>> \notin ready' /\ Accepts(f)' = 0 /\ Under(f)' = 0
         /\ Tasks(f, "PASV")' = 0 /\ PasvOrder(f)'
    BY <1>1, <1>3, <1>6, <1>7, <1>12, <1>p DEF Accepting, InHand
  <1>14. Calls(f)' => clients'[f].ev_data_accept = p
    <2>1. clients[f].ev_data_accept # NULL => clients[f].ev_data_accept \in Ports
      BY <1>3, <1>4, NamedPorts
    <2> QED
      BY <1>3, <1>5, <1>12, <2>1 DEF Calls
  <1>15. Accepting(f)'
    BY <1>1, <1>2, <1>5, <1>13, <1>14, <1>p DEF Accepting
  <1>16. Rounds(f)'
    <2>1. <<"read", f>> \notin ready'
      BY <1>1, <1>3, <1>6 DEF Rounds
    <2>2. Sent(f, "PASV")' = 0
      BY <1>1, <1>3, <1>6, <1>7 DEF InHand
    <2>3. \A x \in MyTasks(f)' : x.action = "READ" => x.buf[1].verb # "PASV"
      BY <1>1, <1>3, <1>6, <1>7 DEF InHand, OnItsWay, Transfers, Uploads, Downloads
    <2> QED
      BY <1>13, <2>1, <2>2, <2>3 DEF Rounds
  <1>17. Quiet(f)'
    BY <1>1, <1>2, <1>3, <1>5, <1>6, <1>13, <1>p DEF Quiet
  <1>18. SocksFresh'
    BY <1>4, <1>5 DEF SocksFresh
  <1>19. /\ \A q \in Ports : q \notin Mentions(f) => data_sock'[q] = data_sock[q]
         /\ \A q \in Ports : data_sock[q].st # "free" => data_sock'[q].st # "free"
    BY <1>4, <1>5
  <1> QED
    BY <1>2, <1>9, <1>11, <1>15, <1>16, <1>17, <1>18, <1>19, SpokenDone

\* A client works at the connection of its upload.
LEMMA UploadKeeps ==
  ASSUME Orderly, IInv', Habits = {}, NEW f \in Fds, fault = "none",
         UNCHANGED <<poolVars, clients, ready, sessions, disks>>, Uploading(f),
         NEW me \in Peer, peers' = [peers EXCEPT ![f] = me],
         me.inq = peers[f].inq, me.outq = peers[f].outq, me.st = peers[f].st,
         me.wait = peers[f].wait, me.port = peers[f].port, me.xfer = peers[f].xfer,
         NEW k, data_sock' = [data_sock EXCEPT ![peers[f].port] = k],
         k.st = data_sock[peers[f].port].st, k.peer \in {"open", "fin"}
  PROVE  Kept
  <1>p. PICK p : p = peers[f].port
    OBVIOUS
  <1>1. /\ Alive(f) /\ peers[f].xfer # NULL /\ peers[f].xfer.verb \in Uploads
        /\ data_sock[p].peer = "open"
    BY <1>p DEF Uploading, Dial
  <1>2. Spoken(f) /\ peers'[f] = me
    BY <1>1, Speaks
  <1>3. Connected(f) /\ clients'[f] = clients[f] /\ ready' = ready
    BY <1>2 DEF Spoken
  <1>4. /\ p \in Ports /\ p \in Mentions(f) /\ p \in Promised(f) /\ p # NULL
        /\ data_sock[p] \in DataSock /\ ReactorTypeOK /\ PortsOwn /\ SocksFresh
    BY <1>1, <1>3, <1>p, OwnPort DEF Orderly, IInv, TypeOK
  <1>5. /\ data_sock'[p].st = data_sock[p].st /\ data_sock'[p].peer \in {"open", "fin"}
        /\ \A q \in Ports : q # p => data_sock'[q] = data_sock[q]
    BY <1>4, <1>p DEF ReactorTypeOK
  <1>6. OneCommand(f) /\ InHand(f) /\ Accepting(f) /\ Rounds(f) /\ Quiet(f)
    BY DEF Orderly, Part
  <1>7. /\ Busy(f)' = Busy(f) /\ Accepts(f)' = Accepts(f) /\ Under(f)' = Under(f)
        /\ Act(f)' = Act(f) /\ MyTasks(f)' = MyTasks(f) /\ MyNotices(f)' = MyNotices(f)
        /\ \A a : Tasks(f, a)' = Tasks(f, a) /\ Sent(f, a)' = Sent(f, a)
        /\ FinalNotices(f)' = FinalNotices(f) /\ Waits(f)' = Waits(f)
        /\ PasvPorts(f)' = PasvPorts(f) /\ (PasvOrder(f) => PasvOrder(f)')
    BY <1>2, SpokenSame
  <1>8. Told(f)' = Told(f)
    BY <1>2, <1>3, <1>7 DEF Told
  <1>9. Promised(f)' = Promised(f)
    BY <1>2, <1>7, <1>8 DEF Promised
  <1>10. Open(f)' = Open(f)
    BY <1>2, <1>3, <1>7 DEF Open, Unread, Ends
  <1>11. OneCommand(f)'
    BY <1>2, <1>3, <1>6, <1>10 DEF OneCommand, Awaited
  <1>12. InHand(f)'
    BY <1>2, <1>3, <1>6, <1>7, <1>8 DEF InHand, Awaited, OnItsWay
  <1>13. Calls(f)' = Calls(f)
    <2>1. clients[f].ev_data_accept # NULL => clients[f].ev_data_accept \in Ports
      BY <1>3, <1>4, NamedPorts
    <2> QED
      BY <1>3, <1>5, <2>1 DEF Calls
  <1>14. Accepting(f)'
    BY <1>1, <1>2, <1>3, <1>5, <1>6, <1>7, <1>13, <1>p DEF Accepting
  <1>15. Rounds(f)'
    BY <1>2, <1>3, <1>6, <1>7, <1>13 DEF Rounds, Spoken
  <1>16. Quiet(f)'
    <2>1. "RETR" \notin Uploads /\ "LIST" \notin Uploads
      BY DEF Uploads
    <2> QED
      BY <1>1, <1>2, <1>3, <1>6, <1>7, <2>1, <1>p DEF Quiet, Downloads
  <1>17. SocksFresh'
    BY <1>1, <1>4, <1>5 DEF SocksFresh
  <1>18. /\ \A q \in Ports : q \notin Mentions(f) => data_sock'[q] = data_sock[q]
         /\ \A q \in Ports : data_sock[q].st # "free" => data_sock'[q].st # "free"
    BY <1>4, <1>5
  <1> QED
    BY <1>2, <1>9, <1>11, <1>12, <1>14, <1>15, <1>16, <1>17, <1>18, SpokenDone

LEMMA ClientUploadKeeps ==
  ASSUME Orderly, IInv', Habits = {}, NEW f \in Fds, fault = "none",
         UNCHANGED <<poolVars, clients, ready, sessions, disks>>,
         ClientUpload(f) \/ ClientUploadEnd(f)
  PROVE  Kept
  <1>p. PICK p : p = peers[f].port
    OBVIOUS
  <1>1. Uploading(f) /\ Alive(f) /\ peers[f].xfer # NULL
    BY DEF ClientUpload, ClientUploadEnd, Uploading
  <1>2. Connected(f) /\ ReactorTypeOK /\ peers[f] \in Peer
    BY <1>1 DEF Orderly, IInv, TypeOK, ReactorTypeOK, Part, Absent, Alive
  <1>3. p \in Ports /\ data_sock[p] \in DataSock /\ data_sock[p].peer = "open"
    BY <1>1, <1>2, <1>p, OwnPort DEF Uploading, Dial
  <1>4. CASE ClientUpload(f)
    <2>m. PICK me : me = [peers[f] EXCEPT !.left = Tail(@)]
      OBVIOUS
    <2>k. PICK k : k = [data_sock[p] EXCEPT !.inq = Append(@, Head(peers[f].left))]
      OBVIOUS
    <2>1. peers' = [peers EXCEPT ![f] = me] /\ data_sock' = [data_sock EXCEPT ![p] = k]
      BY <1>4, <1>p, <2>m, <2>k DEF ClientUpload, SetPeer
    <2>2. Tail(peers[f].left) \in Block
      BY <1>2, <1>4, HeadTailProperties DEF ClientUpload, Peer, Block
    <2>3. /\ me \in Peer /\ me.inq = peers[f].inq /\ me.outq = peers[f].outq
          /\ me.st = peers[f].st /\ me.wait = peers[f].wait /\ me.port = peers[f].port
          /\ me.xfer = peers[f].xfer
      BY <1>2, <2>m, <2>2 DEF Peer
    <2>4. k.st = data_sock[p].st /\ k.peer = "open"
      BY <1>3, <2>k DEF DataSock
    <2> QED
      BY <1>1, <1>p, <2>1, <2>3, <2>4, UploadKeeps
  <1>5. CASE ClientUploadEnd(f)
    <2>k. PICK k : k = [data_sock[p] EXCEPT !.peer = "fin"]
      OBVIOUS
    <2>1. peers' = [peers EXCEPT ![f] = peers[f]] /\ data_sock' = [data_sock EXCEPT ![p] = k]
      BY <1>2, <1>5, <1>p, <2>k DEF ClientUploadEnd, ReactorTypeOK
    <2>2. k.st = data_sock[p].st /\ k.peer = "fin"
      BY <1>3, <2>k DEF DataSock
    <2> QED
      BY <1>1, <1>2, <1>p, <2>1, <2>2, UploadKeeps
  <1> QED
    BY <1>4, <1>5

\* A client that waits for nothing is waited for by nothing.
LEMMA NothingOpen ==
  ASSUME Orderly, NEW f \in Fds, Connected(f), Awaited(f) = 0
  PROVE  /\ Open(f) = 0 /\ Unread(f) = 0 /\ Waits(f) = 0 /\ Sent(f, "PASV") = 0 /\ Ends(f) = 0
         /\ Busy(f) = 0 /\ Under(f) = 0 /\ Tasks(f, "PASV") = 0 /\ Tasks(f, "READ") = 0
         /\ Told(f) = {} /\ peers[f].xfer = NULL /\ <<"read", f>> \notin ready
  <1>1. /\ IInv /\ AllCounted /\ AllParts /\ OneCommand(f) /\ InHand(f) /\ OneTransfer(f)
        /\ Rounds(f)
    BY CountedType, PartsNow DEF Orderly, Part
  <1>2. OpenNat(f) /\ UnderNat(f)
    BY <1>1 DEF AllCounted
  <1>3. /\ Open(f) = 0 /\ Unread(f) = 0 /\ Waits(f) = 0 /\ Sent(f, "PASV") = 0 /\ Ends(f) = 0
        /\ Busy(f) = 0
    <2>1. Open(f) <= 0
      BY <1>1 DEF OneCommand
    <2> QED
      BY <1>2, <2>1 DEF Open, OpenNat
  <1>4. Tasks(f, "PASV") = 0 /\ Tasks(f, "READ") = 0
    BY <1>1, <1>3 DEF AllParts
  <1>5. Told(f) = {}
    BY <1>1, <1>3, ToldIsOpen
  <1>6. peers[f].xfer = NULL
    BY <1>1 DEF InHand
  <1>7. Under(f) = 0
    <2>1. Act(f) \notin Serving
      BY <1>3 DEF Busy, Serving
    <2> QED
      BY <1>1, <1>2, <2>1 DEF OneTransfer, UnderNat
  <1>8. <<"read", f>> \notin ready
    <2>1. peers[f].inq \in Seq(Command)
      BY <1>1 DEF IInv, TypeOK, ReactorTypeOK, ClientsWhole, Connected, Peer
    <2>2. peers[f].inq = <<>>
      BY <1>3, <2>1, EmptySeq DEF Unread
    <2> QED
      BY <1>1, <2>2 DEF Rounds
  <1> QED
    BY <1>3, <1>4, <1>5, <1>6, <1>7, <1>8

\* A client sends its next command.
LEMMA SendKeeps ==
  ASSUME Orderly, IInv', Habits = {}, NEW f \in Fds, fault = "none", ClientSend(f),
         UNCHANGED <<poolVars, clients, ready, sessions, disks>>
  PROVE  Kept
  <1>o. PICK old : old = peers[f]
    OBVIOUS
  <1>c. PICK c : c = Head(old.todo)
    OBVIOUS
  <1>m. PICK me : me = [old EXCEPT !.inq = Append(@, c), !.todo = Tail(@), !.wait = @ + 1,
                            !.xfer = IF c.verb \in Transfers THEN c ELSE @,
                            !.started = IF c.verb \in Transfers THEN FALSE ELSE @,
                            !.left = IF c.verb \in Uploads THEN c.payload ELSE @]
    OBVIOUS
  <1>1. /\ Alive(f) /\ old.todo # <<>> /\ old.wait = 0
        /\ c.verb \in Transfers => old.port # NULL
        /\ peers' = [peers EXCEPT ![f] = me] /\ data_sock' = data_sock
    BY <1>o, <1>c, <1>m DEF ClientSend, SetPeer
  <1>2. /\ Connected(f) /\ old \in Peer /\ IInv
    BY <1>1, <1>o DEF Orderly, IInv, TypeOK, ReactorTypeOK, Part, Absent, Alive
  <1>3. /\ peers'[f] = me /\ \A g \in Fds : g # f => peers'[g] = peers[g]
    BY <1>1, <1>2, PeerSet
  <1>4. Spoken(f) /\ clients'[f] = clients[f] /\ ready' = ready
    BY <1>2, <1>3 DEF Spoken, poolVars, Connected
  <1>5. /\ c \in Command /\ c # NULL /\ old.inq \in Seq(Command) /\ old.wait = 0
    BY <1>1, <1>2, <1>c, CommandNullAssumption DEF Peer
  <1>6. /\ me.inq = Append(old.inq, c) /\ me.wait = 1 /\ me.outq = old.outq /\ me.st = old.st
        /\ me.port = old.port /\ me.xfer = IF c.verb \in Transfers THEN c ELSE old.xfer
    BY <1>2, <1>5, <1>m DEF Peer
  <1>7. /\ Open(f) = 0 /\ Unread(f) = 0 /\ Waits(f) = 0 /\ Sent(f, "PASV") = 0 /\ Ends(f) = 0
        /\ Busy(f) = 0 /\ Under(f) = 0 /\ Tasks(f, "PASV") = 0 /\ Tasks(f, "READ") = 0
        /\ Told(f) = {} /\ peers[f].xfer = NULL /\ <<"read", f>> \notin ready
    BY <1>1, <1>2, <1>o, NothingOpen DEF Awaited
  <1>8. me.inq = <<c>> /\ Len(me.inq) = 1
    <2>1. old.inq = <<>>
      BY <1>5, <1>7, <1>o, EmptySeq DEF Unread
    <2> QED
      BY <1>5, <1>6, <2>1
  <1>9. OneCommand(f) /\ InHand(f) /\ Accepting(f) /\ Rounds(f) /\ Quiet(f) /\ SocksFresh
    BY DEF Orderly, Part
  <1>10. /\ Busy(f)' = 0 /\ Accepts(f)' = Accepts(f) /\ Under(f)' = 0
         /\ Act(f)' = Act(f) /\ MyTasks(f)' = MyTasks(f) /\ MyNotices(f)' = MyNotices(f)
         /\ \A a : Tasks(f, a)' = Tasks(f, a) /\ Sent(f, a)' = Sent(f, a)
         /\ FinalNotices(f)' = FinalNotices(f) /\ Waits(f)' = 0
         /\ PasvPorts(f)' = PasvPorts(f) /\ (PasvOrder(f) => PasvOrder(f)')
    BY <1>4, <1>7, SpokenSame
  <1>11. Told(f)' = {}
    <2>1. Told(f)' = Told(f)
      BY <1>3, <1>4, <1>6, <1>10, <1>o DEF Told
    <2> QED
      BY <1>7, <2>1
  <1>12. Promised(f)' = Promised(f)
    BY <1>3, <1>6, <1>7, <1>10, <1>11, <1>o DEF Promised
  <1>13. OneCommand(f)'
    <2>1. Ends(f)' = 0
      <3>1. Ends(f)' = Ends(f)
        BY <1>3, <1>4, <1>6, <1>10, <1>o DEF Ends
      <3> QED
        BY <1>7, <3>1
    <2>2. Unread(f)' = 1 /\ Sent(f, "PASV")' = 0
      BY <1>3, <1>7, <1>8, <1>10 DEF Unread
    <2>3. Open(f)' = 1
      BY <1>10, <2>1, <2>2 DEF Open
    <2>4. me.st = "open"
      BY <1>1, <1>6, <1>o DEF Alive
    <2> QED
      BY <1>3, <1>6, <2>3, <2>4 DEF OneCommand, Awaited
  <1>14. \A x \in MyTasks(f)' : x.action # "READ"
    <2>1. \A x \in MyTasks(f) : x.action # "READ"
      BY <1>2, <1>7, NoneWaiting DEF IInv, TypeOK
    <2> QED
      BY <1>10, <2>1
  <1>15. InHand(f)'
    <2>1. peers'[f].xfer = IF c.verb \in Transfers THEN c ELSE NULL
      BY <1>3, <1>6, <1>7, <1>o
    <2>2. OnItsWay(f, c)'
      BY <1>5, <2>1 DEF OnItsWay
    <2>3. \A i \in 1 .. Len(peers'[f].inq) : OnItsWay(f, peers[f].inq[i])'
      <3>1. \A i \in 1 .. Len(peers'[f].inq) : peers'[f].inq[i] = c
        BY <1>3, <1>8
      <3> QED
        BY <2>1, <3>1, <1>5 DEF OnItsWay
    <2>4. /\ peers'[f].xfer # NULL =>
               /\ peers'[f].xfer.verb \in Transfers /\ peers'[f].port # NULL /\ Awaited(f)' = 1
               /\ Tasks(f, "PASV")' = 0 /\ Sent(f, "PASV")' = 0 /\ Told(f)' = {}
      BY <1>1, <1>3, <1>6, <1>7, <1>10, <1>11, <1>o, <2>1 DEF Awaited
    <2> QED
      BY <1>10, <1>14, <2>3, <2>4 DEF InHand
  <1>16. Calls(f)' = Calls(f)
    BY <1>1, <1>4 DEF Calls
  <1>17. Accepting(f)'
    <2>1. Accepts(f) \in Nat
      BY <1>2, CountedType DEF AllCounted, UnderNat
    <2>2. /\ <<"data_accept", f>> \in ready' => Calls(f)'
          /\ old.port # NULL => Accepts(f)' = 0 /\ ~Calls(f)'
          /\ PasvOrder(f)'
      BY <1>2, <1>4, <1>7, <1>9, <1>10, <1>16, <1>o DEF Accepting
    <2>3. peers'[f].port = old.port /\ (peers'[f].xfer # NULL => old.port # NULL)
      BY <1>1, <1>3, <1>6, <1>7, <1>o
    <2> QED
      BY <1>7, <1>10, <1>11, <2>2, <2>3 DEF Accepting
  <1>18. Rounds(f)'
    BY <1>2, <1>4, <1>7, <1>9, <1>10, <1>16 DEF Rounds, Spoken
  <1>19. Quiet(f)'
    <2>1. \A q \in Promised(f) : data_sock[q].inq = <<>> /\ data_sock[q].peer = "none"
      BY <1>2, <1>7, <1>9 DEF Quiet
    <2>2. peers'[f].xfer # NULL => peers'[f].port \in Promised(f)
      BY <1>1, <1>3, <1>6, <1>7, <1>o DEF Promised
    <2>3. Accepts(f)' + Under(f)' >= 1 => peers'[f].xfer = NULL
      BY <1>1, <1>2, <1>3, <1>6, <1>7, <1>9, <1>10, <1>o DEF Accepting
    <2> QED
      BY <1>1, <1>12, <2>1, <2>2, <2>3 DEF Quiet
  <1>20. SocksFresh'
    BY <1>1, <1>9 DEF SocksFresh
  <1> QED
    BY <1>1, <1>4, <1>12, <1>13, <1>15, <1>17, <1>18, <1>19, <1>20, SpokenDone

\* A client that has an answer coming waits for nothing else.
LEMMA NothingElse ==
  ASSUME Orderly, NEW f \in Fds, Connected(f), Ends(f) > 0
  PROVE  /\ Open(f) = 1 /\ Ends(f) = 1 /\ Awaited(f) = 1 /\ Unread(f) = 0 /\ Waits(f) = 0
         /\ Sent(f, "PASV") = 0 /\ Busy(f) = 0 /\ Under(f) = 0 /\ peers[f].inq = <<>>
         /\ PasvPorts(f) = {} /\ <<"read", f>> \notin ready
         /\ \A x \in MyTasks(f) : x.action # "READ"
         /\ Tasks(f, "PASV") = 0
  <1>1. /\ IInv /\ AllCounted /\ AllParts /\ OneCommand(f) /\ OneTransfer(f) /\ Rounds(f)
    BY CountedType, PartsNow DEF Orderly, Part
  <1>2. OpenNat(f) /\ UnderNat(f)
    BY <1>1 DEF AllCounted
  <1>3. Awaited(f) <= 1 /\ Open(f) <= Awaited(f)
    BY <1>1 DEF OneCommand
  <1>4. /\ Open(f) = 1 /\ Ends(f) = 1 /\ Awaited(f) = 1 /\ Unread(f) = 0 /\ Waits(f) = 0
        /\ Sent(f, "PASV") = 0 /\ Busy(f) = 0
    BY <1>2, <1>3 DEF Open, OpenNat
  <1>5. Tasks(f, "PASV") = 0 /\ Tasks(f, "READ") = 0
    <2>1. /\ Tasks(f, "READ") \in Nat /\ Tasks(f, "PASV") \in Nat
          /\ Tasks(f, "CTRL_ACCEPT") \in Nat
      BY <1>1, NumbersType DEF IInv, TypeOK, Numbers
    <2> QED
      BY <1>4, <2>1 DEF Waits
  <1>6. \A x \in MyTasks(f) : x.action # "READ" /\ x.action # "PASV"
    BY <1>1, <1>5, NoneWaiting DEF IInv, TypeOK
  <1>7. PasvPorts(f) = {}
    BY <1>6 DEF PasvPorts
  <1>8. Under(f) = 0
    <2>1. Act(f) \notin Serving
      BY <1>4 DEF Busy, Serving
    <2> QED
      BY <1>1, <1>2, <2>1 DEF OneTransfer, UnderNat
  <1>9. peers[f].inq = <<>>
    <2>1. peers[f].inq \in Seq(Command)
      BY <1>1 DEF IInv, TypeOK, ReactorTypeOK, ClientsWhole, Connected, Peer
    <2> QED
      BY <1>4, <2>1, EmptySeq DEF Unread
  <1>10. <<"read", f>> \notin ready
    BY <1>1, <1>9 DEF Rounds
  <1> QED
    BY <1>4, <1>5, <1>6, <1>7, <1>8, <1>9, <1>10

\* A client takes the next answer.
LEMMA Received ==
  ASSUME Orderly, NEW f \in Fds, Alive(f), fault = "none", peers[f].outq # <<>>,
         UNCHANGED <<poolVars, clients, ready, sessions, disks>>,
         NEW me \in Peer, peers' = [peers EXCEPT ![f] = me],
         me.inq = peers[f].inq, me.outq = Tail(peers[f].outq), me.st = peers[f].st
  PROVE  /\ Spoken(f) /\ peers'[f] = me
         /\ Told(f)' \subseteq Told(f) /\ Unread(f)' = Unread(f)
         /\ Head(peers[f].outq).code = 227 => Head(peers[f].outq).port \in Told(f)
         /\ Ends(f) = IF Head(peers[f].outq).code # 150 THEN Ends(f)' + 1 ELSE Ends(f)'
  <1>o. PICK o : o = peers[f].outq
    OBVIOUS
  <1>r. PICK r : r = Head(o)
    OBVIOUS
  <1>1. Spoken(f) /\ peers'[f] = me /\ peers[f] \in Peer
    BY Speaks
  <1>2. o \in Seq(Reply) /\ o # <<>>
    BY <1>1, <1>o DEF Peer
  <1>3. /\ clients'[f] = clients[f] /\ MyNotices(f)' = MyNotices(f)
        /\ FinalNotices(f)' = FinalNotices(f)
    BY <1>1, SpokenSame DEF Spoken
  <1>4. Elements(o) = Elements(Tail(o)) \cup {r}
    BY <1>2, <1>r, TailElements
  <1>5. Told(f)' \subseteq Told(f)
    BY <1>1, <1>3, <1>4, <1>o DEF Told
  <1>6. r.code = 227 => r.port \in Told(f)
    BY <1>4, <1>o DEF Told
  <1>7. Unread(f)' = Unread(f)
    BY <1>1 DEF Unread
  <1>8. Ends(f) = IF r.code # 150 THEN Ends(f)' + 1 ELSE Ends(f)'
    <2>1. PICK n, w, a, b : /\ n = FinalNotices(f) /\ w = Finals(clients[f].write_q)
                            /\ a = Finals(o) /\ b = Finals(Tail(o))
      OBVIOUS
    <2>2. n \in Nat /\ w \in Nat /\ b \in Nat
      <3>1. IInv /\ Connected(f)
        BY <1>1 DEF Orderly, Spoken
      <3>2. n \in Nat
        BY <2>1, <3>1, NumbersType DEF IInv, TypeOK, Numbers
      <3>3. w \in Nat
        BY <2>1, <3>1, FinalsNone DEF IInv, TypeOK, ReactorTypeOK, Connected, TCP_client
      <3>4. Tail(o) \in Seq(Reply)
        BY <1>2, HeadTailProperties
      <3> QED
        BY <2>1, <3>2, <3>3, <3>4, FinalsNone
    <2>3. a = IF r.code # 150 THEN b + 1 ELSE b
      BY <1>2, <1>r, <2>1, FinalsTaken
    <2>4. Ends(f) = n + w + a /\ Ends(f)' = n + w + b
      BY <1>1, <1>3, <1>o, <2>1 DEF Ends
    <2> QED
      BY <2>2, <2>3, <2>4
  <1> QED
    BY <1>1, <1>5, <1>6, <1>7, <1>8, <1>o, <1>r

\* A 150 is not the last answer.
LEMMA ReceiveMarkKeeps ==
  ASSUME Orderly, IInv', NEW f \in Fds, Alive(f), fault = "none", peers[f].outq # <<>>,
         UNCHANGED <<poolVars, clients, ready, sessions, disks, data_sock>>,
         NEW me \in Peer, peers' = [peers EXCEPT ![f] = me],
         me.inq = peers[f].inq, me.outq = Tail(peers[f].outq), me.st = peers[f].st,
         me.wait = peers[f].wait, me.port = peers[f].port, me.xfer = peers[f].xfer,
         Head(peers[f].outq).code = 150
  PROVE  Kept
  <1>1. /\ Spoken(f) /\ peers'[f] = me
        /\ Told(f)' \subseteq Told(f) /\ Unread(f)' = Unread(f) /\ Ends(f) = Ends(f)'
    BY Received
  <1>2. Connected(f) /\ clients'[f] = clients[f] /\ ready' = ready
    BY <1>1 DEF Spoken
  <1>3. OneCommand(f) /\ InHand(f) /\ Accepting(f) /\ Rounds(f) /\ Quiet(f) /\ SocksFresh
    BY DEF Orderly, Part
  <1>4. /\ Busy(f)' = Busy(f) /\ Accepts(f)' = Accepts(f) /\ Under(f)' = Under(f)
        /\ Act(f)' = Act(f) /\ MyTasks(f)' = MyTasks(f) /\ MyNotices(f)' = MyNotices(f)
        /\ \A a : Tasks(f, a)' = Tasks(f, a) /\ Sent(f, a)' = Sent(f, a)
        /\ FinalNotices(f)' = FinalNotices(f) /\ Waits(f)' = Waits(f)
        /\ PasvPorts(f)' = PasvPorts(f) /\ (PasvOrder(f) => PasvOrder(f)')
    BY <1>1, SpokenSame
  <1>5. Promised(f)' \subseteq Promised(f)
    BY <1>1, <1>4 DEF Promised
  <1>6. Open(f)' = Open(f)
    BY <1>1, <1>4 DEF Open
  <1>7. OneCommand(f)'
    BY <1>1, <1>2, <1>3, <1>6 DEF OneCommand, Awaited
  <1>8. InHand(f)'
    BY <1>1, <1>2, <1>3, <1>4 DEF InHand, Awaited, OnItsWay
  <1>9. Calls(f)' = Calls(f)
    BY <1>2 DEF Calls
  <1>10. Accepting(f)'
    BY <1>1, <1>2, <1>3, <1>4, <1>9 DEF Accepting
  <1>11. Rounds(f)'
    BY <1>1, <1>2, <1>3, <1>4, <1>9 DEF Rounds, Spoken
  <1>12. Quiet(f)'
    BY <1>1, <1>2, <1>3, <1>4, <1>5 DEF Quiet
  <1>13. SocksFresh'
    BY <1>3 DEF SocksFresh
  <1> QED
    BY <1>1, <1>5, <1>7, <1>8, <1>10, <1>11, <1>12, <1>13, SpokenDone

\* Any other answer is the last one, and ends the command.
LEMMA ReceiveLastKeeps ==
  ASSUME Orderly, IInv', NEW f \in Fds, Alive(f), fault = "none", peers[f].outq # <<>>,
         UNCHANGED <<poolVars, clients, ready, sessions, disks>>,
         NEW me \in Peer, peers' = [peers EXCEPT ![f] = me],
         me.inq = peers[f].inq, me.outq = Tail(peers[f].outq), me.st = peers[f].st,
         peers[f].wait > 0 => me.wait = peers[f].wait - 1, me.xfer = NULL,
         Head(peers[f].outq).code # 150,
         me.port # NULL => peers[f].xfer = NULL /\ me.port \in Promised(f),
         me.port # NULL => Accepts(f) = 0 /\ ~Calls(f),
         \A q \in Ports : data_sock'[q].st = data_sock[q].st,
         \A q \in Ports : q # peers[f].port => data_sock'[q] = data_sock[q],
         peers[f].xfer = NULL => data_sock' = data_sock,
         SocksFresh'
  PROVE  Kept
  <1>1. /\ Spoken(f) /\ peers'[f] = me /\ Unread(f)' = Unread(f) /\ Ends(f) = Ends(f)' + 1
    BY Received
  <1>2. Connected(f) /\ Connected(f)' /\ clients'[f] = clients[f] /\ ready' = ready
    BY <1>1 DEF Spoken
  <1>3. IInv /\ Accepting(f) /\ Rounds(f) /\ Quiet(f) /\ PortsOwn /\ OneCommand(f)
    BY DEF Orderly, Part
  <1>4. OpenNat(f) /\ OpenNat(f)' /\ UnderNat(f)
    BY <1>2, <1>3, CountedType, CountedNext DEF AllCounted
  <1>5. Ends(f) > 0
    BY <1>1, <1>4 DEF OpenNat
  <1>6. /\ Ends(f) = 1 /\ Awaited(f) = 1 /\ Unread(f) = 0 /\ Waits(f) = 0
        /\ Sent(f, "PASV") = 0 /\ Busy(f) = 0 /\ Under(f) = 0 /\ peers[f].inq = <<>>
        /\ PasvPorts(f) = {} /\ <<"read", f>> \notin ready
        /\ \A x \in MyTasks(f) : x.action # "READ"
        /\ Tasks(f, "PASV") = 0
    BY <1>2, <1>5, NothingElse
  <1>7. /\ Busy(f)' = 0 /\ Accepts(f)' = Accepts(f) /\ Under(f)' = 0
        /\ Act(f)' = Act(f) /\ MyTasks(f)' = MyTasks(f) /\ Tasks(f, "PASV")' = 0
        /\ Sent(f, "PASV")' = 0 /\ Waits(f)' = 0 /\ PasvPorts(f)' = {}
        /\ (PasvOrder(f) => PasvOrder(f)')
    BY <1>1, <1>6, SpokenSame
  <1>8. Ends(f)' = 0
    BY <1>1, <1>4, <1>6 DEF OpenNat
  <1>9. Told(f)' = {}
    <2>1. IInv /\ Connected(f) /\ Told(f) # {} => Ends(f) > 0
      BY ToldIsOpen
    <2>2. (IInv /\ Connected(f) /\ Told(f) # {} => Ends(f) > 0)'
      BY ToldIsOpen, PTL
    <2> QED
      BY <1>2, <1>8, <2>2
  <1>10. Promised(f)' = {me.port} \ {NULL}
    BY <1>1, <1>7, <1>9 DEF Promised
  <1>11. Promised(f)' \subseteq Promised(f)
    BY <1>10
  <1>12. OneCommand(f)'
    <2>1. Open(f)' = 0
      BY <1>1, <1>6, <1>7, <1>8 DEF Open
    <2>2. me.wait = 0
      BY <1>6 DEF Awaited
    <2> QED
      BY <1>1, <1>2, <1>3, <2>1, <2>2 DEF OneCommand, Awaited
  <1>13. InHand(f)'
    BY <1>1, <1>6, <1>7 DEF InHand
  <1>14. Calls(f)' = Calls(f)
    <2>1. clients[f].ev_data_accept # NULL => clients[f].ev_data_accept \in Ports
      BY <1>2, <1>3, NamedPorts
    <2> QED
      BY <1>2, <2>1 DEF Calls
  <1>15. Accepting(f)'
    BY <1>1, <1>2, <1>3, <1>7, <1>9, <1>14 DEF Accepting
  <1>16. Rounds(f)'
    <2>1. <<"notify">> \in ready /\ Head(notify_pipe).action = "PASV" /\ Head(notify_pipe).fd = f
            => <<"data_accept", f>> \notin ready
      BY <1>2, <1>3 DEF Rounds
    <2>2. ready' = ready /\ notify_pipe' = notify_pipe
      BY <1>1 DEF Spoken
    <2>3. <<"read", f>> \notin ready' /\ \A x \in MyTasks(f)' : x.action # "READ"
      BY <1>6, <1>7, <2>2
    <2> QED
      BY <1>7, <2>1, <2>2, <2>3 DEF Rounds
  <1>17. Quiet(f)'
    BY <1>1, <1>2, <1>3, <1>10, <1>11 DEF Quiet
  <1>18. /\ \A q \in Ports : q \notin Mentions(f) => data_sock'[q] = data_sock[q]
         /\ \A q \in Ports : data_sock[q].st # "free" => data_sock'[q].st # "free"
    <2>1. peers[f].port # NULL => peers[f].port \in Mentions(f)
      BY DEF Mentions, Promised
    <2>2. \A q \in Ports : q # NULL
      BY DataAssumption
    <2> QED
      BY <2>1, <2>2
  <1> QED
    BY <1>1, <1>11, <1>12, <1>13, <1>15, <1>16, <1>17, <1>18, SpokenDone

LEMMA ClientReceiveKeeps ==
  ASSUME Orderly, IInv', NEW f \in Fds, fault = "none", ClientReceive(f),
         UNCHANGED <<poolVars, clients, ready, sessions, disks>>
  PROVE  Kept
  <1>o. PICK old : old = peers[f]
    OBVIOUS
  <1>r. PICK r : r = Head(old.outq)
    OBVIOUS
  <1>w. PICK w : w = IF old.wait > 0 THEN old.wait - 1 ELSE 0
    OBVIOUS
  <1>1. /\ Alive(f) /\ old.outq # <<>>
    BY <1>o DEF ClientReceive
  <1>2. /\ Connected(f) /\ old \in Peer /\ IInv /\ ReactorTypeOK /\ SocksFresh
        /\ InHand(f) /\ Accepting(f)
    BY <1>1, <1>o DEF Orderly, IInv, TypeOK, ReactorTypeOK, Part, Absent, Alive
  <1>3. Tail(old.outq) \in Seq(Reply) /\ r \in Reply /\ w \in Nat
    BY <1>1, <1>2, <1>r, <1>w, HeadTailProperties DEF Peer
  <1>4. CASE r.code = 150
    <2>m. PICK me : me = [old EXCEPT !.outq = Tail(@), !.started = TRUE]
      OBVIOUS
    <2>1. peers' = [peers EXCEPT ![f] = me] /\ data_sock' = data_sock
      BY <1>4, <1>o, <1>r, <2>m DEF ClientReceive, SetPeer
    <2>2. /\ me \in Peer /\ me.inq = old.inq /\ me.outq = Tail(old.outq) /\ me.st = old.st
          /\ me.wait = old.wait /\ me.port = old.port /\ me.xfer = old.xfer
      BY <1>2, <1>3, <2>m DEF Peer
    <2> QED
      BY <1>1, <1>4, <1>o, <1>r, <2>1, <2>2, ReceiveMarkKeeps
  <1>5. CASE r.code = 227
    <2>m. PICK me : me = [old EXCEPT !.outq = Tail(@), !.wait = w, !.port = r.port]
      OBVIOUS
    <2>1. peers' = [peers EXCEPT ![f] = me] /\ data_sock' = data_sock
      BY <1>5, <1>o, <1>r, <1>w, <2>m DEF ClientReceive, SetPeer
    <2>2. /\ me \in Peer /\ me.inq = old.inq /\ me.outq = Tail(old.outq) /\ me.st = old.st
          /\ me.wait = w /\ me.port = r.port /\ me.xfer = old.xfer
      BY <1>2, <1>3, <2>m DEF Peer, Reply
    <2>3. r.port \in Told(f)
      BY <1>1, <1>5, <1>o, <1>r, <2>1, <2>2, Received
    <2>4. old.xfer = NULL /\ Accepts(f) = 0 /\ ~Calls(f)
      BY <1>2, <1>o, <2>3 DEF InHand, Accepting
    <2>5. r.port # NULL => r.port \in Promised(f)
      BY <2>3 DEF Promised
    <2>6. SocksFresh'
      BY <1>2, <2>1 DEF SocksFresh
    <2>7. peers[f].wait > 0 => me.wait = peers[f].wait - 1
      BY <1>o, <1>w, <2>2
    <2>8. me.xfer = NULL /\ Head(peers[f].outq).code # 150
      BY <1>5, <1>o, <1>r, <2>2, <2>4
    <2>9. /\ peers[f].outq # <<>> /\ me.inq = peers[f].inq /\ me.outq = Tail(peers[f].outq)
          /\ me.st = peers[f].st
      BY <1>1, <1>o, <2>2
    <2>10. /\ \A q \in Ports : data_sock'[q].st = data_sock[q].st
           /\ \A q \in Ports : q # peers[f].port => data_sock'[q] = data_sock[q]
           /\ peers[f].xfer = NULL => data_sock' = data_sock
      BY <2>1
    <2>11. /\ me.port # NULL => peers[f].xfer = NULL /\ me.port \in Promised(f)
           /\ me.port # NULL => Accepts(f) = 0 /\ ~Calls(f)
      BY <1>o, <2>2, <2>4, <2>5
    <2> QED
      BY <1>1, <2>1, <2>2, <2>6, <2>7, <2>8, <2>9, <2>10, <2>11, ReceiveLastKeeps
  <1>6. CASE r.code \notin {150, 227}
    <2>p. PICK port : port = IF old.xfer = NULL THEN old.port ELSE NULL
      OBVIOUS
    <2>m. PICK me : me = [old EXCEPT !.outq = Tail(@), !.wait = w, !.xfer = NULL, !.port = port]
      OBVIOUS
    <2>1. /\ peers' = [peers EXCEPT ![f] = me]
          /\ data_sock' = IF old.xfer # NULL /\ old.port # NULL /\ Dial(f).peer = "open"
                          THEN [data_sock EXCEPT ![old.port].peer = "fin"] ELSE data_sock
      BY <1>6, <1>o, <1>r, <1>w, <2>p, <2>m DEF ClientReceive, SetPeer
    <2>2. /\ me \in Peer /\ me.inq = old.inq /\ me.outq = Tail(old.outq) /\ me.st = old.st
          /\ me.wait = w /\ me.port = port /\ me.xfer = NULL
      BY <1>2, <1>3, <2>m, <2>p DEF Peer
    <2>3. port # NULL => old.xfer = NULL /\ port \in Promised(f) /\ Accepts(f) = 0 /\ ~Calls(f)
      BY <1>2, <1>o, <2>p DEF Accepting, Promised
    <2>4. /\ \A q \in Ports : data_sock'[q].st = data_sock[q].st
          /\ \A q \in Ports : q # old.port => data_sock'[q] = data_sock[q]
          /\ SocksFresh'
      <3>1. CASE data_sock' = data_sock
        BY <1>2, <3>1 DEF SocksFresh
      <3>2. CASE /\ old.port # NULL /\ data_sock[old.port].peer = "open"
                 /\ data_sock' = [data_sock EXCEPT ![old.port].peer = "fin"]
        <4>1. old.port \in Ports /\ data_sock \in [Ports -> DataSock]
          BY <1>2, <3>2 DEF Peer, ReactorTypeOK
        <4>2. /\ data_sock'[old.port].st = data_sock[old.port].st
              /\ \A q \in Ports : q # old.port => data_sock'[q] = data_sock[q]
          BY <3>2, <4>1 DEF DataSock
        <4> QED
          BY <1>2, <3>2, <4>1, <4>2 DEF SocksFresh
      <3> QED
        BY <1>o, <2>1, <3>1, <3>2 DEF Dial
    <2>5. old.xfer = NULL => data_sock' = data_sock
      BY <2>1
    <2>6. peers[f].wait > 0 => me.wait = peers[f].wait - 1
      BY <1>o, <1>w, <2>2
    <2>7. Head(peers[f].outq).code # 150
      BY <1>6, <1>o, <1>r
    <2>8. /\ peers[f].outq # <<>> /\ me.inq = peers[f].inq /\ me.outq = Tail(peers[f].outq)
          /\ me.st = peers[f].st
      BY <1>1, <1>o, <2>2
    <2>9. /\ \A q \in Ports : q # peers[f].port => data_sock'[q] = data_sock[q]
          /\ peers[f].xfer = NULL => data_sock' = data_sock
      BY <1>o, <2>4, <2>5
    <2>10. /\ me.port # NULL => peers[f].xfer = NULL /\ me.port \in Promised(f)
           /\ me.port # NULL => Accepts(f) = 0 /\ ~Calls(f)
      BY <1>o, <2>2, <2>3
    <2> QED
      BY <1>1, <2>1, <2>2, <2>4, <2>6, <2>7, <2>8, <2>9, <2>10, ReceiveLastKeeps
  <1> QED
    BY <1>4, <1>5, <1>6

\* No step of a client that keeps the rules breaks the invariant.
LEMMA ClientKeeps ==
  ASSUME Orderly, IInv', Habits = {}, Client
  PROVE  Kept
  <1>1. PICK f \in Fds :
          /\ ClientProgress(f) \/ ClientAbort(f) \/ ClientQuit(f)
          /\ UNCHANGED <<poolVars, clients, ready>>
    BY DEF Client, ClientStep, ClientProgress
  <1>2. fault = "none" /\ UNCHANGED <<sessions, disks>>
    BY DEF Client
  <1>3. ~ClientAbort(f) /\ ~ClientQuit(f)
    BY DEF ClientAbort, ClientQuit
  <1>4. CASE ClientSend(f)
    BY <1>1, <1>2, <1>4, SendKeeps
  <1>5. CASE ClientReceive(f)
    BY <1>1, <1>2, <1>5, ClientReceiveKeeps
  <1>6. CASE ClientConnect(f)
    BY <1>1, <1>2, <1>6, ConnectKeeps
  <1>7. CASE ClientUpload(f) \/ ClientUploadEnd(f)
    BY <1>1, <1>2, <1>7, ClientUploadKeeps
  <1> QED
    BY <1>1, <1>3, <1>4, <1>5, <1>6, <1>7 DEF ClientProgress
-----------------------------------------------------------------------------
(* The theorem.                                                            *)

\* What a step does to the queues of the pools.
SessionMoves ==
  \/ session_pool' = session_pool
  \/ \E t \in SessionThreads :
       session_pool[t] # <<>> /\ session_pool' = [session_pool EXCEPT ![t] = Tail(@)]
  \/ \E x : post_to_session(x)

DiskMoves ==
  \/ disk_pool' = disk_pool
  \/ \E t \in DiskThreads :
       disk_pool[t] # <<>> /\ disk_pool' = [disk_pool EXCEPT ![t] = Tail(@)]
  \/ \E x : post_to_disk(x)

\* Tasks stay in the queue of the thread they belong to.
LEMMA RoutedMoves ==
  ASSUME PoolTypeOK, Routed, SessionMoves, DiskMoves
  PROVE  Routed'
  <1>1. /\ session_pool \in [SessionThreads -> Seq(SessionTask)]
        /\ disk_pool \in [DiskThreads -> Seq(DiskTask)]
    BY DEF PoolTypeOK
  <1>2. ASSUME NEW X, NEW q \in Seq(X), NEW x
        PROVE  Elements(Append(q, x)) = Elements(q) \cup {x}
    <2>1. q \in Seq(X \cup {x})
      OBVIOUS
    <2> QED
      BY <2>1, AppendElements
  <1>3. ASSUME NEW t \in SessionThreads, NEW y \in Elements(session_pool'[t])
        PROVE  ThreadOf(y.fd) = t
    <2>r. \A x \in Elements(session_pool[t]) : ThreadOf(x.fd) = t
      BY DEF Routed
    <2>q. session_pool[t] \in Seq(SessionTask)
      BY <1>1
    <2>1. CASE session_pool' = session_pool
      BY <1>3, <2>1, <2>r
    <2>2. ASSUME NEW u \in SessionThreads, session_pool[u] # <<>>,
                 session_pool' = [session_pool EXCEPT ![u] = Tail(@)]
          PROVE  ThreadOf(y.fd) = t
      <3>1. CASE u = t
        <4>1. session_pool'[t] = Tail(session_pool[t])
          BY <1>1, <2>2, <3>1
        <4> QED
          BY <1>3, <2>2, <2>q, <2>r, <3>1, <4>1, TailElements
      <3>2. CASE u # t
        BY <1>1, <1>3, <2>2, <2>r, <3>2
      <3> QED
        BY <3>1, <3>2
    <2>3. ASSUME NEW x, post_to_session(x)
          PROVE  ThreadOf(y.fd) = t
      <3>1. CASE ThreadOf(x.fd) = t
        <4>1. session_pool'[t] = Append(session_pool[t], x)
          BY <1>1, <2>3, <3>1 DEF post_to_session
        <4> QED
          BY <1>2, <1>3, <2>q, <2>r, <3>1, <4>1
      <3>2. CASE ThreadOf(x.fd) # t
        <4>1. session_pool'[t] = session_pool[t]
          BY <1>1, <2>3, <3>2 DEF post_to_session
        <4> QED
          BY <1>3, <2>r, <4>1
      <3> QED
        BY <3>1, <3>2
    <2> QED
      BY <2>1, <2>2, <2>3 DEF SessionMoves
  <1>4. ASSUME NEW t \in DiskThreads, NEW y \in Elements(disk_pool'[t])
        PROVE  ThreadOf(y.fd) = t
    <2>r. \A x \in Elements(disk_pool[t]) : ThreadOf(x.fd) = t
      BY DEF Routed
    <2>q. disk_pool[t] \in Seq(DiskTask)
      BY <1>1
    <2>1. CASE disk_pool' = disk_pool
      BY <1>4, <2>1, <2>r
    <2>2. ASSUME NEW u \in DiskThreads, disk_pool[u] # <<>>,
                 disk_pool' = [disk_pool EXCEPT ![u] = Tail(@)]
          PROVE  ThreadOf(y.fd) = t
      <3>1. CASE u = t
        <4>1. disk_pool'[t] = Tail(disk_pool[t])
          BY <1>1, <2>2, <3>1
        <4> QED
          BY <1>4, <2>2, <2>q, <2>r, <3>1, <4>1, TailElements
      <3>2. CASE u # t
        BY <1>1, <1>4, <2>2, <2>r, <3>2
      <3> QED
        BY <3>1, <3>2
    <2>3. ASSUME NEW x, post_to_disk(x)
          PROVE  ThreadOf(y.fd) = t
      <3>1. CASE ThreadOf(x.fd) = t
        <4>1. disk_pool'[t] = Append(disk_pool[t], x)
          BY <1>1, <2>3, <3>1 DEF post_to_disk
        <4> QED
          BY <1>2, <1>4, <2>q, <2>r, <3>1, <4>1
      <3>2. CASE ThreadOf(x.fd) # t
        <4>1. disk_pool'[t] = disk_pool[t]
          BY <1>1, <2>3, <3>2 DEF post_to_disk
        <4> QED
          BY <1>4, <2>r, <4>1
      <3> QED
        BY <3>1, <3>2
    <2> QED
      BY <2>1, <2>2, <2>3 DEF DiskMoves
  <1> QED
    BY <1>3, <1>4 DEF Routed

\* No command line posts to the disk threads.
LEMMA ReadLeavesDisk ==
  ASSUME NEW t, SessionRead(t)
  PROVE  disk_pool' = disk_pool
  <1>1. ASSUME NEW fd, NEW s, NEW code, Answer(fd, s, code) PROVE disk_pool' = disk_pool
    BY <1>1 DEF Answer
  <1>2. ASSUME NEW fd, NEW s, AwaitData(fd, s) PROVE disk_pool' = disk_pool
    BY <1>2 DEF AwaitData
  <1>3. ASSUME NEW fd, NEW s, NEW c, run_fsm_command(fd, s, c) PROVE disk_pool' = disk_pool
    <2>1. CASE com_USER(fd, s, c)
      BY <1>1, <2>1 DEF com_USER
    <2>2. CASE com_PASS(fd, s, c)
      BY <1>1, <2>2 DEF com_PASS
    <2>3. CASE com_PASV(fd, s)
      BY <1>1, <2>3 DEF com_PASV
    <2>4. CASE com_LIST(fd, s) \/ com_APPE(fd, s, c)
      BY <1>1, <1>2, <2>4 DEF com_LIST, com_APPE
    <2>5. CASE com_STOR(fd, s, c) \/ com_RETR(fd, s, c)
      BY <1>1, <1>2, <2>5 DEF com_STOR, com_RETR
    <2>6. CASE com_TYPE(fd, s) \/ com_CWD(fd, s) \/ com_SIZE(fd, s, c) \/ com_REST(fd, s, c)
      BY <1>1, <2>6 DEF com_TYPE, com_CWD, com_SIZE, com_REST
    <2>7. CASE com_PWD(fd, s) \/ com_SYST(fd, s) \/ com_FEAT(fd, s) \/ com_BAD(fd, s)
      BY <1>1, <2>7 DEF com_PWD, com_SYST, com_FEAT, com_BAD
    <2> QED
      BY <1>3, <2>1, <2>2, <2>3, <2>4, <2>5, <2>6, <2>7 DEF run_fsm_command
  <1> QED
    BY <1>3 DEF SessionRead

\* A session thread takes a task, and may post one to the disk threads.
LEMMA SessionMovesOn ==
  ASSUME Orderly, NEW t \in SessionThreads, SessionThread(t)
  PROVE  SessionMoves /\ DiskMoves
  <1>h. PICK h : h = Head(session_pool[t])
    OBVIOUS
  <1>1. SessionStep(t) /\ IInv /\ fault = "none"
    BY DEF SessionThread, Orderly
  <1>2. ASSUME NEW action, SessionTake(t, action) PROVE SessionMoves
    BY <1>2 DEF SessionTake, SessionMoves
  <1>3. CASE SessionAccept(t)
    BY <1>2, <1>3 DEF SessionAccept, DiskMoves
  <1>4. CASE SessionPasv(t)
    BY <1>2, <1>4 DEF SessionPasv, ForSession, run_pasv, Answer, DiskMoves
  <1>5. CASE SessionDataAccept(t)
    <2>1. SessionMoves
      BY <1>2, <1>5 DEF SessionDataAccept, ForSession
    <2>2. DiskMoves
      BY <1>5 DEF SessionDataAccept, run_list_load, run_stor_load, run_retr_load, DiskMoves
    <2> QED
      BY <2>1, <2>2
  <1>6. CASE SessionStorStart(t)
    BY <1>2, <1>6 DEF SessionStorStart, ForSession, run_stor_start, Answer, DiskMoves
  <1>7. CASE SessionTransOk(t)
    BY <1>2, <1>7 DEF SessionTransOk, ForSession, run_transfer_ok, DiskMoves
  <1>8. CASE SessionRead(t)
    <2>1. SessionMoves
      BY <1>2, <1>8 DEF SessionRead, ForSession
    <2>2. DiskMoves
      BY <1>8, ReadLeavesDisk DEF DiskMoves
    <2> QED
      BY <2>1, <2>2
  <1>9. CASE SessionDropped(t)
    BY <1>2, <1>9 DEF SessionDropped, DiskMoves
  <1> QED
    BY <1>1, <1>3, <1>4, <1>5, <1>6, <1>7, <1>8, <1>9 DEF SessionStep

\* A disk thread takes a task, and may post one to the session threads.
LEMMA DiskMovesOn ==
  ASSUME NEW t \in DiskThreads, DiskThread(t)
  PROVE  SessionMoves /\ DiskMoves
  <1>1. DiskStep(t)
    BY DEF DiskThread
  <1>2. ASSUME NEW action, DiskTake(t, action) PROVE DiskMoves
    BY <1>2 DEF DiskTake, DiskMoves
  <1>3. DiskMoves
    BY <1>1, <1>2 DEF DiskStep, DiskIndexStart, DiskStorStart, DiskRetrStart, DiskRetrStartFails,
       ForDisk, DiskIndexLoading, DiskRetrLoading, DiskRetrLoadingFails, DiskDownloadDone,
       DiskWriteDoneIgnored, DiskStoring, DiskStoringFails, DiskStorOk, DiskStorOkFails,
       DiskMissing
  <1>4. SessionMoves
    BY <1>1 DEF DiskStep, DiskIndexStart, DiskStorStart, DiskRetrStart, DiskRetrStartFails,
       DiskIndexLoading, DiskRetrLoading, DiskRetrLoadingFails, DiskDownloadDone,
       DiskWriteDoneIgnored, DiskStoring, DiskStoringFails, DiskStorOk, DiskStorOkFails,
       DiskMissing, TransOk, SessionMoves
  <1> QED
    BY <1>3, <1>4

\* The reactor posts at most one task to each side.
LEMMA ReactorMovesOn ==
  ASSUME Reactor
  PROVE  SessionMoves /\ DiskMoves
  <1>1. ReactorStep
    BY DEF Reactor
  <1>2. ASSUME NEW x, post_to_session(x) PROVE SessionMoves
    BY <1>2 DEF SessionMoves
  <1>3. ASSUME NEW x, post_to_disk(x) PROVE DiskMoves
    BY <1>3 DEF DiskMoves
  <1>4. ASSUME session_pool' = session_pool PROVE SessionMoves
    BY <1>4 DEF SessionMoves
  <1>5. ASSUME disk_pool' = disk_pool PROVE DiskMoves
    BY <1>5 DEF DiskMoves
  <1>6. CASE Poll
    BY <1>4, <1>5, <1>6 DEF Poll, poolVars
  <1>7. CASE NotifyStep
    BY <1>2, <1>4, <1>5, <1>7 DEF NotifyStep, on_notify_null, on_notify_ctrl_write,
       on_notify_trans_ok, on_notify_pasv, on_notify_data_write
  <1>8. ASSUME NEW f \in Fds, CtrlStep(f) PROVE SessionMoves /\ DiskMoves
    BY <1>2, <1>4, <1>5, <1>8 DEF CtrlStep, on_accept, on_read_lines, on_read_gone, on_write,
       on_write_error, Signal, poolVars
  <1>9. ASSUME NEW f \in Fds, DataStep(f) PROVE SessionMoves
    BY <1>2, <1>4, <1>9 DEF DataStep, data_accept, data_read_data, data_read_end,
       data_read_error, data_write, data_write_part, data_write_nothing, Signal, poolVars
  <1>10. ASSUME NEW f \in Fds, DataStep(f) PROVE DiskMoves
    BY <1>3, <1>5, <1>10 DEF DataStep, data_accept, data_read_data, data_read_end,
       data_read_error, data_write, data_write_part, data_write_nothing, poolVars
  <1>11. ASSUME NEW f \in Fds, on_timeout(f) PROVE SessionMoves /\ DiskMoves
    BY <1>2, <1>5, <1>11 DEF on_timeout, Signal
  <1> QED
    BY <1>1, <1>6, <1>7, <1>8, <1>9, <1>10, <1>11 DEF ReactorStep, DispatchStep
LEMMA RoutedNext ==
  ASSUME Orderly, Next
  PROVE  Routed'
  <1>1. PoolTypeOK /\ Routed
    BY DEF Orderly, IInv, TypeOK
  <1>2. ASSUME Client PROVE SessionMoves /\ DiskMoves
    <2>1. UNCHANGED <<session_pool, disk_pool>>
      BY <1>2 DEF Client, ClientStep, ClientProgress, poolVars
    <2> QED
      BY <2>1 DEF SessionMoves, DiskMoves
  <1>3. SessionMoves /\ DiskMoves
    BY <1>2, SessionMovesOn, DiskMovesOn, ReactorMovesOn DEF Next
  <1> QED
    BY <1>1, <1>3, RoutedMoves

\* Every step of every thread and client preserves the invariant.
LEMMA OrderlyNext ==
  ASSUME Habits = {}, Timeouts = FALSE, Orderly, [Next]_vars
  PROVE  Orderly'
  <1>1. IInv'
    BY NextIInv DEF Orderly
  <1>2. CASE Next
    <2>1. Kept
      BY <1>1, <1>2, SessionKeeps, DiskKeeps, ReactorKeeps, ClientKeeps DEF Next
    <2>2. Routed'
      BY <1>2, RoutedNext
    <2> QED
      BY <1>1, <2>1, <2>2 DEF Orderly, Kept
  <1>3. CASE UNCHANGED vars
    <2>1. /\ UNCHANGED <<session_pool, disk_pool, notify_pipe, fault, sessions, disks>>
          /\ UNCHANGED <<clients, peers, data_sock, ready>>
      BY <1>3 DEF vars, poolVars, reactorVars
    <2>2. Routed' /\ SocksFresh'
      BY <2>1 DEF Orderly, Routed, SocksFresh
    <2>3. ASSUME NEW f \in Fds PROVE Apart(f)
      <3>1. TasksStay(f) /\ WorkStays(f) /\ NoticesStay(f)
        BY <2>1, TasksUnchanged, WorkUnchanged, NoticesUnchanged
      <3>2. Head(notify_pipe)' = Head(notify_pipe)
        BY <2>1
      <3> QED
        BY <2>1, <3>1, <3>2 DEF Apart
    <2>4. \A f \in Fds : Part(f)'
      BY <2>3, ApartKeeps DEF Orderly
    <2>5. PortsOwn'
      <3>1. \A f \in Fds : Connected(f)' = Connected(f) /\ Mentions(f)' = Mentions(f)
        BY <2>3, ApartNames
      <3> QED
        BY <2>1, <3>1, PortsKept DEF Orderly
    <2> QED
      BY <1>1, <2>2, <2>4, <2>5 DEF Orderly
  <1> QED
    BY <1>2, <1>3

\* At the start there is nothing.
LEMMA InitOrderly == Init => Orderly
  <1> SUFFICES ASSUME Init PROVE Orderly
    OBVIOUS
  <1>1. IInv /\ PoolTypeOK
    BY InitIInv DEF IInv, TypeOK
  <1>2. /\ session_pool = [t \in SessionThreads |-> <<>>]
        /\ disk_pool = [t \in DiskThreads |-> <<>>]
        /\ notify_pipe = <<>> /\ fault = "none" /\ ready = {}
        /\ data_sock = [p \in Ports |-> FreeSock]
    BY DEF Init, PoolInit, ReactorInit
  <1>3. \A f \in Fds : /\ sessions[f] = NULL /\ disks[f] = NULL
                       /\ clients[f] = NULL /\ peers[f] = NULL
    BY DEF Init, SessionInit, DiskInit, ReactorInit
  <1>4. Routed
    BY <1>2 DEF Routed, Elements
  <1>5. SocksFresh
    BY <1>2 DEF SocksFresh, FreeSock
  <1>6. PortsOwn
    BY <1>3 DEF PortsOwn, Connected
  <1>7. ASSUME NEW f \in Fds PROVE Part(f)
    <2>1. /\ \A a : Tasks(f, a) = 0 /\ Sent(f, a) = 0 /\ Work(f, a) = 0
          /\ MyTasks(f) = {} /\ MyNotices(f) = {}
          /\ PasvOrder(f) /\ StartOrder(f)
      <3>1. SessionQueue(f) = <<>>
        BY <1>2, ThreadOfType DEF SessionQueue
      <3>2. DiskQueue(f) = <<>>
        BY <1>2 DEF DiskQueue
      <3>3. MyTasks(f) = {} /\ MyNotices(f) = {}
        BY <1>2, <3>1 DEF MyTasks, MyNotices, Mine, Elements
      <3>4. \A a : Tasks(f, a) = 0 /\ Sent(f, a) = 0
        BY <1>1, <3>3, NoneWaiting
      <3>5. \A a : Work(f, a) = 0
        BY <3>2, NothingQueued DEF Work
      <3>6. PasvOrder(f) /\ StartOrder(f)
        BY <3>1, <3>2 DEF PasvOrder, StartOrder, NoneBehind
      <3> QED
        BY <3>3, <3>4, <3>5, <3>6
    <2>2. /\ Act(f) = "NONE" /\ DAct(f) = "NONE" /\ Serves(f) = 0 /\ ~Connected(f)
      BY <1>3 DEF Act, DAct, Serves, Connected
    <2>3. Absent(f) /\ OneCommand(f) /\ OneLine(f)
      BY <1>3, <2>1, <2>2 DEF Absent, OneCommand, OneLine
    <2>4. OneTransfer(f) /\ Permitted(f)
      BY <2>1, <2>2 DEF OneTransfer, Under, Starts, Serving, Permitted
    <2>5. KindsAgree(f)
      <3>1. /\ Work(f, "INDEX_START") = 0 /\ Work(f, "RETR_START") = 0
            /\ Work(f, "STOR_START") = 0
        BY <2>1
      <3> QED
        BY <2>2, <3>1 DEF KindsAgree, UploadStates
    <2>6. InHand(f) /\ Accepting(f) /\ Rounds(f) /\ Quiet(f) /\ OneBlock(f)
      BY <2>2 DEF InHand, Accepting, Rounds, Quiet, OneBlock
    <2>7. DiskOrder(f)
      BY <2>1, <2>2 DEF DiskOrder, DownloadStates
    <2> QED
      BY <2>3, <2>4, <2>5, <2>6, <2>7 DEF Part
  <1> QED
    BY <1>1, <1>4, <1>5, <1>6, <1>7 DEF Orderly

\* What the threads have of a client fits together, in every behaviour in
\* which clients keep the rules and none is timed out.
LEMMA OrderlyAlways ==
  ASSUME Habits = {}, Timeouts = FALSE
  PROVE  Spec => []Orderly
  <1>1. Orderly /\ [Next]_vars => Orderly'
    BY OrderlyNext
  <1> QED
    BY <1>1, InitOrderly, PTL DEF Spec
-----------------------------------------------------------------------------
(* What follows from it.                                                   *)

\* The session thread agrees with the disk thread on the kind of a transfer,
\* through every interleaving of their tasks (disk_fsm.cpp looks at disk_info
\* only, fsm_transfer.cpp at data_action only).
THEOREM PhasesAlwaysAgree ==
  ASSUME Habits = {}, Timeouts = FALSE
  PROVE  Spec => []PhasesAgree
  <1>1. ASSUME Orderly PROVE PhasesAgree
    <2>1. SUFFICES ASSUME NEW f \in Fds, disks[f] # NULL
                   PROVE  /\ sessions[f] # NULL
                          /\ disks[f].data_action \in {"DISK_INDEX_LOADING", "DISK_INDEX_FINISH"}
                               => sessions[f].data_action = "DATA_INDEX_DOWNLOAD"
                          /\ disks[f].data_action \in {"DISK_RETR_LOADING", "DISK_RETR_FINISH"}
                               => sessions[f].data_action = "DATA_FILE_DOWNLOAD"
                          /\ disks[f].data_action \in UploadStates
                               => sessions[f].data_action = "DATA_STOR"
      BY DEF PhasesAgree
    <2>2. KindsAgree(f) /\ OneTransfer(f) /\ UnderNat(f)
      BY <1>1, CountedType DEF Orderly, Part, AllCounted
    <2>3. Serves(f) = 1 /\ DAct(f) = disks[f].data_action
      BY <2>1 DEF Serves, DAct
    <2>4. Act(f) \in Serving
      BY <2>2, <2>3 DEF OneTransfer, Under, UnderNat
    <2>5. sessions[f] # NULL /\ Act(f) = sessions[f].data_action
      BY <2>4 DEF Act, Serving
    <2> QED
      BY <2>2, <2>3, <2>5 DEF KindsAgree
  <1> QED
    BY <1>1, OrderlyAlways, PTL

\* The server never says more than it was asked, however the answers of the
\* session threads, the disk threads and the reactor cross in the pipe.
THEOREM NothingIsUnsolicited ==
  ASSUME Habits = {}, Timeouts = FALSE
  PROVE  Spec => []NoUnsolicitedAnswer
  <1>1. ASSUME Orderly PROVE NoUnsolicitedAnswer
    <2>1. SUFFICES ASSUME NEW f \in Fds, Connected(f)
                   PROVE  Finals(peers[f].outq) + Finals(clients[f].write_q) + FinalNotices(f)
                            <= peers[f].wait
      BY DEF NoUnsolicitedAnswer
    <2>2. OneCommand(f) /\ OpenNat(f)
      BY <1>1, <2>1, CountedType DEF Orderly, Part, AllCounted
    <2>3. Open(f) <= peers[f].wait
      BY <2>1, <2>2 DEF OneCommand, Awaited
    <2>4. Ends(f) <= peers[f].wait
      BY <2>2, <2>3 DEF Open, OpenNat, Awaited
    <2>5. /\ Finals(peers[f].outq) \in Nat /\ Finals(clients[f].write_q) \in Nat
          /\ FinalNotices(f) \in Nat
      <3>1. IInv
        BY <1>1 DEF Orderly
      <3>2. /\ clients[f].write_q \in Seq(Reply) /\ peers[f].outq \in Seq(Reply)
        BY <2>1, <3>1 DEF IInv, TypeOK, ReactorTypeOK, ClientsWhole, Connected, TCP_client, Peer
      <3> QED
        BY <3>1, <3>2, FinalsNone, NumbersType DEF IInv, TypeOK, Numbers
    <2> QED
      BY <2>4, <2>5 DEF Ends
  <1> QED
    BY <1>1, OrderlyAlways, PTL

\* A file is only open for an account that may read or write it: nothing that
\* comes between the check of a permission (com_STOR, com_RETR) and the open
\* two threads later takes the permission away.
THEOREM TransfersArePermitted ==
  ASSUME Habits = {}, Timeouts = FALSE
  PROVE  Spec => []TransferIsPermitted
  <1>1. ASSUME Orderly PROVE TransferIsPermitted
    <2>1. SUFFICES ASSUME NEW f \in Fds, disks[f] # NULL, sessions[f] # NULL
                   PROVE  /\ disks[f].data_action \in UploadStates => sessions[f].upload_per
                          /\ disks[f].data_action \in {"DISK_RETR_LOADING", "DISK_RETR_FINISH"}
                               => sessions[f].download_per
      BY DEF TransferIsPermitted
    <2>2. KindsAgree(f) /\ Permitted(f)
      BY <1>1 DEF Orderly, Part
    <2>3. DAct(f) = disks[f].data_action
      BY <2>1 DEF DAct
    <2> QED
      BY <2>2, <2>3 DEF KindsAgree, Permitted
  <1> QED
    BY <1>1, OrderlyAlways, PTL

\* Of a download there is one block on its way while the process runs: what
\* the disk thread read is written before it reads on (data_write posts
\* WRITE_DONE, and nothing else does).
THEOREM OneBlockIsInFlight ==
  ASSUME Habits = {}, Timeouts = FALSE
  PROVE  Spec => []OneBlockInFlight
  <1>1. ASSUME Orderly PROVE OneBlockInFlight
    <2>1. SUFFICES ASSUME fault = "none", NEW f \in Fds, Connected(f)
                   PROVE  Count(notify_pipe, f, "DATA_WRITE") + Len(clients[f].data_write_q)
                              + Count(DiskQueue(f), f, "WRITE_DONE")
                            = IF disks[f] # NULL /\ disks[f].data_action \in DownloadStates
                              THEN 1 ELSE 0
      BY DEF OneBlockInFlight
    <2>2. Sent(f, "DATA_WRITE") + Len(clients[f].data_write_q) + Work(f, "WRITE_DONE")
            = IF DAct(f) \in DownloadStates THEN 1 ELSE 0
      BY <1>1, <2>1 DEF Orderly, Part, OneBlock
    <2>3. DAct(f) \in DownloadStates <=> disks[f] # NULL /\ disks[f].data_action \in DownloadStates
      BY DEF DAct, DownloadStates
    <2> QED
      BY <2>2, <2>3 DEF Sent, Work
  <1> QED
    BY <1>1, OrderlyAlways, PTL

\* No notification comes out of the pipe for a client that is gone, which
\* on_notify would read through a null pointer.
THEOREM NoNotificationForNobody ==
  ASSUME Habits = {}, Timeouts = FALSE
  PROVE  Spec => [][~on_notify_null]_vars
  <1>1. Orderly => ~on_notify_null
    BY NoNullClient
  <1>2. Orderly /\ [Next]_vars => [~on_notify_null]_vars
    BY <1>1
  <1> QED
    BY <1>2, OrderlyAlways, PTL DEF Spec

\* A disk thread's step for f leaves every open file with an owner.
LEMMA HandlesKept ==
  ASSUME NoHandleLeaks, NEW f \in Fds, \A g \in Fds : g # f => disks'[g] = disks[g],
         \A k \in Handles : open_files'[k] # NULL =>
           \/ disks'[f] # NULL /\ disks'[f].file_handle = k
           \/ open_files[k] # NULL /\ ~(disks[f] # NULL /\ disks[f].file_handle = k)
  PROVE  NoHandleLeaks'
  BY DEF NoHandleLeaks

\* A disk_info that only moves on keeps its file.
LEMMA HandleStays ==
  ASSUME DiskTypeOK, NEW f \in Fds, disks[f] # NULL, NEW action \in DiskActions,
         SetAction(f, action)
  PROVE  /\ disks'[f] # NULL /\ disks'[f].file_handle = disks[f].file_handle
         /\ \A g \in Fds : g # f => disks'[g] = disks[g]
  <1>1. disks[f] \in DiskInfo /\ f \in DOMAIN disks
    BY DEF DiskTypeOK
  <1>2. disks'[f].file_handle = disks[f].file_handle
    BY <1>1 DEF SetAction, DiskInfo
  <1> QED
    BY <1>2, ActionSet

LEMMA HandlesNext ==
  ASSUME Orderly, NoHandleLeaks, NEW t \in DiskThreads, DiskThread(t), IInv'
  PROVE  NoHandleLeaks'
  <1>h. PICK h : h = Head(disk_pool[t])
    OBVIOUS
  <1>f. PICK f : f = h.fd
    OBVIOUS
  <1>0. /\ DiskStep(t) /\ fault = "none" /\ UNCHANGED <<sessions, reactorVars>>
        /\ DiskTypeOK /\ FileTypeOK
    BY DEF DiskThread, Orderly, IInv, TypeOK
  <1>t. ASSUME NEW act, DiskTake(t, act)
        PROVE  /\ f \in Fds /\ h \in DiskTask
               /\ act \in {"INDEX_START", "RETR_START", "STOR_START"} => disks[f] = NULL
    <2>1. f \in Fds /\ h \in DiskTask /\ DiskTook(f, h, act)
      BY <1>h, <1>f, <1>0, <1>t, DiskTakes
    <2> QED
      BY <2>1, NothingServed
  <1>o. ASSUME f \in Fds, disks[f] = NULL, NEW info \in DiskInfo, add_disk(f, info),
               \A k \in Handles : open_files'[k] # NULL =>
                 info.file_handle = k \/ open_files[k] # NULL
        PROVE  NoHandleLeaks'
    <2>1. /\ disks'[f] = info /\ disks'[f] # NULL
          /\ \A g \in Fds : g # f => disks'[g] = disks[g]
      BY <1>0, <1>o, DiskAdded
    <2> QED
      BY <1>o, <2>1, HandlesKept
  <1>s. ASSUME f \in Fds, disks[f] # NULL, NEW action \in DiskActions, SetAction(f, action),
               \A k \in Handles : open_files'[k] # NULL => open_files[k] # NULL
        PROVE  NoHandleLeaks'
    <2>1. /\ disks'[f] # NULL /\ disks'[f].file_handle = disks[f].file_handle
          /\ \A g \in Fds : g # f => disks'[g] = disks[g]
      BY <1>0, <1>s, HandleStays
    <2> QED
      BY <1>s, <2>1, HandlesKept
  <1>d. ASSUME f \in Fds, disks[f] # NULL, del_disk(f),
               \A k \in Handles : open_files'[k] # NULL =>
                 open_files[k] # NULL /\ k # disks[f].file_handle
        PROVE  NoHandleLeaks'
    <2>1. \A g \in Fds : g # f => disks'[g] = disks[g]
      BY <1>0, <1>d DEF del_disk, DiskTypeOK
    <2> QED
      BY <1>d, <2>1, HandlesKept
  <1>c. ASSUME NEW k, open_files' = Closed(open_files, k)
        PROVE  \A i \in Handles : open_files'[i] # NULL => open_files[i] # NULL /\ i # k
    BY <1>c DEF Closed
  <1>1. CASE DiskIndexStart(t)
    <2>1. PICK names \in Directory :
          /\ DiskTake(t, "INDEX_START")
          /\ add_disk(f, [data_action |-> IndexAction(Unlisted(names)),
                          file_handle |-> NoHandle, cur_dir |-> Unlisted(names)])
          /\ open_files' = open_files
      BY <1>1, <1>h, <1>f DEF DiskIndexStart, fileVars
    <2>2. PICK info : info = [data_action |-> IndexAction(Unlisted(names)),
                              file_handle |-> NoHandle, cur_dir |-> Unlisted(names)]
      OBVIOUS
    <2>3. names \in Seq(Files)
      BY DiskAssumption DEF Directory
    <2>4. info \in DiskInfo
      BY <2>2, <2>3, ListingPiece DEF DiskInfo, IndexAction, DiskActions
    <2> QED
      BY <1>t, <1>o, <2>1, <2>2, <2>4
  <1>2. CASE DiskStorStart(t)
    <2>1. PICK handle : handle = IF StorOpens(h) THEN NextHandle ELSE NoHandle
      OBVIOUS
    <2>2. PICK info : info = [data_action |-> "DISK_STOR_START", file_handle |-> handle,
                              cur_dir |-> <<>>]
      OBVIOUS
    <2>3. info \in DiskInfo /\ info.file_handle = handle
      BY <2>1, <2>2, NextHandleType DEF DiskInfo, DiskActions, StorOpens, CanOpen
    <2>4. DiskTake(t, "STOR_START") /\ add_disk(f, info)
      BY <1>2, <1>h, <1>f, <2>1, <2>2 DEF DiskStorStart
    <2>5. \/ open_files' = Opened(handle, h.path, h.rest, "w")
          \/ open_files' = open_files
      BY <1>2, <1>h, <2>1 DEF DiskStorStart, fileVars
    <2>6. \A k \in Handles : open_files'[k] # NULL => handle = k \/ open_files[k] # NULL
      BY <1>0, <2>5 DEF Opened, FileTypeOK
    <2> QED
      BY <1>t, <1>o, <2>3, <2>4, <2>6
  <1>3. CASE DiskRetrStart(t)
    <2>1. PICK handle, data : handle = NextHandle /\ data = BytesAt(h.path, h.rest)
      OBVIOUS
    <2>2. PICK info : info = [data_action |-> IF data # <<>> THEN "DISK_RETR_LOADING"
                                                             ELSE "DISK_RETR_FINISH",
                              file_handle |-> handle, cur_dir |-> <<>>]
      OBVIOUS
    <2>3. handle \in Handles
      BY <1>3, <2>1, NextHandleType DEF DiskRetrStart, CanOpen
    <2>4. info \in DiskInfo /\ info.file_handle = handle
      BY <2>2, <2>3 DEF DiskInfo, DiskActions
    <2>5. DiskTake(t, "RETR_START") /\ add_disk(f, info)
      BY <1>3, <1>h, <1>f, <2>1, <2>2 DEF DiskRetrStart
    <2>6. \/ open_files' = Opened(handle, h.path, h.rest + Len(data), "r")
          \/ open_files' = open_files
      BY <1>3, <1>h, <2>1 DEF DiskRetrStart
    <2>7. \A k \in Handles : open_files'[k] # NULL => handle = k \/ open_files[k] # NULL
      BY <1>0, <2>6 DEF Opened, FileTypeOK
    <2> QED
      BY <1>t, <1>o, <2>4, <2>5, <2>7
  <1>4. CASE DiskRetrStartFails(t)
    <2>2. PICK info : info = [data_action |-> "DISK_RETR_FINISH", file_handle |-> NoHandle,
                              cur_dir |-> <<>>]
      OBVIOUS
    <2>3. info \in DiskInfo
      BY <2>2 DEF DiskInfo, DiskActions
    <2>4. DiskTake(t, "RETR_START") /\ add_disk(f, info) /\ open_files' = open_files
      BY <1>4, <1>h, <1>f, <2>2 DEF DiskRetrStartFails, fileVars
    <2> QED
      BY <1>t, <1>o, <2>3, <2>4
  <1>5. CASE DiskIndexLoading(t)
    <2>1. /\ f \in Fds /\ disks[f] # NULL /\ open_files' = open_files
          /\ disks' = [disks EXCEPT
               ![f].data_action = IndexAction(Unlisted(disks[f].cur_dir)),
               ![f].cur_dir = Unlisted(disks[f].cur_dir)]
      BY <1>5, <1>t, <1>h, <1>f DEF DiskIndexLoading, ForDisk, fileVars
    <2>2. /\ disks[f] \in DiskInfo /\ \A g \in Fds : g # f => disks'[g] = disks[g]
      BY <1>0, <2>1 DEF DiskTypeOK
    <2>3. disks'[f].file_handle = disks[f].file_handle
      BY <1>0, <2>1, <2>2 DEF DiskTypeOK, DiskInfo
    <2>4. disks'[f] # NULL
      <3>1. disks'[f] = [disks[f] EXCEPT !.data_action = IndexAction(Unlisted(disks[f].cur_dir)),
                                         !.cur_dir = Unlisted(disks[f].cur_dir)]
        BY <1>0, <2>1 DEF DiskTypeOK
      <3>2. PICK rest : rest = Unlisted(disks[f].cur_dir)
        OBVIOUS
      <3>3. rest \in Seq(Files) /\ IndexAction(rest) \in DiskActions
        BY <2>2, <3>2, ListingPiece DEF DiskInfo, IndexAction, DiskActions
      <3>4. disks'[f] \in DiskInfo
        BY <2>2, <3>1, <3>2, <3>3 DEF DiskInfo
      <3> QED
        BY <3>4, DiskNullAssumption
    <2> QED
      BY <2>1, <2>2, <2>3, <2>4, HandlesKept
  <1>6. CASE DiskRetrLoading(t)
    <2>1. f \in Fds /\ disks[f] # NULL
      BY <1>6, <1>t, <1>h, <1>f DEF DiskRetrLoading, ForDisk
    <2>2. PICK k, n : k = disks[f].file_handle /\
            n = Len(BytesAt(open_files[k].path, open_files[k].pos))
      OBVIOUS
    <2>3. Usable(k, "r")
      BY <1>6, <1>h, <1>f, <2>2 DEF DiskRetrLoading
    <2>4. CASE open_files' = [open_files EXCEPT ![k].pos = @ + n] /\ disks' = disks
      <3>1. \A i \in Handles : open_files'[i] # NULL => open_files[i] # NULL
        BY <1>0, <2>3, <2>4 DEF Usable, FileTypeOK
      <3> QED
        BY <2>4, <3>1 DEF NoHandleLeaks
    <2>5. CASE open_files' = Closed(open_files, k) /\ SetAction(f, "DISK_RETR_FINISH")
      BY <1>c, <1>s, <2>1, <2>5 DEF DiskActions
    <2> QED
      BY <1>6, <1>h, <1>f, <2>2, <2>4, <2>5 DEF DiskRetrLoading
  <1>7. CASE DiskRetrLoadingFails(t)
    <2>1. /\ f \in Fds /\ disks[f] # NULL /\ SetAction(f, "DISK_RETR_FINISH")
          /\ open_files' = Closed(open_files, disks[f].file_handle)
      BY <1>7, <1>t, <1>h, <1>f DEF DiskRetrLoadingFails, ForDisk
    <2> QED
      BY <1>c, <1>s, <2>1 DEF DiskActions
  <1>8. CASE DiskDownloadDone(t)
    <2>1. /\ f \in Fds /\ disks[f] # NULL /\ del_disk(f)
          /\ open_files' = Closed(open_files, disks[f].file_handle)
      BY <1>8, <1>t, <1>h, <1>f DEF DiskDownloadDone, ForDisk
    <2> QED
      BY <1>c, <1>d, <2>1
  <1>9. CASE DiskWriteDoneIgnored(t) \/ DiskMissing(t)
    <2>1. disks' = disks /\ open_files' = open_files
      BY <1>9 DEF DiskWriteDoneIgnored, DiskMissing, fileVars
    <2> QED
      BY <2>1 DEF NoHandleLeaks
  <1>10. CASE DiskStoring(t)
    <2>1. /\ f \in Fds /\ disks[f] # NULL /\ SetAction(f, "DISK_STOR_DONE")
          /\ Usable(disks[f].file_handle, "w")
          /\ open_files' = [open_files EXCEPT ![disks[f].file_handle].pos = @ + Len(h.data)]
      BY <1>10, <1>t, <1>h, <1>f DEF DiskStoring, ForDisk
    <2>2. \A i \in Handles : open_files'[i] # NULL => open_files[i] # NULL
      BY <1>0, <2>1 DEF Usable, FileTypeOK
    <2> QED
      BY <1>s, <2>1, <2>2 DEF DiskActions
  <1>11. CASE DiskStoringFails(t)
    <2>1. /\ f \in Fds /\ disks[f] # NULL /\ SetAction(f, "DISK_STORING")
          /\ open_files' = open_files
      BY <1>11, <1>t, <1>h, <1>f DEF DiskStoringFails, ForDisk, fileVars
    <2> QED
      BY <1>s, <2>1 DEF DiskActions
  <1>12. CASE DiskStorOk(t)
    <2>1. /\ f \in Fds /\ disks[f] # NULL /\ del_disk(f)
          /\ open_files' = Closed(open_files, disks[f].file_handle)
      BY <1>12, <1>t, <1>h, <1>f DEF DiskStorOk, ForDisk
    <2> QED
      BY <1>c, <1>d, <2>1
  <1>13. CASE DiskStorOkFails(t)
    <2>1. /\ f \in Fds /\ disks[f] # NULL /\ SetAction(f, "DISK_STORING")
          /\ open_files' = Closed(open_files, disks[f].file_handle)
      BY <1>13, <1>t, <1>h, <1>f DEF DiskStorOkFails, ForDisk
    <2> QED
      BY <1>c, <1>s, <2>1 DEF DiskActions
  <1> QED
    BY <1>0, <1>1, <1>2, <1>3, <1>4, <1>5, <1>6, <1>7, <1>8, <1>9, <1>10, <1>11, <1>12, <1>13
    DEF DiskStep

\* Every file that is open belongs to a disk_info, whose destructor closes it
\* at the latest: no order of the tasks of a transfer, and no failure of a
\* write, leaves a descriptor nobody will close.
THEOREM NoHandleIsLeaked ==
  ASSUME Habits = {}, Timeouts = FALSE
  PROVE  Spec => []NoHandleLeaks
  <1>1. Init => NoHandleLeaks
    BY DEF Init, FileInit, NoHandleLeaks
  <1>2. Orderly /\ Orderly' /\ NoHandleLeaks /\ [Next]_vars => NoHandleLeaks'
    <2> SUFFICES ASSUME Orderly, Orderly', NoHandleLeaks, [Next]_vars PROVE NoHandleLeaks'
      OBVIOUS
    <2>1. ASSUME NEW t \in DiskThreads, DiskThread(t) PROVE NoHandleLeaks'
      BY <2>1, HandlesNext DEF Orderly
    <2>2. ASSUME UNCHANGED <<open_files, disks>> PROVE NoHandleLeaks'
      BY <2>2 DEF NoHandleLeaks
    <2>3. ASSUME NEW t \in SessionThreads, SessionThread(t)
          PROVE  UNCHANGED <<open_files, disks>>
      BY <2>3 DEF SessionThread, SessionStep, fileVars
    <2>4. ASSUME Reactor \/ Client \/ UNCHANGED vars PROVE UNCHANGED <<open_files, disks>>
      BY <2>4 DEF Reactor, Client, vars, fileVars
    <2> QED
      BY <2>1, <2>2, <2>3, <2>4 DEF Next
  <1> QED
    BY <1>1, <1>2, OrderlyAlways, PTL DEF Spec
=============================================================================
