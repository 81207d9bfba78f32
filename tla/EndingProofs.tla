----------------------------- MODULE EndingProofs -----------------------------
(***************************************************************************)
(* The steps of the clients keep what AnswerProofs says of every client,   *)
(* every step keeps the answers of a transfer and the tasks of an upload   *)
(* in order, and what follows for all behaviours: MarkBefore226 and        *)
(* CleanAfter226.                                                          *)
(***************************************************************************)
EXTENDS AnswerProofs

-----------------------------------------------------------------------------
(* Steps of the clients.                                                   *)

\* What a client does is nothing to the others.
LEMMA SpokenFits ==
  ASSUME Orderly, AllFit, NEW f, Spoken(f),
         \A q \in Ports : q \notin Mentions(f) => data_sock'[q] = data_sock[q],
         Fits(f)'
  PROVE  AllFit'
  <1>1. /\ f \in Fds /\ Connected(f) /\ fault = "none" /\ UNCHANGED <<sessions, disks>>
        /\ RoundFor(f) /\ Head(notify_pipe)' = Head(notify_pipe)
        /\ \A g \in Fds : g # f => clients'[g] = clients[g] /\ peers'[g] = peers[g]
    BY DEF Spoken, RoundFor
  <1>2. \A g \in Fds : TasksStay(g) /\ WorkStays(g) /\ NoticesStay(g)
    BY SpokenSame
  <1> QED
    BY <1>1, <1>2, CallbackFits

\* What the server says stays, but for what the client takes.
LEMMA SpokenSaid ==
  ASSUME NEW f, Spoken(f)
  PROVE  /\ \A x : Coming(f, x)' <=> Coming(f, x)
         /\ \A a : Tasks(f, a)' = Tasks(f, a) /\ Work(f, a)' = Work(f, a)
         /\ Act(f)' = Act(f) /\ DAct(f)' = DAct(f) /\ Accepts(f)' = Accepts(f)
         /\ clients'[f] = clients[f] /\ Held(f)' = Held(f)
  <1>1. /\ MyNotices(f)' = MyNotices(f)
        /\ \A a : Tasks(f, a)' = Tasks(f, a) /\ Work(f, a)' = Work(f, a)
        /\ Act(f)' = Act(f) /\ DAct(f)' = DAct(f) /\ Accepts(f)' = Accepts(f)
    BY SpokenSame
  <1>2. f \in Fds /\ clients'[f] = clients[f]
    BY DEF Spoken
  <1>3. \A x : Coming(f, x)' <=> Coming(f, x)
    BY <1>1, <1>2, ComingStays
  <1> QED
    BY <1>1, <1>2, <1>3 DEF Held

\* A client without a 150 has nothing begun.
LEMMA UnmarkedFits ==
  ASSUME NEW f, Spoken(f), ~Marked(f)', ~Said(f, 226)',
         Tasks(f, "STOR_START") = 0, Tasks(f, "TRANS_OK") = 0,
         Act(f) \notin {"DATA_INDEX_DOWNLOAD", "DATA_FILE_DOWNLOAD"},
         DAct(f) \notin UploadStates, clients[f].file_buffer = <<>>,
         clients[f].data_fd # NULL => data_sock'[clients[f].data_fd].inq = <<>>,
         Calls(f)' => data_sock'[clients[f].ev_data_accept].inq = <<>>,
         Upload(f)' => Dial(f)'.inq = <<>> /\ Dial(f)'.peer # "fin"
  PROVE  Fits(f)'
  <1>1. /\ Tasks(f, "STOR_START")' = 0 /\ Tasks(f, "TRANS_OK")' = 0
        /\ Act(f)' = Act(f) /\ DAct(f)' = DAct(f) /\ clients'[f] = clients[f]
    BY SpokenSaid
  <1>2. ~Begun(f)'
    BY <1>1 DEF Begun
  <1>3. MarksFit(f)'
    BY <1>1, <1>2 DEF MarksFit
  <1>4. BytesFit(f)'
    BY <1>1, <1>2 DEF BytesFit
  <1>5. ~Ending(f)' /\ ~Over(f)' /\ ~Given(f, 226)'
    BY <1>1 DEF Ending, Over, Said
  <1>6. EndsFit(f)'
    BY <1>5 DEF EndsFit
  <1> QED
    BY <1>3, <1>4, <1>6 DEF Fits

\* A client sends its next command.
LEMMA SendFits ==
  ASSUME Orderly, AllFit, Habits = {}, NEW f \in Fds, fault = "none", ClientSend(f),
         IInv', UNCHANGED <<poolVars, clients, ready, sessions, disks>>
  PROVE  AllFit'
  <1>o. PICK old : old = peers[f]
    OBVIOUS
  <1>c. PICK c : c = Head(old.todo)
    OBVIOUS
  <1>m. PICK me : me = [old EXCEPT !.inq = Append(@, c), !.todo = Tail(@), !.wait = @ + 1,
                            !.xfer = IF c.verb \in Transfers THEN c ELSE @,
                            !.started = IF c.verb \in Transfers THEN FALSE ELSE @,
                            !.left = IF c.verb \in Uploads THEN c.payload ELSE @]
    OBVIOUS
  <1>1. /\ Alive(f) /\ old.wait = 0
        /\ c.verb \in Transfers => old.port # NULL
        /\ peers' = [peers EXCEPT ![f] = me] /\ data_sock' = data_sock
    BY <1>o, <1>c, <1>m DEF ClientSend, SetPeer
  <1>2. Connected(f) /\ old \in Peer /\ IInv
    BY <1>1, <1>o DEF Orderly, IInv, TypeOK, ReactorTypeOK, Part, Absent, Alive
  <1>3. peers'[f] = me /\ \A g \in Fds : g # f => peers'[g] = peers[g]
    BY <1>1, <1>2, PeerSet
  <1>4. Spoken(f)
    BY <1>2, <1>3 DEF Spoken, poolVars, Connected
  <1>5. /\ me.outq = old.outq /\ me.port = old.port
        /\ me.xfer = (IF c.verb \in Transfers THEN c ELSE old.xfer)
        /\ me.started = (IF c.verb \in Transfers THEN FALSE ELSE old.started)
    BY <1>2, <1>m DEF Peer
  <1>6. Ends(f) = 0 /\ peers[f].xfer = NULL
    BY <1>1, <1>2, <1>o, NothingOpen DEF Awaited
  <1>7. Facts(f) /\ Fits(f)
    BY FactsNow DEF AllFacts, AllFit
  <1>8. MarksFit(f) /\ BytesFit(f) /\ OwnSocket(f) /\ ~Said(f, 226)
    BY <1>2, <1>6, <1>7, FitsNow
  <1>9. ~Begun(f) /\ ~Upload(f)
    BY <1>6, <1>8 DEF MarksFit, Upload
  <1>10. /\ Tasks(f, "STOR_START") = 0 /\ Tasks(f, "TRANS_OK") = 0
         /\ Act(f) \notin {"DATA_INDEX_DOWNLOAD", "DATA_FILE_DOWNLOAD"}
         /\ DAct(f) \notin UploadStates /\ clients[f].file_buffer = <<>> /\ ~Marked(f)
    BY <1>2, <1>7, <1>9, NotBegun
  <1>11. \A x : Said(f, x)' <=> Said(f, x)
    <2>1. /\ \A x : Coming(f, x)' <=> Coming(f, x)
          /\ clients'[f] = clients[f]
      BY <1>4, SpokenSaid
    <2>2. Replies(f)' = Replies(f)
      BY <1>3, <1>5, <1>o, <2>1 DEF Replies
    <2>3. \A x : Given(f, x)' <=> Given(f, x)
      BY <2>2 DEF Given
    <2> QED
      BY <2>1, <2>3 DEF Said
  <1>12. ~Marked(f)'
    <2>1. ~Said(f, 150)'
      BY <1>10, <1>11 DEF Marked
    <2>2. me.xfer = NULL \/ ~me.started
      BY <1>5, <1>6, <1>o
    <2> QED
      BY <1>3, <2>1, <2>2 DEF Marked
  <1>13. Upload(f)' => Dial(f)'.inq = <<>> /\ Dial(f)'.peer # "fin"
    <2>1. Upload(f)' => me.xfer # NULL
      BY <1>3 DEF Upload
    <2>2. me.xfer # NULL => old.port # NULL
      BY <1>1, <1>5, <1>6, <1>o
    <2>3. old.port # NULL => Dial(f).inq = <<>> /\ Dial(f).peer = "none"
      BY <1>6, <1>8, <1>o DEF OwnSocket
    <2>4. Dial(f)' = Dial(f)
      BY <1>1, <1>3, <1>5, <1>o DEF Dial
    <2> QED
      BY <2>1, <2>2, <2>3, <2>4
  <1>14. /\ clients[f].data_fd # NULL => data_sock'[clients[f].data_fd].inq = <<>>
         /\ Calls(f)' => data_sock'[clients[f].ev_data_accept].inq = <<>>
    BY <1>1, <1>4, <1>8, <1>9 DEF BytesFit, Calls, Spoken
  <1>15. Fits(f)'
    BY <1>4, <1>8, <1>10, <1>11, <1>12, <1>13, <1>14, UnmarkedFits
  <1> QED
    BY <1>1, <1>4, <1>15, SpokenFits

\* A client connects: nothing is begun, and nothing sent.
LEMMA ConnectFits ==
  ASSUME Orderly, AllFit, Habits = {}, NEW f \in Fds, fault = "none", ClientConnect(f),
         UNCHANGED <<poolVars, clients, ready, sessions, disks>>
  PROVE  AllFit'
  <1>p. PICK p : p = peers[f].port
    OBVIOUS
  <1>1. /\ Alive(f) /\ p # NULL /\ peers[f].xfer # NULL
        /\ data_sock[p].st = "listening" /\ data_sock[p].peer = "none" /\ peers' = peers
        /\ data_sock' = [data_sock EXCEPT ![p].st = "connecting", ![p].peer = "open"]
    BY <1>p DEF ClientConnect, Dial
  <1>2. Spoken(f) /\ peers'[f] = peers[f]
    BY <1>1, Silent
  <1>3. Connected(f) /\ clients'[f] = clients[f]
    BY <1>2 DEF Spoken
  <1>4. /\ p \in Ports /\ p \in Mentions(f) /\ data_sock[p] \in DataSock
        /\ ReactorTypeOK /\ SocksFresh /\ IInv
    BY <1>1, <1>3, <1>p, OwnPort DEF Orderly, IInv, TypeOK
  <1>5. /\ data_sock'[p].peer = "open" /\ data_sock'[p].inq = <<>>
        /\ \A q \in Ports : q # p => data_sock'[q] = data_sock[q]
        /\ \A q \in Ports : data_sock'[q].inq = data_sock[q].inq
    BY <1>1, <1>4 DEF ReactorTypeOK, DataSock, SocksFresh
  <1>6. Facts(f) /\ Fits(f)
    BY FactsNow DEF AllFacts, AllFit
  <1>7. MarksFit(f) /\ BytesFit(f)
    BY <1>3, <1>6, FitsNow
  <1>8. ~Begun(f)
    BY <1>1, <1>7, <1>p DEF MarksFit, Early, Dial
  <1>9. /\ Tasks(f, "STOR_START") = 0 /\ Tasks(f, "TRANS_OK") = 0
        /\ Act(f) \notin {"DATA_INDEX_DOWNLOAD", "DATA_FILE_DOWNLOAD"}
        /\ DAct(f) \notin UploadStates /\ clients[f].file_buffer = <<>> /\ ~Marked(f)
        /\ ~Said(f, 226)
    BY <1>3, <1>6, <1>8, NotBegun
  <1>10. \A x : Said(f, x)' <=> Said(f, x)
    <2>1. \A x : Coming(f, x)' <=> Coming(f, x)
      BY <1>2, SpokenSaid
    <2>2. Replies(f)' = Replies(f)
      BY <1>2, <1>3 DEF Replies
    <2>3. \A x : Given(f, x)' <=> Given(f, x)
      BY <2>2 DEF Given
    <2> QED
      BY <2>1, <2>3 DEF Said
  <1>11. ~Marked(f)' /\ ~Said(f, 226)'
    BY <1>2, <1>9, <1>10 DEF Marked
  <1>12. Dial(f)'.inq = <<>> /\ Dial(f)'.peer # "fin"
    BY <1>2, <1>5, <1>p DEF Dial
  <1>13. clients[f].data_fd # NULL => data_sock'[clients[f].data_fd].inq = <<>>
    <2>1. clients[f].data_fd \in Ports \cup {NULL}
      BY <1>3, <1>4, PortsTyped
    <2>2. clients[f].data_fd # NULL /\ data_sock[clients[f].data_fd].inq # <<>>
            => Upload(f) /\ clients[f].data_fd = p
      BY <1>7, <1>p DEF BytesFit
    <2> QED
      BY <1>5, <2>1, <2>2
  <1>14. Calls(f)' => data_sock'[clients[f].ev_data_accept].inq = <<>>
    <2>1. clients[f].ev_data_accept \in Ports \cup {NULL}
      BY <1>3, <1>4, PortsTyped
    <2>2. CASE clients[f].ev_data_accept = p
      BY <1>5, <2>2
    <2>3. CASE clients[f].ev_data_accept # p
      <3>1. Calls(f)' => Calls(f)
        BY <1>3, <1>5, <2>1, <2>3 DEF Calls
      <3>2. Calls(f) => data_sock[clients[f].ev_data_accept].inq = <<>>
        BY <1>7 DEF BytesFit
      <3> QED
        BY <1>5, <2>1, <3>1, <3>2 DEF Calls
    <2> QED
      BY <2>2, <2>3
  <1>15. Fits(f)'
    BY <1>2, <1>9, <1>11, <1>12, <1>13, <1>14, UnmarkedFits
  <1>16. \A q \in Ports : q \notin Mentions(f) => data_sock'[q] = data_sock[q]
    BY <1>4, <1>5
  <1> QED
    BY <1>2, <1>15, <1>16, SpokenFits

\* A client works at the connection of an upload that has its 150.
LEMMA SendsFits ==
  ASSUME Orderly, AllFit, Habits = {}, NEW f \in Fds, fault = "none",
         UNCHANGED <<poolVars, clients, ready, sessions, disks>>, Uploading(f),
         NEW me \in Peer, peers' = [peers EXCEPT ![f] = me],
         me.outq = peers[f].outq, me.port = peers[f].port, me.xfer = peers[f].xfer,
         me.started = peers[f].started,
         NEW k, data_sock' = [data_sock EXCEPT ![peers[f].port] = k],
         k.st = data_sock[peers[f].port].st, k.peer \in {"open", "fin"}
  PROVE  AllFit'
  <1>p. PICK p : p = peers[f].port
    OBVIOUS
  <1>1. /\ Alive(f) /\ Upload(f) /\ peers[f].xfer # NULL /\ peers[f].started
    BY DEF Uploading, Upload
  <1>2. Spoken(f) /\ peers'[f] = me
    BY <1>1, Speaks
  <1>3. Connected(f) /\ Connected(f)' /\ clients'[f] = clients[f]
    BY <1>2 DEF Spoken
  <1>4. p \in Ports /\ p \in Mentions(f) /\ p # NULL /\ ReactorTypeOK /\ IInv
    BY <1>1, <1>3, <1>p, OwnPort DEF Orderly, IInv, TypeOK
  <1>5. data_sock' = [data_sock EXCEPT ![p] = k]
    BY <1>p
  <1>6. /\ data_sock'[p].st = data_sock[p].st /\ data_sock'[p].peer \in {"open", "fin"}
        /\ \A q \in Ports : q # p => data_sock'[q] = data_sock[q]
    <2>1. data_sock'[p] = k /\ \A q \in Ports : q # p => data_sock'[q] = data_sock[q]
      BY <1>4, <1>5, SockSet
    <2>2. k.st = data_sock[p].st
      BY <1>p
    <2> QED
      BY <2>1, <2>2
  <1>7. Facts(f) /\ Fits(f)
    BY FactsNow DEF AllFacts, AllFit
  <1>8. MarksFit(f) /\ BytesFit(f) /\ EndsFit(f)
    BY <1>3, <1>7, FitsNow
  <1>9. Marked(f) /\ Begun(f)
    BY <1>1 DEF Marked, Begun
  <1>10. /\ \A x : Coming(f, x)' <=> Coming(f, x)
         /\ \A a : Tasks(f, a)' = Tasks(f, a) /\ Work(f, a)' = Work(f, a)
         /\ Act(f)' = Act(f) /\ DAct(f)' = DAct(f) /\ Accepts(f)' = Accepts(f)
         /\ Held(f)' = Held(f)
    BY <1>2, SpokenSaid
  <1>11. \A x : Given(f, x)' <=> Given(f, x)
    <2>1. Replies(f)' = Replies(f)
      BY <1>2, <1>3 DEF Replies
    <2> QED
      BY <2>1 DEF Given
  <1>12. \A x : Said(f, x)' <=> Said(f, x)
    BY <1>10, <1>11 DEF Said
  <1>13. Marked(f)' /\ Begun(f)' /\ Upload(f)'
    BY <1>1, <1>2 DEF Marked, Begun, Upload
  <1>14. ~Calls(f)'
    <2>1. clients[f].ev_data_accept \in Ports \cup {NULL}
      BY <1>3, <1>4, PortsTyped
    <2>2. ~Calls(f)
      BY <1>8, <1>9 DEF MarksFit, Early
    <2> QED
      BY <1>3, <1>6, <2>1, <2>2 DEF Calls
  <1>15. ~Early(f)'
    <2>1. Dial(f)'.peer # "none"
      BY <1>2, <1>6, <1>p DEF Dial
    <2>2. ~(Accepts(f)' > 0) /\ ~(Work(f, "STOR_START")' > 0)
      BY <1>8, <1>9, <1>10 DEF MarksFit, Early
    <2> QED
      BY <1>14, <2>1, <2>2 DEF Early
  <1>16. MarksFit(f)'
    BY <1>2, <1>3, <1>8, <1>9, <1>10, <1>12, <1>13, <1>15 DEF MarksFit
  <1>17. BytesFit(f)'
    <2>1. clients[f].data_fd \in {p, NULL}
      BY <1>8, <1>9, <1>p DEF MarksFit
    <2>2. /\ Work(f, "STOR_OK")' <= 1 /\ (clients'[f].data_fd # NULL => Work(f, "STOR_OK")' = 0)
      BY <1>1, <1>3, <1>8, <1>9, <1>10 DEF BytesFit
    <2>3. peers'[f].started /\ peers'[f].port = p
      BY <1>1, <1>2, <1>p
    <2>4. clients'[f].file_buffer # <<>> => clients'[f].data_fd = p
      BY <1>3, <1>8, <1>p DEF BytesFit
    <2> QED
      BY <1>3, <1>13, <1>14, <2>1, <2>2, <2>3, <2>4 DEF BytesFit
  <1>18. EndsFit(f)'
    <2>1. (Ending(f)' => Ending(f)) /\ (Over(f)' => Over(f))
      BY <1>1, <1>10, <1>12 DEF Ending, Over
    <2> QED
      BY <1>1, <1>2, <1>3, <1>8, <1>10, <1>11, <2>1 DEF EndsFit
  <1>19. Fits(f)'
    BY <1>16, <1>17, <1>18 DEF Fits
  <1>20. \A q \in Ports : q \notin Mentions(f) => data_sock'[q] = data_sock[q]
    BY <1>4, <1>6
  <1> QED
    BY <1>2, <1>19, <1>20, SpokenFits

LEMMA ClientUploadFits ==
  ASSUME Orderly, AllFit, Habits = {}, NEW f \in Fds, fault = "none",
         UNCHANGED <<poolVars, clients, ready, sessions, disks>>,
         ClientUpload(f) \/ ClientUploadEnd(f)
  PROVE  AllFit'
  <1>p. PICK p : p = peers[f].port
    OBVIOUS
  <1>1. Uploading(f) /\ Alive(f) /\ peers[f].xfer # NULL
    BY DEF ClientUpload, ClientUploadEnd, Uploading
  <1>2. Connected(f) /\ ReactorTypeOK /\ peers[f] \in Peer
    BY <1>1 DEF Orderly, IInv, TypeOK, ReactorTypeOK, Part, Absent, Alive
  <1>3. p \in Ports /\ data_sock[p] \in DataSock /\ data_sock[p].peer = "open"
    BY <1>1, <1>2, <1>p, OwnPort DEF Uploading, Dial
  <1>4. CASE ClientUpload(f)
    <2>m. PICK me : me = [peers[f] EXCEPT !.left = Tail(@)]
      OBVIOUS
    <2>k. PICK k : k = [data_sock[p] EXCEPT !.inq = Append(@, Head(peers[f].left))]
      OBVIOUS
    <2>1. peers' = [peers EXCEPT ![f] = me] /\ data_sock' = [data_sock EXCEPT ![p] = k]
      BY <1>4, <1>p, <2>m, <2>k DEF ClientUpload, SetPeer
    <2>2. Tail(peers[f].left) \in Block
      BY <1>2, <1>4, HeadTailProperties DEF ClientUpload, Peer, Block
    <2>3. /\ me \in Peer /\ me.outq = peers[f].outq /\ me.port = peers[f].port
          /\ me.xfer = peers[f].xfer /\ me.started = peers[f].started
      BY <1>2, <2>m, <2>2 DEF Peer
    <2>4. k.st = data_sock[p].st /\ k.peer = "open"
      BY <1>3, <2>k DEF DataSock
    <2> QED
      BY <1>1, <1>p, <2>1, <2>3, <2>4, SendsFits
  <1>5. CASE ClientUploadEnd(f)
    <2>k. PICK k : k = [data_sock[p] EXCEPT !.peer = "fin"]
      OBVIOUS
    <2>1. peers' = [peers EXCEPT ![f] = peers[f]] /\ data_sock' = [data_sock EXCEPT ![p] = k]
      BY <1>2, <1>5, <1>p, <2>k DEF ClientUploadEnd, ReactorTypeOK
    <2>2. k.st = data_sock[p].st /\ k.peer = "fin"
      BY <1>3, <2>k DEF DataSock
    <2> QED
      BY <1>1, <1>2, <1>p, <2>1, <2>2, SendsFits
  <1> QED
    BY <1>4, <1>5

\* The first of the joined sequence is the first of the first.
LEMMA TailOfJoined ==
  ASSUME NEW S, NEW p \in Seq(S), NEW q \in Seq(S), p # <<>>
  PROVE  p \o q # <<>> /\ Head(p \o q) = Head(p) /\ Tail(p \o q) = Tail(p) \o q
  <1>h. PICK h, t : h = Head(p) /\ t = Tail(p)
    OBVIOUS
  <1>e. PICK e : e = <<h>>
    OBVIOUS
  <1>1. h \in S /\ t \in Seq(S)
    BY <1>h, HeadTailProperties
  <1>2. e \in Seq(S) /\ Len(e) = 1 /\ e[1] = h
    BY <1>1, <1>e
  <1>3. /\ Len(p) \in Nat \ {0} /\ Len(t) = Len(p) - 1 /\ h = p[1]
        /\ \A i \in 1 .. Len(t) : t[i] = p[i + 1]
    BY <1>h, HeadTailProperties
  <1>w. PICK w : w = p \o q
    OBVIOUS
  <1>4. /\ w \in Seq(S) /\ Len(w) = Len(p) + Len(q) /\ Len(q) \in Nat
        /\ \A i \in 1 .. Len(p) + Len(q) : w[i] = IF i <= Len(p) THEN p[i] ELSE q[i - Len(p)]
    BY <1>w, ConcatProperties
  <1>5. w # <<>> /\ Head(w) = h
    <2>1. Len(w) # 0 /\ w[1] = h
      BY <1>3, <1>4
    <2> QED
      BY <1>4, <2>1, EmptySeq, HeadTailProperties
  <1>u. PICK u, v : u = Tail(w) /\ v = t \o q
    OBVIOUS
  <1>6. /\ u \in Seq(S) /\ Len(u) = Len(w) - 1 /\ \A i \in 1 .. Len(u) : u[i] = w[i + 1]
    BY <1>4, <1>5, <1>u, HeadTailProperties
  <1>7. /\ v \in Seq(S) /\ Len(v) = Len(t) + Len(q)
        /\ \A i \in 1 .. Len(t) + Len(q) : v[i] = IF i <= Len(t) THEN t[i] ELSE q[i - Len(t)]
    BY <1>1, <1>u, ConcatProperties
  <1>8. Len(u) = Len(v)
    BY <1>3, <1>4, <1>6, <1>7
  <1>9. ASSUME NEW i \in 1 .. Len(u) PROVE u[i] = v[i]
    <2>0. i \in Nat /\ i >= 1 /\ i <= Len(p) - 1 + Len(q) /\ u[i] = w[i + 1]
      BY <1>3, <1>4, <1>6
    <2>1. CASE i <= Len(p) - 1
      <3>1. w[i + 1] = p[i + 1]
        BY <1>3, <1>4, <2>0, <2>1
      <3>2. v[i] = t[i] /\ t[i] = p[i + 1]
        BY <1>3, <1>4, <1>7, <2>0, <2>1
      <3> QED
        BY <2>0, <3>1, <3>2
    <2>2. CASE i > Len(p) - 1
      <3>1. w[i + 1] = q[(i + 1) - Len(p)]
        BY <1>3, <1>4, <2>0, <2>2
      <3>2. v[i] = q[i - Len(t)] /\ i - Len(t) = (i + 1) - Len(p)
        BY <1>3, <1>4, <1>7, <2>0, <2>2
      <3> QED
        BY <2>0, <3>1, <3>2
    <2> QED
      BY <1>3, <2>0, <2>1, <2>2
  <1>10. u = v
    BY <1>6, <1>7, <1>8, <1>9, SeqEqual
  <1> QED
    BY <1>5, <1>10, <1>h, <1>u, <1>w

\* What a client takes was there, and is the first of the answers.
LEMMA TakenAnswer ==
  ASSUME Orderly, NEW f \in Fds, Alive(f), fault = "none", peers[f].outq # <<>>,
         UNCHANGED <<poolVars, clients, ready, sessions, disks>>,
         NEW me \in Peer, peers' = [peers EXCEPT ![f] = me], me.outq = Tail(peers[f].outq)
  PROVE  /\ Spoken(f) /\ peers'[f] = me /\ Connected(f)
         /\ Replies(f) \in Seq(Reply) /\ Replies(f) # <<>>
         /\ Head(Replies(f)) = Head(peers[f].outq) /\ Replies(f)' = Tail(Replies(f))
         /\ \A x : Given(f, x) <=> Given(f, x)' \/ Head(peers[f].outq).code = x
         /\ \A x : Said(f, x)' => Said(f, x)
  <1>1. Spoken(f) /\ peers'[f] = me /\ peers[f] \in Peer
    BY Speaks
  <1>2. /\ Connected(f) /\ IInv /\ clients'[f] = clients[f]
        /\ \A x : Coming(f, x)' <=> Coming(f, x)
    BY <1>1, SpokenSaid DEF Spoken, Orderly
  <1>o. PICK o, q : o = peers[f].outq /\ q = clients[f].write_q
    OBVIOUS
  <1>r. PICK r : r = Replies(f)
    OBVIOUS
  <1>3. r \in Seq(Reply) /\ o \in Seq(Reply) /\ q \in Seq(Reply) /\ o # <<>>
    BY <1>2, <1>o, <1>r, RepliesElements
  <1>4. r = o \o q /\ Replies(f)' = Tail(o) \o q
    BY <1>1, <1>2, <1>o, <1>r DEF Replies
  <1>5. r # <<>> /\ Head(r) = Head(o) /\ Tail(r) = Tail(o) \o q
    BY <1>3, <1>4, TailOfJoined
  <1>6. Elements(r) = Elements(Tail(r)) \cup {Head(r)}
    BY <1>3, <1>5, TailElements
  <1>7. Replies(f)' = Tail(r)
    BY <1>4, <1>5
  <1>8. Elements(Replies(f))' = Elements(Tail(r))
    BY <1>7 DEF Elements
  <1>9. \A x : Given(f, x) <=> Given(f, x)' \/ Head(o).code = x
    BY <1>5, <1>6, <1>8, <1>r DEF Given
  <1>10. \A x : Said(f, x)' => Said(f, x)
    BY <1>2, <1>9 DEF Said
  <1> QED
    BY <1>1, <1>2, <1>3, <1>5, <1>7, <1>9, <1>10, <1>o, <1>r

\* A client takes the 150 of its transfer.
LEMMA TakeMarkFits ==
  ASSUME Orderly, AllFit, NEW f \in Fds, Alive(f), fault = "none", peers[f].outq # <<>>,
         UNCHANGED <<poolVars, clients, ready, sessions, disks, data_sock>>,
         NEW me \in Peer, peers' = [peers EXCEPT ![f] = me],
         me.outq = Tail(peers[f].outq), me.port = peers[f].port, me.xfer = peers[f].xfer,
         me.started = TRUE, Head(peers[f].outq).code = 150
  PROVE  AllFit'
  <1>0. UNCHANGED <<poolVars, clients, ready, sessions, disks>>
    OBVIOUS
  <1>g. \A x : Given(f, x) <=> Given(f, x)' \/ Head(peers[f].outq).code = x
    BY <1>0, TakenAnswer, ZenonT(60)
  <1>1. /\ Spoken(f) /\ peers'[f] = me /\ Connected(f)
        /\ \A x : Said(f, x)' => Said(f, x)
    BY <1>0, TakenAnswer, ZenonT(60)
  <1>a. Given(f, 150) <=> Given(f, 150)' \/ Head(peers[f].outq).code = 150
    BY <1>g
  <1>b. Given(f, 226) <=> Given(f, 226)' \/ Head(peers[f].outq).code = 226
    BY <1>g
  <1>c. Head(peers[f].outq).code = 150
    OBVIOUS
  <1>2. Given(f, 150) /\ (Given(f, 226)' <=> Given(f, 226))
    BY <1>a, <1>b, <1>c
  <1>3. Marked(f) /\ Begun(f)
    BY <1>2 DEF Marked, Begun, Said
  <1>4. IInv /\ Facts(f) /\ Fits(f)
    BY FactsNow DEF Orderly, AllFacts, AllFit
  <1>5. MarksFit(f) /\ BytesFit(f) /\ EndsFit(f) /\ OwnSocket(f)
    BY <1>1, <1>4, FitsNow
  <1>6. peers[f].xfer # NULL
    BY <1>3, <1>5 DEF MarksFit
  <1>7. /\ \A x : Coming(f, x)' <=> Coming(f, x)
        /\ \A a : Tasks(f, a)' = Tasks(f, a) /\ Work(f, a)' = Work(f, a)
        /\ Act(f)' = Act(f) /\ DAct(f)' = DAct(f) /\ Accepts(f)' = Accepts(f)
        /\ clients'[f] = clients[f] /\ Held(f)' = Held(f)
    BY <1>1, SpokenSaid
  <1>8. Said(f, 226)' <=> Said(f, 226)
    BY <1>2, <1>7 DEF Said
  <1>9. Marked(f)' /\ Begun(f)' /\ (Upload(f)' <=> Upload(f))
    BY <1>1, <1>6 DEF Marked, Begun, Upload
  <1>10. (Calls(f)' <=> Calls(f)) /\ Dial(f)' = Dial(f)
    BY <1>1, <1>7 DEF Calls, Dial
  <1>11. ~Early(f)'
    BY <1>3, <1>5, <1>7, <1>10 DEF MarksFit, Early
  <1>12. MarksFit(f)'
    BY <1>1, <1>3, <1>5, <1>7, <1>8, <1>9, <1>11 DEF MarksFit
  <1>13. BytesFit(f)'
    BY <1>1, <1>3, <1>5, <1>7, <1>9, <1>10 DEF BytesFit, Calls
  <1>14. (Ending(f)' <=> Ending(f)) /\ (Over(f)' <=> Over(f))
    BY <1>7, <1>8, <1>9 DEF Ending, Over
  <1>15. EndsFit(f)'
    BY <1>1, <1>2, <1>5, <1>7, <1>14 DEF EndsFit
  <1>16. Fits(f)'
    BY <1>12, <1>13, <1>15 DEF Fits
  <1> QED
    BY <1>1, <1>16, SpokenFits

\* A client takes its port: no transfer is in hand.
LEMMA TakePortFits ==
  ASSUME Orderly, AllFit, NEW f \in Fds, Alive(f), fault = "none", peers[f].outq # <<>>,
         UNCHANGED <<poolVars, clients, ready, sessions, disks, data_sock>>,
         NEW me \in Peer, peers' = [peers EXCEPT ![f] = me],
         me.outq = Tail(peers[f].outq), me.xfer = NULL, peers[f].xfer = NULL
  PROVE  AllFit'
  <1>1. /\ Spoken(f) /\ peers'[f] = me /\ Connected(f)
        /\ \A x : Said(f, x)' => Said(f, x)
    BY TakenAnswer
  <1>2. IInv /\ Facts(f) /\ Fits(f)
    BY FactsNow DEF Orderly, AllFacts, AllFit
  <1>3. MarksFit(f) /\ BytesFit(f)
    BY <1>1, <1>2, FitsNow
  <1>4. ~Begun(f) /\ ~Upload(f)
    BY <1>3 DEF MarksFit, Upload
  <1>5. /\ Tasks(f, "STOR_START") = 0 /\ Tasks(f, "TRANS_OK") = 0
        /\ Act(f) \notin {"DATA_INDEX_DOWNLOAD", "DATA_FILE_DOWNLOAD"}
        /\ DAct(f) \notin UploadStates /\ clients[f].file_buffer = <<>> /\ ~Marked(f)
        /\ ~Said(f, 226)
    BY <1>1, <1>2, <1>4, NotBegun
  <1>6. ~Marked(f)' /\ ~Said(f, 226)' /\ ~Upload(f)'
    BY <1>1, <1>5 DEF Marked, Upload
  <1>7. /\ clients[f].data_fd # NULL => data_sock'[clients[f].data_fd].inq = <<>>
        /\ Calls(f)' => data_sock'[clients[f].ev_data_accept].inq = <<>>
    BY <1>1, <1>3, <1>4 DEF BytesFit, Calls, Spoken
  <1>8. Fits(f)'
    BY <1>1, <1>5, <1>6, <1>7, UnmarkedFits
  <1> QED
    BY <1>1, <1>8, SpokenFits

\* A client takes the last answer of its command: nothing is left of it.
LEMMA TakeLastFits ==
  ASSUME Orderly, Orderly', AllFit, NEW f \in Fds, Lined(f), Alive(f), fault = "none",
         peers[f].outq # <<>>, UNCHANGED <<poolVars, clients, ready, sessions, disks>>,
         NEW me \in Peer, peers' = [peers EXCEPT ![f] = me],
         me.inq = peers[f].inq, me.outq = Tail(peers[f].outq), me.st = peers[f].st,
         me.xfer = NULL, Head(peers[f].outq).code # 150,
         \A q \in Ports : data_sock'[q].st = data_sock[q].st
                          /\ data_sock'[q].inq = data_sock[q].inq,
         \A q \in Ports : q # peers[f].port => data_sock'[q] = data_sock[q]
  PROVE  AllFit'
  <1>r. PICK r : r = Replies(f)
    OBVIOUS
  <1>1. /\ Spoken(f) /\ peers'[f] = me /\ Connected(f)
        /\ r \in Seq(Reply) /\ r # <<>> /\ Head(r).code # 150 /\ Replies(f)' = Tail(r)
        /\ \A x : Said(f, x)' => Said(f, x)
    BY <1>r, TakenAnswer
  <1>2. Ends(f) = Ends(f)' + 1
    BY Received
  <1>3. IInv /\ Facts(f) /\ Fits(f) /\ Facts(f)' /\ Connected(f)'
    BY <1>1, FactsNow, FactsNext DEF Orderly, AllFacts, AllFit, Spoken
  <1>4. /\ MarksFit(f) /\ BytesFit(f) /\ EndsFit(f) /\ OneAtWork(f)
        /\ Tasks(f, "STOR_START") \in Nat /\ Tasks(f, "TRANS_OK") \in Nat
    BY <1>1, <1>3, FitsNow
  <1>5. Ends(f) \in Nat /\ Ends(f)' \in Nat
    BY <1>1, <1>3 DEF Facts
  <1>6. Ends(f) > 0
    BY <1>2, <1>5
  <1>7. Ends(f) = 1 /\ Busy(f) = 0
    BY <1>1, <1>6, NothingElse
  <1>8. Ends(f)' = 0
    BY <1>2, <1>5, <1>7
  <1>9. ~Said(f, 226)'
    BY <1>3, <1>8, FactsThen
  <1>10. /\ Act(f) \notin Serving /\ DAct(f) = "NONE" /\ Tasks(f, "TRANS_OK") = 0
    BY <1>4, <1>7 DEF OneAtWork, AtWork
  <1>11. Act(f) \notin {"DATA_STOR", "DATA_INDEX_DOWNLOAD", "DATA_FILE_DOWNLOAD"}
    BY <1>10 DEF Serving
  <1>12. Tasks(f, "STOR_START") = 0
    BY <1>4, <1>11 DEF MarksFit
  <1>13. ~Said(f, 150)'
    <2>1. /\ \A i, j \in 1 .. Len(r) : i < j /\ r[i].code # 150 => r[j].code # 150
          /\ (\E x \in Elements(r) : x.code # 150) => ~Coming(f, 150)
      BY <1>1, <1>r DEF Lined
    <2>2. /\ Head(r) = r[1] /\ Len(r) \in Nat \ {0} /\ Len(Tail(r)) = Len(r) - 1
          /\ \A i \in 1 .. Len(Tail(r)) : Tail(r)[i] = r[i + 1]
      BY <1>1, HeadTailProperties
    <2>3. ~Coming(f, 150)'
      <3>1. r[1] \in Elements(r)
        BY <2>2 DEF Elements
      <3>2. ~Coming(f, 150)
        BY <1>1, <2>1, <2>2, <3>1
      <3> QED
        BY <1>1, <3>2, SpokenSaid
    <2>4. \A i \in 1 .. Len(Tail(r)) : Tail(r)[i].code # 150
      <3>1. SUFFICES ASSUME NEW i \in 1 .. Len(Tail(r)) PROVE Tail(r)[i].code # 150
        OBVIOUS
      <3>2. i + 1 \in 1 .. Len(r) /\ 1 \in 1 .. Len(r) /\ 1 < i + 1
        BY <2>2
      <3>3. r[i + 1].code # 150
        BY <1>1, <2>1, <2>2, <3>2
      <3> QED
        BY <2>2, <3>3
    <2>5. \A x \in Elements(Tail(r)) : x.code # 150
      BY <2>4 DEF Elements
    <2>6. Elements(Replies(f))' = Elements(Tail(r))
      BY <1>1 DEF Elements
    <2>7. ~Given(f, 150)'
      BY <2>5, <2>6 DEF Given
    <2> QED
      BY <2>3, <2>7 DEF Said
  <1>14. ~Marked(f)' /\ ~Upload(f)'
    BY <1>1, <1>13 DEF Marked, Upload
  <1>15. Upload(f) /\ peers[f].started => Ending(f)
    <2>1. SUFFICES ASSUME Upload(f), peers[f].started PROVE Ending(f)
      OBVIOUS
    <2>2. Begun(f)
      BY <2>1 DEF Begun, Marked, Upload
    <2>3. Said(f, 226)
      BY <1>4, <1>10, <2>2 DEF MarksFit
    <2> QED
      BY <2>1, <2>3 DEF Ending
  <1>16. clients[f].file_buffer = <<>>
    BY <1>4, <1>15 DEF BytesFit, EndsFit
  <1>17. clients[f].data_fd # NULL => data_sock'[clients[f].data_fd].inq = <<>>
    <2>1. clients[f].data_fd \in Ports \cup {NULL}
      BY <1>1, <1>3, PortsTyped
    <2>2. SUFFICES ASSUME clients[f].data_fd # NULL, data_sock[clients[f].data_fd].inq # <<>>
                   PROVE  FALSE
      BY <2>1
    <2>3. Upload(f) /\ Dial(f).inq # <<>>
      BY <1>4, <2>2 DEF BytesFit, Dial
    <2>4. Ending(f)
      BY <1>4, <1>15, <2>3 DEF BytesFit
    <2>5. Held(f) = {}
      BY <1>4, <2>4 DEF EndsFit
    <2> QED
      BY <2>2, <2>5 DEF Held
  <1>18. Calls(f)' => data_sock'[clients[f].ev_data_accept].inq = <<>>
    <2>1. clients[f].ev_data_accept \in Ports \cup {NULL}
      BY <1>1, <1>3, PortsTyped
    <2>2. clients'[f] = clients[f]
      BY <1>1 DEF Spoken
    <2>3. Calls(f)' => Calls(f)
      BY <2>1, <2>2 DEF Calls
    <2>4. Calls(f) => clients[f].ev_data_accept \in Ports
                      /\ data_sock[clients[f].ev_data_accept].inq = <<>>
      BY <1>4, <2>1 DEF BytesFit, Calls
    <2> QED
      BY <2>3, <2>4
  <1>19. Fits(f)'
    BY <1>1, <1>9, <1>10, <1>11, <1>12, <1>14, <1>16, <1>17, <1>18, UnmarkedFits
    DEF UploadStates
  <1>20. \A q \in Ports : q \notin Mentions(f) => data_sock'[q] = data_sock[q]
    <2>1. peers[f].port # NULL => peers[f].port \in Mentions(f)
      BY DEF Mentions, Promised
    <2>2. \A q \in Ports : q # NULL
      BY DataAssumption
    <2> QED
      BY <2>1, <2>2
  <1> QED
    BY <1>1, <1>19, <1>20, SpokenFits

LEMMA ClientReceiveFits ==
  ASSUME Orderly, Orderly', AllFit, NEW f \in Fds, Lined(f), fault = "none", ClientReceive(f),
         UNCHANGED <<poolVars, clients, ready, sessions, disks>>
  PROVE  AllFit'
  <1>o. PICK old : old = peers[f]
    OBVIOUS
  <1>r. PICK r : r = Head(old.outq)
    OBVIOUS
  <1>w. PICK w : w = IF old.wait > 0 THEN old.wait - 1 ELSE 0
    OBVIOUS
  <1>1. /\ Alive(f) /\ old.outq # <<>>
    BY <1>o DEF ClientReceive
  <1>2. Connected(f) /\ old \in Peer /\ ReactorTypeOK /\ InHand(f)
    BY <1>1, <1>o DEF Orderly, IInv, TypeOK, ReactorTypeOK, Part, Absent, Alive
  <1>3. Tail(old.outq) \in Seq(Reply) /\ r \in Reply /\ w \in Nat
    BY <1>1, <1>2, <1>r, <1>w, HeadTailProperties DEF Peer
  <1>4. CASE r.code = 150
    <2>m. PICK me : me = [old EXCEPT !.outq = Tail(@), !.started = TRUE]
      OBVIOUS
    <2>1. peers' = [peers EXCEPT ![f] = me] /\ data_sock' = data_sock
      BY <1>4, <1>o, <1>r, <2>m DEF ClientReceive, SetPeer
    <2>2. /\ me \in Peer /\ me.outq = Tail(old.outq) /\ me.started = TRUE
          /\ me.port = old.port /\ me.xfer = old.xfer
      BY <1>2, <1>3, <2>m DEF Peer
    <2> QED
      BY <1>1, <1>4, <1>o, <1>r, <2>1, <2>2, TakeMarkFits
  <1>5. CASE r.code = 227
    <2>m. PICK me : me = [old EXCEPT !.outq = Tail(@), !.wait = w, !.port = r.port]
      OBVIOUS
    <2>1. peers' = [peers EXCEPT ![f] = me] /\ data_sock' = data_sock
      BY <1>5, <1>o, <1>r, <1>w, <2>m DEF ClientReceive, SetPeer
    <2>2. /\ me \in Peer /\ me.inq = old.inq /\ me.outq = Tail(old.outq) /\ me.st = old.st
          /\ me.xfer = old.xfer
      BY <1>2, <1>3, <2>m DEF Peer, Reply
    <2>3. r.port \in Told(f)
      BY <1>1, <1>5, <1>o, <1>r, <2>1, <2>2, Received
    <2>4. old.xfer = NULL
      BY <1>2, <1>o, <2>3 DEF InHand
    <2> QED
      BY <1>1, <1>o, <2>1, <2>2, <2>4, TakePortFits
  <1>6. CASE r.code \notin {150, 227}
    <2>p. PICK port : port = IF old.xfer = NULL THEN old.port ELSE NULL
      OBVIOUS
    <2>m. PICK me : me = [old EXCEPT !.outq = Tail(@), !.wait = w, !.xfer = NULL, !.port = port]
      OBVIOUS
    <2>1. /\ peers' = [peers EXCEPT ![f] = me]
          /\ data_sock' = IF old.xfer # NULL /\ old.port # NULL /\ Dial(f).peer = "open"
                          THEN [data_sock EXCEPT ![old.port].peer = "fin"] ELSE data_sock
      BY <1>6, <1>o, <1>r, <1>w, <2>p, <2>m DEF ClientReceive, SetPeer
    <2>2. /\ me \in Peer /\ me.inq = old.inq /\ me.outq = Tail(old.outq) /\ me.st = old.st
          /\ me.xfer = NULL
      BY <1>2, <1>3, <2>m, <2>p DEF Peer
    <2>3. /\ \A q \in Ports : data_sock'[q].st = data_sock[q].st
                              /\ data_sock'[q].inq = data_sock[q].inq
          /\ \A q \in Ports : q # old.port => data_sock'[q] = data_sock[q]
      <3>1. CASE data_sock' = data_sock
        BY <3>1
      <3>2. CASE /\ old.port # NULL
                 /\ data_sock' = [data_sock EXCEPT ![old.port].peer = "fin"]
        <4>1. old.port \in Ports /\ data_sock \in [Ports -> DataSock]
          BY <1>2, <3>2 DEF Peer, ReactorTypeOK
        <4> QED
          BY <3>2, <4>1 DEF DataSock
      <3> QED
        BY <2>1, <3>1, <3>2
    <2>4. Head(peers[f].outq).code # 150
      BY <1>6, <1>o, <1>r
    <2> QED
      BY <1>1, <1>o, <2>1, <2>2, <2>3, <2>4, TakeLastFits
  <1> QED
    BY <1>4, <1>5, <1>6

LEMMA ClientFits ==
  ASSUME Orderly, Orderly', AllFit, \A g \in Fds : Lined(g), Habits = {}, Client
  PROVE  AllFit'
  <1>1. PICK f \in Fds :
          /\ ClientProgress(f) \/ ClientAbort(f) \/ ClientQuit(f)
          /\ UNCHANGED <<poolVars, clients, ready>>
    BY DEF Client, ClientStep, ClientProgress
  <1>2. fault = "none" /\ UNCHANGED <<sessions, disks>> /\ IInv' /\ Lined(f)
    BY DEF Client, Orderly
  <1>3. ~ClientAbort(f) /\ ~ClientQuit(f)
    BY DEF ClientAbort, ClientQuit
  <1>4. CASE ClientSend(f)
    BY <1>1, <1>2, <1>4, SendFits
  <1>5. CASE ClientReceive(f)
    BY <1>1, <1>2, <1>5, ClientReceiveFits
  <1>6. CASE ClientConnect(f)
    BY <1>1, <1>2, <1>6, ConnectFits
  <1>7. CASE ClientUpload(f) \/ ClientUploadEnd(f)
    BY <1>1, <1>2, <1>7, ClientUploadFits
  <1> QED
    BY <1>1, <1>3, <1>4, <1>5, <1>6, <1>7 DEF ClientProgress

-----------------------------------------------------------------------------
(* The parts of the invariant beside Fits, in every step.                  *)

\* No client that keeps the rules resets a data connection.
LEMMA NoResetNext ==
  ASSUME Orderly, NoReset, Habits = {}, Next
  PROVE  NoReset'
  <1>1. data_sock \in [Ports -> DataSock]
    BY DEF Orderly, IInv, TypeOK, ReactorTypeOK
  <1>2. ASSUME \A p \in Ports : data_sock'[p].peer \in {data_sock[p].peer, "open", "fin"}
        PROVE  NoReset'
    BY <1>2 DEF NoReset
  <1>3. ASSUME NEW f, data_sock' = ClosedSocks(f) PROVE NoReset'
    BY <1>1, <1>2, <1>3 DEF ClosedSocks, DataSock
  <1>4. ASSUME data_sock' = data_sock PROVE NoReset'
    BY <1>4 DEF NoReset
  <1>5. CASE \/ \E t \in SessionThreads : SessionThread(t)
             \/ \E t \in DiskThreads : DiskThread(t)
    BY <1>4, <1>5 DEF SessionThread, DiskThread, reactorVars
  <1>6. CASE Poll
    BY <1>4, <1>6 DEF Poll
  <1>7. CASE NotifyStep
    <2>1. CASE on_notify_null \/ on_notify_ctrl_write \/ on_notify_data_write
      BY <1>4, <2>1 DEF on_notify_null, on_notify_ctrl_write, on_notify_data_write
    <2>2. CASE on_notify_trans_ok
      BY <1>3, <2>2 DEF on_notify_trans_ok
    <2>3. CASE on_notify_pasv
      <3>1. ASSUME NEW S, data_sock' = Listening(S) PROVE NoReset'
        BY <1>1, <1>2, <3>1 DEF Listening, DataSock
      <3> QED
        BY <1>4, <2>3, <3>1 DEF on_notify_pasv
    <2> QED
      BY <1>7, <2>1, <2>2, <2>3 DEF NotifyStep
  <1>8. ASSUME NEW f \in Fds, CtrlStep(f) PROVE NoReset'
    <2>1. CASE on_accept(f) \/ on_read_lines(f) \/ on_write(f)
      BY <1>4, <2>1 DEF on_accept, on_read_lines, on_write
    <2>2. CASE on_read_gone(f) \/ on_write_error(f)
      BY <1>3, <2>2 DEF on_read_gone, on_write_error, del_client
    <2> QED
      BY <1>8, <2>1, <2>2 DEF CtrlStep
  <1>9. ASSUME NEW f \in Fds, DataStep(f) PROVE NoReset'
    <2>1. CASE data_accept(f)
      <3>1. PICK p : data_sock' = [data_sock EXCEPT ![p].st = "accepted"]
        BY <2>1 DEF data_accept
      <3> QED
        BY <1>1, <1>2, <3>1 DEF DataSock
    <2>2. CASE data_read_data(f)
      <3>1. PICK p, n : data_sock' = [data_sock EXCEPT ![p].inq = SubSeq(@, n + 1, Len(@))]
        BY <2>2 DEF data_read_data
      <3> QED
        BY <1>1, <1>2, <3>1 DEF DataSock
    <2>3. CASE data_read_end(f) \/ data_read_error(f)
      BY <1>3, <1>4, <2>3 DEF data_read_end, data_read_error
    <2>4. CASE data_write(f)
      <3>1. PICK p, b : data_sock' = [data_sock EXCEPT ![p].out = @ \o b]
        BY <2>4 DEF data_write
      <3> QED
        BY <1>1, <1>2, <3>1 DEF DataSock
    <2>5. CASE data_write_part(f)
      <3>1. PICK p, b, n : data_sock' = [data_sock EXCEPT ![p].out = @ \o SubSeq(b, 1, n)]
        BY <2>5 DEF data_write_part
      <3> QED
        BY <1>1, <1>2, <3>1 DEF DataSock
    <2>6. CASE data_write_nothing(f)
      BY <1>4, <2>6 DEF data_write_nothing
    <2> QED
      BY <1>9, <2>1, <2>2, <2>3, <2>4, <2>5, <2>6 DEF DataStep
  <1>10. ASSUME NEW f \in Fds, on_timeout(f) PROVE NoReset'
    BY <1>3, <1>10 DEF on_timeout, del_client
  <1>11. CASE Reactor
    BY <1>6, <1>7, <1>8, <1>9, <1>10, <1>11 DEF Reactor, ReactorStep, DispatchStep
  <1>12. CASE Client
    <2>1. PICK f \in Fds :
            \/ ClientSend(f) \/ ClientReceive(f) \/ ClientConnect(f)
            \/ ClientUpload(f) \/ ClientUploadEnd(f) \/ ClientAbort(f) \/ ClientQuit(f)
      BY <1>12 DEF Client, ClientStep, ClientProgress
    <2>2. CASE ClientSend(f) \/ ClientQuit(f)
      BY <1>4, <2>2 DEF ClientSend, ClientQuit
    <2>3. ASSUME NEW p, data_sock' = [data_sock EXCEPT ![p].peer = "fin"] PROVE NoReset'
      BY <1>1, <1>2, <2>3 DEF DataSock
    <2>4. CASE ClientReceive(f)
      BY <1>4, <2>3, <2>4 DEF ClientReceive
    <2>5. CASE ClientConnect(f)
      <3>1. PICK p : data_sock' = [data_sock EXCEPT ![p].st = "connecting", ![p].peer = "open"]
        BY <2>5 DEF ClientConnect
      <3> QED
        BY <1>1, <1>2, <3>1 DEF DataSock
    <2>6. CASE ClientUpload(f)
      <3>1. PICK p, b : data_sock' = [data_sock EXCEPT ![p].inq = Append(@, b)]
        BY <2>6 DEF ClientUpload
      <3> QED
        BY <1>1, <1>2, <3>1 DEF DataSock
    <2>7. CASE ClientUploadEnd(f)
      BY <2>3, <2>7 DEF ClientUploadEnd
    <2>8. ~ClientAbort(f)
      BY DEF ClientAbort
    <2> QED
      BY <2>1, <2>2, <2>4, <2>5, <2>6, <2>7, <2>8
  <1> QED
    BY <1>5, <1>11, <1>12 DEF Next

\* All that an upload's tasks need of their order.
AllUploads == \A g \in Fds : UploadOrder(g)

LEMMA SessionUploads ==
  ASSUME Orderly, AllUploads, NEW t \in SessionThreads, SessionThread(t)
  PROVE  AllUploads'
  <1>h. PICK h : h = Head(session_pool[t])
    OBVIOUS
  <1>f. PICK f : f = h.fd
    OBVIOUS
  <1>s. PICK s : s = sessions[f]
    OBVIOUS
  <1>1. /\ fault = "none" /\ UNCHANGED <<disks, reactorVars>> /\ SessionStep(t)
        /\ PoolTypeOK /\ SessionTypeOK
    BY DEF SessionThread, Orderly, IInv, TypeOK
  <1>2. ASSUME disk_pool' = disk_pool PROVE AllUploads'
    BY <1>2, UploadKept DEF AllUploads
  <1>3. ASSUME NEW task \in DiskTask, post_to_disk(task),
               task.action \in {"INDEX_START", "RETR_START", "STOR_START"}
        PROVE  AllUploads'
    BY <1>1, <1>3, UploadAdded DEF AllUploads
  <1>4. CASE SessionDataAccept(t)
    <2>1. SessionTake(t, "DATA_ACCEPT") /\ s # NULL
      BY <1>4, <1>h, <1>f, <1>s DEF SessionDataAccept, ForSession
    <2>2. f \in Fds
      BY <1>1, <1>h, <1>f, <2>1, SessionTakes
    <2>3. s \in Session /\ s.file_name \in Files \cup {NULL} /\ s.rest_size \in Nat
      BY <1>1, <1>s, <2>1, <2>2 DEF SessionTypeOK, Session
    <2>4. \/ run_list_load(f, s)
          \/ run_stor_load(f, s)
          \/ run_retr_load(f, s)
          \/ disk_pool' = disk_pool
      BY <1>4, <1>h, <1>f, <1>s DEF SessionDataAccept
    <2>5. CASE run_list_load(f, s)
      <3>1. PICK task : task = [fd |-> f, action |-> "INDEX_START"]
        OBVIOUS
      <3>2. task \in DiskTask /\ task.action = "INDEX_START"
        BY <2>2, <3>1 DEF DiskTask
      <3>3. post_to_disk(task)
        BY <2>5, <3>1 DEF run_list_load
      <3> QED
        BY <1>3, <3>2, <3>3
    <2>6. CASE run_stor_load(f, s)
      <3>1. PICK task : task = [fd |-> f, action |-> "STOR_START",
                                path |-> s.file_name, rest |-> s.rest_size]
        OBVIOUS
      <3>2. task \in DiskTask /\ task.action = "STOR_START"
        BY <2>2, <2>3, <3>1 DEF DiskTask
      <3>3. post_to_disk(task)
        BY <2>6, <3>1 DEF run_stor_load
      <3> QED
        BY <1>3, <3>2, <3>3
    <2>7. CASE run_retr_load(f, s)
      <3>1. PICK task : task = [fd |-> f, action |-> "RETR_START",
                                path |-> s.file_name, rest |-> s.rest_size]
        OBVIOUS
      <3>2. task \in DiskTask /\ task.action = "RETR_START"
        BY <2>2, <2>3, <3>1 DEF DiskTask
      <3>3. post_to_disk(task)
        BY <2>7, <3>1 DEF run_retr_load
      <3> QED
        BY <1>3, <3>2, <3>3
    <2> QED
      BY <1>2, <2>4, <2>5, <2>6, <2>7
  <1>5. ASSUME ~SessionDataAccept(t) PROVE disk_pool' = disk_pool
    <2>1. CASE SessionRead(t)
      BY <2>1, ReadLeavesDisk
    <2>2. CASE SessionPasv(t)
      BY <2>2 DEF SessionPasv, run_pasv, Answer
    <2> QED
      BY <1>1, <1>5, <2>1, <2>2
      DEF SessionStep, SessionAccept, SessionStorStart, run_stor_start, Answer,
          SessionTransOk, run_transfer_ok, SessionDropped
  <1> QED
    BY <1>2, <1>4, <1>5

LEMMA DiskUploads ==
  ASSUME Orderly, AllUploads, NEW t \in DiskThreads, DiskThread(t)
  PROVE  AllUploads'
  <1>h. PICK h : h = Head(disk_pool[t])
    OBVIOUS
  <1>1. DiskStep(t) /\ PoolTypeOK /\ Routed
    BY DEF DiskThread, Orderly, IInv, TypeOK
  <1>2. PICK act : DiskTake(t, act)
    BY <1>1 DEF DiskStep, DiskIndexStart, DiskStorStart, DiskRetrStart, DiskRetrStartFails,
       DiskIndexLoading, DiskRetrLoading, DiskRetrLoadingFails, DiskDownloadDone,
       DiskWriteDoneIgnored, DiskStoring, DiskStoringFails, DiskStorOk, DiskStorOkFails,
       DiskMissing, ForDisk
  <1>3. ThreadOf(h.fd) = t
    <2>1. disk_pool[t] # <<>> /\ disk_pool[t] \in Seq(DiskTask)
      BY <1>1, <1>2 DEF DiskTake, PoolTypeOK
    <2>2. h \in Elements(disk_pool[t])
      BY <1>h, <2>1, TailElements
    <2> QED
      BY <1>1, <2>2 DEF Routed
  <1> QED
    BY <1>h, <1>1, <1>2, <1>3, UploadTaken DEF AllUploads

\* A piece of an upload comes before its end, and its end after its start.
LEMMA ReadUploads ==
  ASSUME Orderly, AllFit, AllUploads, NEW f \in Fds, data_read_data(f) \/ data_read_end(f)
  PROVE  AllUploads'
  <1>c. PICK c : c = clients[f]
    OBVIOUS
  <1>1. <<"data_read", f>> \in ready
    BY DEF data_read_data, data_read_end, Ran
  <1>2. /\ ReactorTypeOK /\ PoolTypeOK /\ IInv /\ Connected(f) /\ c \in TCP_client
        /\ c.data_fd # NULL /\ c.data_fd \in Ports /\ Facts(f) /\ Fits(f)
    BY <1>1, <1>c, ServedClient, FactsNow DEF Orderly, IInv, TypeOK, AllFacts, AllFit
  <1>3. MarksFit(f) /\ BytesFit(f) /\ OwnSocket(f)
    BY <1>2, FitsNow
  <1>4. ASSUME disk_pool' = disk_pool PROVE AllUploads'
    BY <1>4, UploadKept DEF AllUploads
  <1>5. CASE data_read_data(f)
    <2>1. PICK p, sock, n : /\ p = c.data_fd /\ sock = data_sock[p]
                            /\ n = (IF Len(sock.inq) < DATASIZE THEN Len(sock.inq) ELSE DATASIZE)
      OBVIOUS
    <2>2. PICK full : full = c.file_buffer \o SubSeq(sock.inq, 1, n)
      OBVIOUS
    <2>3. /\ sock.inq # <<>>
          /\ \/ disk_pool' = disk_pool
             \/ post_to_disk([fd |-> f, action |-> "STORING", data |-> full])
      BY <1>5, <1>c, <2>1, <2>2 DEF data_read_data
    <2>4. sock \in DataSock /\ sock.inq \in Block /\ n \in 0 .. Len(sock.inq)
      BY <1>2, <2>1, ReactorAssumption DEF ReactorTypeOK, DataSock, Block
    <2>5. full \in Block
      BY <1>2, <2>2, <2>4, PieceType, JoinType DEF TCP_client, Block
    <2>6. Upload(f) /\ c.data_fd = peers[f].port
      BY <1>c, <1>2, <1>3, <2>1, <2>3 DEF BytesFit
    <2>7. Dial(f).inq # <<>>
      BY <2>1, <2>3, <2>6 DEF Dial
    <2>8. Begun(f)
      BY <1>3, <2>6, <2>7 DEF BytesFit, Begun, Marked, Upload
    <2>9. Work(f, "STOR_OK") = 0
      BY <1>c, <1>2, <2>6, <2>8, OpenUpload
    <2>10. CASE post_to_disk([fd |-> f, action |-> "STORING", data |-> full])
      <3>1. PICK task : task = [fd |-> f, action |-> "STORING", data |-> full]
        OBVIOUS
      <3>2. task \in DiskTask /\ task.fd = f /\ task.action = "STORING"
        BY <2>5, <3>1 DEF DiskTask
      <3>3. post_to_disk(task)
        BY <2>10, <3>1
      <3> QED
        BY <1>2, <2>9, <3>2, <3>3, UploadAdded DEF AllUploads
    <2> QED
      BY <1>4, <2>3, <2>10
  <1>6. CASE data_read_end(f)
    <2>1. /\ data_sock[c.data_fd].peer = "fin"
          /\ \/ disk_pool' = disk_pool
             \/ post_to_disk([fd |-> f, action |-> "STOR_OK", data |-> c.file_buffer])
      BY <1>6, <1>c DEF data_read_end
    <2>2. Work(f, "STOR_START") = 0
      <3>1. SUFFICES ASSUME Work(f, "STOR_START") > 0 PROVE FALSE
        BY <1>2, FitsNow
      <3>2. OneAtWork(f)
        BY <1>2, FitsNow
      <3>3. AtWork(f) /\ Early(f)
        BY <3>1 DEF AtWork, Early
      <3>4. Reached(f) /\ Act(f) = "DATA_STOR"
        BY <3>1, <3>2, <3>3 DEF OneAtWork
      <3>5. Upload(f)
        BY <3>2, <3>4 DEF OneAtWork
      <3>6. c.data_fd = peers[f].port
        BY <1>c, <1>2, <3>4 DEF Reached
      <3>7. Dial(f).peer = "fin"
        BY <2>1, <3>6 DEF Dial
      <3>8. Begun(f)
        BY <1>3, <3>5, <3>7 DEF BytesFit, Begun, Marked, Upload
      <3> QED
        BY <1>3, <3>3, <3>8 DEF MarksFit
    <2>3. CASE post_to_disk([fd |-> f, action |-> "STOR_OK", data |-> c.file_buffer])
      <3>1. PICK task : task = [fd |-> f, action |-> "STOR_OK", data |-> c.file_buffer]
        OBVIOUS
      <3>2. task \in DiskTask /\ task.fd = f /\ task.action = "STOR_OK"
        BY <1>2, <3>1 DEF DiskTask, TCP_client
      <3>3. post_to_disk(task)
        BY <2>3, <3>1
      <3> QED
        BY <1>2, <2>2, <3>2, <3>3, UploadAdded DEF AllUploads
    <2> QED
      BY <1>4, <2>1, <2>3
  <1> QED
    BY <1>5, <1>6

LEMMA ReactorUploads ==
  ASSUME Orderly, AllFit, AllUploads, Timeouts = FALSE, Reactor
  PROVE  AllUploads'
  <1>1. ReactorStep /\ PoolTypeOK /\ IInv
    BY DEF Reactor, Orderly, IInv, TypeOK
  <1>2. ASSUME disk_pool' = disk_pool PROVE AllUploads'
    BY <1>2, UploadKept DEF AllUploads
  <1>3. CASE Poll
    BY <1>2, <1>3 DEF Poll, poolVars
  <1>4. CASE NotifyStep
    BY <1>2, <1>4 DEF NotifyStep, on_notify_null, on_notify_ctrl_write, on_notify_trans_ok,
       on_notify_pasv, on_notify_data_write
  <1>5. ASSUME NEW f \in Fds, CtrlStep(f) PROVE AllUploads'
    BY <1>2, <1>5 DEF CtrlStep, on_accept, on_read_lines, on_read_gone, on_write,
       on_write_error, poolVars
  <1>6. ASSUME NEW f \in Fds, DataStep(f) PROVE AllUploads'
    <2>1. CASE data_read_data(f) \/ data_read_end(f)
      BY <2>1, ReadUploads
    <2>2. CASE data_write(f)
      <3>1. PICK task : task = [fd |-> f, action |-> "WRITE_DONE"]
        OBVIOUS
      <3>2. task \in DiskTask /\ task.action = "WRITE_DONE"
        BY <3>1 DEF DiskTask
      <3>3. post_to_disk(task)
        BY <2>2, <3>1 DEF data_write
      <3> QED
        BY <1>1, <3>2, <3>3, UploadAdded DEF AllUploads
    <2>3. CASE \/ data_accept(f) \/ data_read_error(f) \/ data_write_part(f)
               \/ data_write_nothing(f)
      BY <1>2, <2>3 DEF data_accept, data_read_error, data_write_part, data_write_nothing,
         poolVars
    <2> QED
      BY <1>6, <2>1, <2>2, <2>3 DEF DataStep
  <1>7. ~(\E f \in Fds : on_timeout(f))
    BY DEF on_timeout
  <1> QED
    BY <1>1, <1>3, <1>4, <1>5, <1>6, <1>7 DEF ReactorStep, DispatchStep

\* The tasks of an upload stay in order, whoever moves.
LEMMA UploadsNext ==
  ASSUME Orderly, AllFit, AllUploads, Timeouts = FALSE, Next
  PROVE  AllUploads'
  <1>1. CASE Client
    <2>1. disk_pool' = disk_pool
      BY <1>1 DEF Client, ClientStep, ClientProgress, poolVars
    <2> QED
      BY <2>1, UploadKept DEF AllUploads
  <1> QED
    BY <1>1, SessionUploads, DiskUploads, ReactorUploads DEF Next

-----------------------------------------------------------------------------
(* The 150 of a transfer and the answer that ends it stay in line.         *)

AllLined == \A g \in Fds : Lined(g)

\* The parts of Lined.
RepliesLined(f) ==
  \A i, j \in 1 .. Len(Replies(f)) :
    i < j /\ Replies(f)[i].code # 150 => Replies(f)[j].code # 150
Parted(f)    == (\E r \in Elements(Replies(f)) : r.code # 150) => ~Coming(f, 150)
PipeLined(f) ==
  \A i, j \in 1 .. Len(notify_pipe) :
    i < j /\ EndsFor(notify_pipe[i], f) => ~Says(notify_pipe[j], f, 150)

LEMMA LinedParts ==
  ASSUME NEW f
  PROVE  Lined(f) <=> (Connected(f) => RepliesLined(f) /\ Parted(f) /\ PipeLined(f))
  BY DEF Lined, RepliesLined, Parted, PipeLined

LEMMA LinedPartsNext ==
  ASSUME NEW f
  PROVE  Lined(f)' <=> (Connected(f)' => RepliesLined(f)' /\ Parted(f)' /\ PipeLined(f)')
  BY DEF Lined, RepliesLined, Parted, PipeLined

\* A record in the pipe is on its way.
LEMMA InThePipe ==
  ASSUME NEW f, NEW i \in 1 .. Len(notify_pipe), NEW c, Says(notify_pipe[i], f, c)
  PROVE  Coming(f, c)
  <1>1. notify_pipe[i] \in MyNotices(f)
    BY DEF MyNotices, Mine, Elements, Says
  <1> QED
    BY <1>1 DEF Coming

LEMMA FromThePipe ==
  ASSUME NEW f, NEW c, Coming(f, c)
  PROVE  \E i \in 1 .. Len(notify_pipe) : Says(notify_pipe[i], f, c)
  BY DEF Coming, MyNotices, Mine, Elements

LEMMA FromThePipeNext ==
  ASSUME NEW f, NEW c, Coming(f, c)'
  PROVE  \E i \in 1 .. Len(notify_pipe') : Says(notify_pipe'[i], f, c)
  BY DEF Coming, MyNotices, Mine, Elements, Says

\* Behind the answer that ends a command no 150 is written.
LEMMA LinedWritten ==
  ASSUME IInv, NEW f \in Fds, Lined(f), clients' = clients, peers' = peers,
         NEW n \in Notification, notify(n),
         Connected(f) /\ Says(n, f, 150) => Ends(f) = 0
  PROVE  Lined(f)'
  <1>1. SUFFICES ASSUME Connected(f)' PROVE RepliesLined(f)' /\ Parted(f)' /\ PipeLined(f)'
    BY LinedPartsNext
  <1>2. /\ Connected(f) /\ RepliesLined(f) /\ Parted(f) /\ PipeLined(f)
        /\ Replies(f)' = Replies(f)
    BY <1>1, LinedParts DEF Connected, Replies
  <1>3. /\ notify_pipe \in Seq(Notification) /\ Len(notify_pipe) \in Nat
        /\ Len(notify_pipe') = Len(notify_pipe) + 1
        /\ notify_pipe'[Len(notify_pipe) + 1] = n
        /\ \A i \in 1 .. Len(notify_pipe) : notify_pipe'[i] = notify_pipe[i]
    BY DEF IInv, TypeOK, PoolTypeOK, notify
  <1>4. ASSUME Says(n, f, 150), NEW c, c # 150 PROVE ~Said(f, c)
    BY <1>2, <1>4, SaidNone
  <1>5. RepliesLined(f)'
    BY <1>2 DEF RepliesLined
  <1>6. Parted(f)'
    <2>1. SUFFICES ASSUME NEW r \in Elements(Replies(f)), r.code # 150, Coming(f, 150)'
                   PROVE  FALSE
      BY <1>2 DEF Parted
    <2>2. Given(f, r.code)
      BY <2>1 DEF Given
    <2>3. PICK i \in 1 .. Len(notify_pipe') : Says(notify_pipe'[i], f, 150)
      BY <2>1, FromThePipeNext
    <2>4. CASE i \in 1 .. Len(notify_pipe)
      <3>1. Coming(f, 150)
        BY <1>3, <2>3, <2>4, InThePipe
      <3> QED
        BY <1>2, <2>1, <3>1 DEF Parted
    <2>5. CASE i \notin 1 .. Len(notify_pipe)
      <3>1. i = Len(notify_pipe) + 1
        BY <1>3, <2>5
      <3>2. Says(n, f, 150)
        BY <1>3, <2>3, <3>1
      <3> QED
        BY <1>4, <2>1, <2>2, <3>2 DEF Said
    <2> QED
      BY <2>4, <2>5
  <1>7. PipeLined(f)'
    <2>1. SUFFICES ASSUME NEW i \in 1 .. Len(notify_pipe'), NEW j \in 1 .. Len(notify_pipe'),
                          i < j, EndsFor(notify_pipe'[i], f), Says(notify_pipe'[j], f, 150)
                   PROVE  FALSE
      BY DEF PipeLined
    <2>2. i \in 1 .. Len(notify_pipe) /\ EndsFor(notify_pipe[i], f)
      <3>1. i \in 1 .. Len(notify_pipe)
        BY <1>3, <2>1
      <3> QED
        BY <1>3, <2>1, <3>1
    <2>3. CASE j \in 1 .. Len(notify_pipe)
      <3>1. Says(notify_pipe[j], f, 150)
        BY <1>3, <2>1, <2>3
      <3> QED
        BY <1>2, <2>1, <2>2, <2>3, <3>1 DEF PipeLined
    <2>4. CASE j \notin 1 .. Len(notify_pipe)
      <3>1. j = Len(notify_pipe) + 1
        BY <1>3, <2>1, <2>4
      <3>2. Says(n, f, 150)
        BY <1>3, <2>1, <3>1
      <3>c. PICK c : c = notify_pipe[i].reply.code
        OBVIOUS
      <3>3. c # 150 /\ Says(notify_pipe[i], f, c)
        BY <2>2, <3>c DEF EndsFor, Says
      <3>4. Coming(f, c)
        BY <2>2, <3>3, InThePipe
      <3> QED
        BY <1>4, <3>2, <3>3, <3>4 DEF Said
    <2> QED
      BY <2>3, <2>4
  <1> QED
    BY <1>5, <1>6, <1>7

\* From the front of a line things go one by one.
Shortened(p, q) == q = p \/ (p # <<>> /\ q = Tail(p))

LEMMA ShortenedFacts ==
  ASSUME NEW S, NEW p \in Seq(S), NEW q, Shortened(p, q)
  PROVE  \E k \in {0, 1} : /\ Len(q) = Len(p) - k
                           /\ \A i \in 1 .. Len(q) : i + k \in 1 .. Len(p) /\ q[i] = p[i + k]
  <1>1. CASE q = p
    BY <1>1
  <1>2. CASE p # <<>> /\ q = Tail(p)
    <2>1. /\ Len(q) = Len(p) - 1
          /\ \A i \in 1 .. Len(q) : i + 1 \in 1 .. Len(p) /\ q[i] = p[i + 1]
      BY <1>2
    <2> QED
      BY <2>1
  <1> QED
    BY <1>1, <1>2 DEF Shortened

LEMMA LinedTaken ==
  ASSUME IInv, NEW f \in Fds, Lined(f), Connected(f)' => Connected(f),
         Shortened(notify_pipe, notify_pipe'),
         Connected(f) => Shortened(Replies(f), Replies(f)')
  PROVE  Lined(f)'
  <1>1. SUFFICES ASSUME Connected(f)' PROVE RepliesLined(f)' /\ Parted(f)' /\ PipeLined(f)'
    BY LinedPartsNext
  <1>2. /\ Connected(f) /\ RepliesLined(f) /\ Parted(f) /\ PipeLined(f)
        /\ Replies(f) \in Seq(Reply) /\ Shortened(Replies(f), Replies(f)')
    BY <1>1, LinedParts, RepliesElements
  <1>3. notify_pipe \in Seq(Notification)
    BY DEF IInv, TypeOK, PoolTypeOK
  <1>4. PICK k \in {0, 1} :
          /\ Len(notify_pipe') = Len(notify_pipe) - k
          /\ \A i \in 1 .. Len(notify_pipe') :
               i + k \in 1 .. Len(notify_pipe) /\ notify_pipe'[i] = notify_pipe[i + k]
    BY <1>3, ShortenedFacts
  <1>p. PICK p, q : p = Replies(f) /\ q = Replies(f)'
    OBVIOUS
  <1>5. PICK m \in {0, 1} :
          /\ Len(q) = Len(p) - m
          /\ \A i \in 1 .. Len(q) : i + m \in 1 .. Len(p) /\ q[i] = p[i + m]
    BY <1>2, <1>p, ShortenedFacts
  <1>6. RepliesLined(f)'
    <2>1. \A i, j \in 1 .. Len(p) : i < j /\ p[i].code # 150 => p[j].code # 150
      BY <1>2, <1>p DEF RepliesLined
    <2>2. ASSUME NEW i \in 1 .. Len(q), NEW j \in 1 .. Len(q), i < j, q[i].code # 150
          PROVE  q[j].code # 150
      <3>1. /\ i + m \in 1 .. Len(p) /\ j + m \in 1 .. Len(p) /\ i + m < j + m
            /\ q[i] = p[i + m] /\ q[j] = p[j + m]
        BY <1>5, <2>2
      <3> QED
        BY <2>1, <2>2, <3>1
    <2> QED
      BY <1>p, <2>2 DEF RepliesLined
  <1>7. Parted(f)'
    <2>1. SUFFICES ASSUME NEW r \in Elements(q), r.code # 150, Coming(f, 150)' PROVE FALSE
      BY <1>p DEF Parted
    <2>2. r \in Elements(p)
      BY <1>5 DEF Elements
    <2>3. PICK i \in 1 .. Len(notify_pipe') : Says(notify_pipe'[i], f, 150)
      BY <2>1, FromThePipeNext
    <2>4. Coming(f, 150)
      <3>1. i + k \in 1 .. Len(notify_pipe) /\ Says(notify_pipe[i + k], f, 150)
        BY <1>4, <2>3
      <3> QED
        BY <3>1, InThePipe
    <2> QED
      BY <1>2, <1>p, <2>1, <2>2, <2>4 DEF Parted
  <1>8. PipeLined(f)'
    <2>1. SUFFICES ASSUME NEW i \in 1 .. Len(notify_pipe'), NEW j \in 1 .. Len(notify_pipe'),
                          i < j, EndsFor(notify_pipe'[i], f), Says(notify_pipe'[j], f, 150)
                   PROVE  FALSE
      BY DEF PipeLined
    <2>2. /\ i + k \in 1 .. Len(notify_pipe) /\ j + k \in 1 .. Len(notify_pipe) /\ i + k < j + k
          /\ notify_pipe'[i] = notify_pipe[i + k] /\ notify_pipe'[j] = notify_pipe[j + k]
      BY <1>4, <2>1
    <2>3. EndsFor(notify_pipe[i + k], f) /\ Says(notify_pipe[j + k], f, 150)
      BY <2>1, <2>2
    <2> QED
      BY <1>2, <2>2, <2>3 DEF PipeLined
  <1> QED
    BY <1>6, <1>7, <1>8

\* The next record of the pipe goes to the end of the client's answers.
LEMMA LinedServed ==
  ASSUME IInv, NEW f \in Fds, Lined(f), Connected(f), notify_pipe # <<>>,
         NEW n, n = Head(notify_pipe), n.fd = f, n.action \in {"CTRL_WRITE", "TRANS_OK"},
         n.reply \in Reply,
         notify_pipe' = Tail(notify_pipe), Replies(f)' = Append(Replies(f), n.reply)
  PROVE  Lined(f)'
  <1>1. SUFFICES RepliesLined(f)' /\ Parted(f)' /\ PipeLined(f)'
    BY LinedPartsNext
  <1>2. /\ RepliesLined(f) /\ Parted(f) /\ PipeLined(f) /\ Replies(f) \in Seq(Reply)
    BY LinedParts, RepliesElements
  <1>3. /\ notify_pipe \in Seq(Notification) /\ 1 \in 1 .. Len(notify_pipe)
        /\ notify_pipe[1] = n /\ Len(notify_pipe') = Len(notify_pipe) - 1
        /\ \A i \in 1 .. Len(notify_pipe') :
             /\ i + 1 \in 1 .. Len(notify_pipe) /\ 1 < i + 1
             /\ notify_pipe'[i] = notify_pipe[i + 1]
    <2>1. notify_pipe \in Seq(Notification)
      BY DEF IInv, TypeOK, PoolTypeOK
    <2> QED
      BY <2>1
  <1>p. PICK p, q, x : p = Replies(f) /\ q = Replies(f)' /\ x = n.reply
    OBVIOUS
  <1>4. /\ Len(p) \in Nat /\ Len(q) = Len(p) + 1 /\ q[Len(p) + 1] = x
        /\ \A i \in 1 .. Len(p) : q[i] = p[i]
    BY <1>2, <1>p
  <1>5. Says(n, f, x.code) /\ Coming(f, x.code)
    BY <1>3, <1>p, InThePipe DEF Says
  <1>6. RepliesLined(f)'
    <2>1. ASSUME NEW i \in 1 .. Len(q), NEW j \in 1 .. Len(q), i < j, q[i].code # 150
          PROVE  q[j].code # 150
      <3>1. i \in 1 .. Len(p) /\ p[i].code # 150
        BY <1>4, <2>1
      <3>2. CASE j \in 1 .. Len(p)
        BY <1>2, <1>4, <1>p, <2>1, <3>1, <3>2 DEF RepliesLined
      <3>3. CASE j \notin 1 .. Len(p)
        <4>1. q[j] = x
          BY <1>4, <2>1, <3>3
        <4>2. ~Coming(f, 150)
          BY <1>2, <1>p, <3>1 DEF Parted, Elements
        <4> QED
          BY <1>5, <4>1, <4>2
      <3> QED
        BY <3>2, <3>3
    <2> QED
      BY <1>p, <2>1 DEF RepliesLined
  <1>7. Parted(f)'
    <2>1. SUFFICES ASSUME NEW r \in Elements(q), r.code # 150, Coming(f, 150)' PROVE FALSE
      BY <1>p DEF Parted
    <2>2. PICK j \in 1 .. Len(notify_pipe') : Says(notify_pipe'[j], f, 150)
      BY <2>1, FromThePipeNext
    <2>3. /\ j + 1 \in 1 .. Len(notify_pipe) /\ 1 < j + 1
          /\ Says(notify_pipe[j + 1], f, 150)
      BY <1>3, <2>2
    <2>4. PICK i \in 1 .. Len(q) : r = q[i]
      BY DEF Elements
    <2>5. CASE i \in 1 .. Len(p)
      <3>1. r \in Elements(p)
        BY <1>4, <2>4, <2>5 DEF Elements
      <3>2. Coming(f, 150)
        BY <2>3, InThePipe
      <3> QED
        BY <1>2, <1>p, <2>1, <3>1, <3>2 DEF Parted
    <2>6. CASE i \notin 1 .. Len(p)
      <3>1. r = x
        BY <1>4, <2>4, <2>6
      <3>2. EndsFor(notify_pipe[1], f)
        BY <1>3, <1>p, <2>1, <3>1 DEF EndsFor
      <3> QED
        BY <1>2, <1>3, <2>3, <3>2 DEF PipeLined
    <2> QED
      BY <2>5, <2>6
  <1>8. PipeLined(f)'
    <2>1. SUFFICES ASSUME NEW i \in 1 .. Len(notify_pipe'), NEW j \in 1 .. Len(notify_pipe'),
                          i < j, EndsFor(notify_pipe'[i], f), Says(notify_pipe'[j], f, 150)
                   PROVE  FALSE
      BY DEF PipeLined
    <2>2. /\ i + 1 \in 1 .. Len(notify_pipe) /\ j + 1 \in 1 .. Len(notify_pipe) /\ i + 1 < j + 1
          /\ notify_pipe'[i] = notify_pipe[i + 1] /\ notify_pipe'[j] = notify_pipe[j + 1]
      BY <1>3, <2>1
    <2>3. EndsFor(notify_pipe[i + 1], f) /\ Says(notify_pipe[j + 1], f, 150)
      BY <2>1, <2>2
    <2> QED
      BY <1>2, <2>2, <2>3 DEF PipeLined
  <1> QED
    BY <1>6, <1>7, <1>8

\* What a pool thread writes to the pipe: a 226 only as TRANS_OK, and a 150
\* only where no answer that ends the command is on its way.
Writes ==
  \/ notify_pipe' = notify_pipe
  \/ \E n \in Notification :
       /\ notify(n)
       /\ n.action = "CTRL_WRITE" => n.reply.code # 226
       /\ n.action = "TRANS_OK" => n.reply.code = 226
       /\ \A f \in Fds : Connected(f) /\ Says(n, f, 150) => Ends(f) = 0

LEMMA CodedTaken ==
  ASSUME IInv, Coded, Shortened(notify_pipe, notify_pipe')
  PROVE  Coded'
  <1>1. notify_pipe \in Seq(Notification)
    BY DEF IInv, TypeOK, PoolTypeOK
  <1>2. PICK k \in {0, 1} :
          /\ Len(notify_pipe') = Len(notify_pipe) - k
          /\ \A i \in 1 .. Len(notify_pipe') :
               i + k \in 1 .. Len(notify_pipe) /\ notify_pipe'[i] = notify_pipe[i + k]
    BY <1>1, ShortenedFacts
  <1>3. ASSUME NEW n \in Elements(notify_pipe') PROVE n \in Elements(notify_pipe)
    <2>1. PICK i \in 1 .. Len(notify_pipe') : n = notify_pipe'[i]
      BY DEF Elements
    <2>2. i + k \in 1 .. Len(notify_pipe) /\ n = notify_pipe[i + k]
      BY <1>2, <2>1
    <2> QED
      BY <2>2 DEF Elements
  <1> QED
    BY <1>3 DEF Coded

LEMMA WritesInLine ==
  ASSUME IInv, Coded, AllLined, clients' = clients, peers' = peers, Writes
  PROVE  Coded' /\ AllLined'
  <1>1. CASE notify_pipe' = notify_pipe
    <2>1. \A f \in Fds : Connected(f)' = Connected(f) /\ Replies(f)' = Replies(f)
      BY DEF Connected, Replies
    <2>2. Shortened(notify_pipe, notify_pipe') /\ \A f \in Fds : Shortened(Replies(f), Replies(f)')
      BY <1>1, <2>1 DEF Shortened
    <2>3. \A f \in Fds : Lined(f)'
      BY <2>1, <2>2, LinedTaken DEF AllLined
    <2> QED
      BY <2>2, <2>3, CodedTaken DEF AllLined
  <1>2. ASSUME NEW n \in Notification, notify(n),
               n.action = "CTRL_WRITE" => n.reply.code # 226,
               n.action = "TRANS_OK" => n.reply.code = 226,
               \A f \in Fds : Connected(f) /\ Says(n, f, 150) => Ends(f) = 0
        PROVE  Coded' /\ AllLined'
    <2>1. \A f \in Fds : Lined(f)'
      BY <1>2, LinedWritten DEF AllLined
    <2>2. /\ notify_pipe \in Seq(Notification) /\ Len(notify_pipe) \in Nat
          /\ Len(notify_pipe') = Len(notify_pipe) + 1
          /\ notify_pipe'[Len(notify_pipe) + 1] = n
          /\ \A i \in 1 .. Len(notify_pipe) : notify_pipe'[i] = notify_pipe[i]
      BY <1>2 DEF IInv, TypeOK, PoolTypeOK, notify
    <2>3. ASSUME NEW m \in Elements(notify_pipe') PROVE m = n \/ m \in Elements(notify_pipe)
      <3>1. PICK i \in 1 .. Len(notify_pipe') : m = notify_pipe'[i]
        BY DEF Elements
      <3>2. CASE i \in 1 .. Len(notify_pipe)
        BY <2>2, <3>1, <3>2 DEF Elements
      <3>3. CASE i \notin 1 .. Len(notify_pipe)
        <4>1. i = Len(notify_pipe) + 1
          BY <2>2, <3>3
        <4> QED
          BY <2>2, <3>1, <4>1
      <3> QED
        BY <3>2, <3>3
    <2> QED
      BY <1>2, <2>1, <2>3 DEF Coded, AllLined
  <1> QED
    BY <1>1, <1>2 DEF Writes

\* While a transfer command is worked on, no answer ends it.
LEMMA BusyEnds ==
  ASSUME Orderly, NEW f \in Fds, Connected(f), Busy(f) = 1
  PROVE  Ends(f) = 0
  <1>1. OpenNat(f)
    BY CountedType DEF Orderly, AllCounted
  <1>2. Ends(f) \in Nat
    BY <1>1 DEF OpenNat
  <1>3. ASSUME Ends(f) > 0 PROVE FALSE
    <2>1. Busy(f) = 0
      BY <1>3, NothingElse
    <2> QED
      BY <2>1
  <1> QED
    BY <1>2, <1>3

LEMMA PostWrites ==
  ASSUME NEW f \in Fds, NEW code \in ReplyCodes \ {226}, NEW port \in Ports \cup {NULL},
         Post(f, code, port), Connected(f) /\ code = 150 => Ends(f) = 0
  PROVE  Writes
  <1>1. PICK n : n = [fd |-> f, action |-> "CTRL_WRITE",
                      reply |-> [code |-> code, port |-> port]]
    OBVIOUS
  <1>2. /\ n \in Notification /\ n.fd = f /\ n.action = "CTRL_WRITE" /\ n.reply.code = code
        /\ notify(n)
    BY <1>1 DEF Notification, Reply, Post
  <1>3. \A g \in Fds : Connected(g) /\ Says(n, g, 150) => Ends(g) = 0
    BY <1>2 DEF Says
  <1> QED
    BY <1>2, <1>3 DEF Writes

LEMMA PasvWrites ==
  ASSUME NEW f \in Fds, PasvPost(f)
  PROVE  Writes
  <1>1. PICK n : n = [fd |-> f, action |-> "PASV"]
    OBVIOUS
  <1>2. n \in Notification /\ n.action = "PASV" /\ notify(n)
    BY <1>1 DEF Notification, PasvPost
  <1>3. \A g \in Fds : ~Says(n, g, 150)
    BY <1>2 DEF Says
  <1> QED
    BY <1>2, <1>3 DEF Writes

LEMMA SessionReadWrites ==
  ASSUME Orderly, NEW t \in SessionThreads, SessionRead(t), fault = "none",
         UNCHANGED <<disks, reactorVars>>
  PROVE  Writes
  <1>h. PICK h : h = Head(session_pool[t])
    OBVIOUS
  <1>f. PICK f : f = h.fd
    OBVIOUS
  <1>s. PICK s : s = sessions[f]
    OBVIOUS
  <1>1. /\ SessionTake(t, "READ") /\ s # NULL
        /\ LET lines == s.recv_command \o h.buf IN
           run_fsm_command(f, [s EXCEPT !.recv_command = Tail(lines)], Head(lines))
    BY <1>h, <1>f, <1>s DEF SessionRead, ForSession
  <1>2. h \in SessionTask /\ f \in Fds /\ Took(f, h, "READ")
    BY <1>h, <1>f, <1>1, SessionTakes
  <1>3. /\ IInv /\ SessionTypeOK /\ FileTypeOK /\ OneLine(f)
        /\ h \in MyTasks(f) /\ h.action = "READ"
    BY <1>2 DEF Orderly, IInv, TypeOK, Took, Part
  <1>4. s \in Session /\ s.recv_command = <<>>
    BY <1>s, <1>1, <1>2, <1>3 DEF SessionTypeOK, OneLine
  <1>5. h.buf \in Seq(Command) /\ Len(h.buf) = 1
    BY <1>2, <1>3, SessionTaskFields DEF OneLine
  <1>6. s.recv_command \o h.buf = h.buf
    BY <1>4, <1>5
  <1>c. PICK c : c = h.buf[1]
    OBVIOUS
  <1>7. Head(h.buf) = c /\ Tail(h.buf) = <<>> /\ c \in Command
    BY <1>5, <1>c, OneElement
  <1>8. [s EXCEPT !.recv_command = <<>>] = s
    BY <1>4 DEF Session
  <1>9. run_fsm_command(f, s, c)
    BY <1>1, <1>6, <1>7, <1>8
  <1>10. CommandEnds(f, s, c)
    BY <1>2, <1>3, <1>4, <1>7, <1>9, CommandKinds
  <1>11. \/ \E code \in ReplyCodes \ {150, 226, 227} : Post(f, code, NULL)
         \/ PasvPost(f)
         \/ notify_pipe' = notify_pipe
    BY <1>10 DEF CommandEnds
  <1>12. ASSUME NEW code \in ReplyCodes \ {150, 226, 227}, Post(f, code, NULL) PROVE Writes
    BY <1>2, <1>12, PostWrites
  <1> QED
    BY <1>2, <1>11, <1>12, PasvWrites DEF Writes

LEMMA SessionWrites ==
  ASSUME Orderly, AllFit, NEW t \in SessionThreads, SessionThread(t)
  PROVE  Writes
  <1>h. PICK h : h = Head(session_pool[t])
    OBVIOUS
  <1>f. PICK f : f = h.fd
    OBVIOUS
  <1>s. PICK s : s = sessions[f]
    OBVIOUS
  <1>1. /\ fault = "none" /\ UNCHANGED <<disks, reactorVars>>
        /\ \/ SessionAccept(t) \/ SessionPasv(t) \/ SessionDataAccept(t) \/ SessionStorStart(t)
           \/ SessionTransOk(t) \/ SessionRead(t) \/ SessionDropped(t)
    BY DEF SessionThread, SessionStep
  <1>2. ASSUME NEW act, SessionTake(t, act) PROVE f \in Fds /\ Took(f, h, act) /\ h \in SessionTask
    BY <1>h, <1>f, <1>1, <1>2, SessionTakes
  <1>3. CASE SessionAccept(t)
    <2>1. SessionTake(t, "CTRL_ACCEPT") /\ Post(f, 220, NULL)
      BY <1>3, <1>h, <1>f DEF SessionAccept
    <2>2. 220 \in ReplyCodes \ {226}
      BY DEF ReplyCodes
    <2> QED
      BY <1>2, <2>1, <2>2, PostWrites
  <1>4. CASE SessionPasv(t)
    <2>1. SessionTake(t, "PASV") /\ (Post(f, 227, h.port) \/ Post(f, 502, NULL))
      BY <1>4, <1>h, <1>f DEF SessionPasv, ForSession, run_pasv, Answer
    <2>2. f \in Fds /\ h.port \in Ports
      <3>1. f \in Fds /\ h \in SessionTask /\ h.action = "PASV"
        BY <1>2, <2>1 DEF Took
      <3> QED
        BY <3>1, SessionTaskFields
    <2>3. 227 \in ReplyCodes \ {226} /\ 502 \in ReplyCodes \ {226}
      BY DEF ReplyCodes
    <2> QED
      BY <2>1, <2>2, <2>3, PostWrites
  <1>m. ASSUME f \in Fds, Connected(f), Busy(f) = 1, Post(f, 150, NULL) PROVE Writes
    <2>1. Ends(f) = 0
      BY <1>m, BusyEnds
    <2>2. 150 \in ReplyCodes \ {226}
      BY DEF ReplyCodes
    <2> QED
      BY <1>m, <2>1, <2>2, PostWrites
  <1>5. CASE SessionDataAccept(t)
    <2>1. /\ SessionTake(t, "DATA_ACCEPT") /\ s # NULL
          /\ \/ s.data_action \in {"DATA_LIST", "DATA_RETR"} /\ Post(f, 150, NULL)
             \/ notify_pipe' = notify_pipe
      BY <1>5, <1>h, <1>f, <1>s
      DEF SessionDataAccept, ForSession, run_list_load, run_stor_load, run_retr_load
    <2>2. f \in Fds /\ Connected(f)
      BY <1>2, <2>1 DEF Took
    <2>3. s.data_action \in {"DATA_LIST", "DATA_RETR"} => Busy(f) = 1
      BY <1>s, <2>1 DEF Busy, Act
    <2> QED
      BY <1>m, <2>1, <2>2, <2>3 DEF Writes
  <1>6. CASE SessionStorStart(t)
    <2>1. SessionTake(t, "STOR_START") /\ Post(f, 150, NULL)
      BY <1>6, <1>h, <1>f DEF SessionStorStart, ForSession, run_stor_start, Answer
    <2>2. f \in Fds /\ Connected(f) /\ Took(f, h, "STOR_START")
      BY <1>2, <2>1 DEF Took
    <2>3. Facts(f) /\ Fits(f) /\ IInv
      BY <2>2, FactsNow DEF Orderly, AllFacts, AllFit
    <2>4. h \in MyTasks(f) /\ h.action = "STOR_START"
      BY <2>2 DEF Took
    <2>8. PoolTypeOK
      BY DEF Orderly, IInv, TypeOK
    <2>5. Tasks(f, "STOR_START") # 0
      BY <2>2, <2>3, <2>4, <2>8, NoneWaiting
    <2>6. Tasks(f, "STOR_START") > 0 /\ MarksFit(f)
      BY <2>2, <2>3, <2>5, FitsNow
    <2>7. Busy(f) = 1
      BY <2>6 DEF MarksFit, Busy
    <2> QED
      BY <1>m, <2>1, <2>2, <2>7
  <1>7. CASE SessionTransOk(t)
    <2>1. SessionTake(t, "TRANS_OK") /\ PostTransferOk(f, 226)
      BY <1>7, <1>h, <1>f DEF SessionTransOk, ForSession, run_transfer_ok
    <2>2. PICK n : n = [fd |-> f, action |-> "TRANS_OK",
                        reply |-> [code |-> 226, port |-> NULL]]
      OBVIOUS
    <2>3. f \in Fds /\ 226 \in ReplyCodes
      BY <1>2, <2>1 DEF ReplyCodes
    <2>4. n \in Notification /\ n.action = "TRANS_OK" /\ n.reply.code = 226 /\ notify(n)
      BY <2>1, <2>2, <2>3 DEF Notification, Reply, PostTransferOk
    <2>5. \A g \in Fds : ~Says(n, g, 150)
      BY <2>4 DEF Says
    <2> QED
      BY <2>4, <2>5 DEF Writes
  <1>8. CASE SessionRead(t)
    BY <1>1, <1>8, SessionReadWrites
  <1>9. CASE SessionDropped(t)
    BY <1>9 DEF SessionDropped, Writes
  <1> QED
    BY <1>1, <1>3, <1>4, <1>5, <1>6, <1>7, <1>8, <1>9

-----------------------------------------------------------------------------
(* What the disk threads write, and the order of the answers after a step  *)
(* of a pool thread.                                                       *)

LEMMA BlockWrites ==
  ASSUME IInv, IInv', NEW f, NEW data, DataPost(f, data)
  PROVE  Writes
  <1>1. PICK n : n = [fd |-> f, action |-> "DATA_WRITE", data |-> data]
    OBVIOUS
  <1>2. n.action = "DATA_WRITE" /\ notify(n)
    BY <1>1 DEF DataPost
  <1>3. n \in Notification
    <2>1. notify_pipe' = Append(notify_pipe, n)
      BY <1>2 DEF notify
    <2>2. notify_pipe \in Seq(Notification) /\ notify_pipe' \in Seq(Notification)
      BY DEF IInv, TypeOK, PoolTypeOK
    <2> QED
      BY <2>1, <2>2, LastType
  <1>4. \A g \in Fds : ~Says(n, g, 150)
    BY <1>2 DEF Says
  <1> QED
    BY <1>2, <1>3, <1>4 DEF Writes

LEMMA DiskWrites ==
  ASSUME IInv, IInv', NEW t \in DiskThreads, DiskThread(t)
  PROVE  Writes
  <1>1. DiskStep(t)
    BY DEF DiskThread
  <1>2. notify_pipe' = notify_pipe \/ \E f, data : DataPost(f, data)
    <2>1. CASE DiskIndexStart(t)
      BY <2>1 DEF DiskIndexStart
    <2>2. CASE DiskStorStart(t)
      BY <2>2 DEF DiskStorStart
    <2>3. CASE DiskRetrStart(t)
      BY <2>3 DEF DiskRetrStart
    <2>4. CASE DiskRetrStartFails(t)
      BY <2>4 DEF DiskRetrStartFails
    <2>5. CASE DiskIndexLoading(t)
      BY <2>5 DEF DiskIndexLoading
    <2>6. CASE DiskRetrLoading(t)
      BY <2>6 DEF DiskRetrLoading
    <2>7. CASE DiskRetrLoadingFails(t)
      BY <2>7 DEF DiskRetrLoadingFails
    <2>8. CASE DiskDownloadDone(t)
      BY <2>8 DEF DiskDownloadDone
    <2>9. CASE DiskWriteDoneIgnored(t)
      BY <2>9 DEF DiskWriteDoneIgnored
    <2>10. CASE DiskStoring(t)
      BY <2>10 DEF DiskStoring
    <2>11. CASE DiskStoringFails(t)
      BY <2>11 DEF DiskStoringFails
    <2>12. CASE DiskStorOk(t)
      BY <2>12 DEF DiskStorOk
    <2>13. CASE DiskStorOkFails(t)
      BY <2>13 DEF DiskStorOkFails
    <2>14. CASE DiskMissing(t)
      BY <2>14 DEF DiskMissing
    <2> QED
      BY <1>1, <2>1, <2>2, <2>3, <2>4, <2>5, <2>6, <2>7, <2>8, <2>9, <2>10, <2>11,
         <2>12, <2>13, <2>14 DEF DiskStep
  <1> QED
    BY <1>2, BlockWrites DEF Writes

LEMMA PoolsLined ==
  ASSUME Orderly, Orderly', AllFit, Coded, AllLined,
         \/ \E t \in SessionThreads : SessionThread(t)
         \/ \E t \in DiskThreads : DiskThread(t)
  PROVE  Coded' /\ AllLined'
  <1>1. Writes
    <2>1. IInv /\ IInv'
      BY DEF Orderly
    <2> QED
      BY <2>1, SessionWrites, DiskWrites
  <1>2. clients' = clients /\ peers' = peers
    BY DEF SessionThread, DiskThread, reactorVars
  <1>3. IInv
    BY DEF Orderly
  <1> QED
    BY <1>1, <1>2, <1>3, WritesInLine

-----------------------------------------------------------------------------
(* The order of the answers after a step of the reactor.                   *)

AnswersStay(g) == Connected(g)' => Connected(g) /\ Replies(g)' = Replies(g)

LEMMA LinedKept ==
  ASSUME IInv, AllLined, Shortened(notify_pipe, notify_pipe'), NEW g \in Fds, AnswersStay(g)
  PROVE  Lined(g)'
  <1>1. CASE Connected(g)'
    <2>1. Connected(g) /\ Replies(g)' = Replies(g)
      BY <1>1 DEF AnswersStay
    <2>2. Shortened(Replies(g), Replies(g)')
      BY <2>1 DEF Shortened
    <2>3. Lined(g)
      BY DEF AllLined
    <2> QED
      BY <2>1, <2>2, <2>3, LinedTaken
  <1>2. CASE ~Connected(g)'
    BY <1>2, LinedPartsNext
  <1> QED
    BY <1>1, <1>2

LEMMA SameAnswers ==
  ASSUME ReactorTypeOK, NEW f \in Fds, Connected(f), peers' = peers,
         NEW d, SetClient(f, d), d.write_q = clients[f].write_q
  PROVE  \A g \in Fds : AnswersStay(g)
  <1>1. clients'[f] = d /\ \A g \in Fds : g # f => clients'[g] = clients[g]
    BY DEF ReactorTypeOK, SetClient
  <1>2. Replies(f)' = Replies(f)
    BY <1>1 DEF Replies
  <1>3. ASSUME NEW g \in Fds, g # f PROVE AnswersStay(g)
    BY <1>1, <1>3 DEF AnswersStay, Connected, Replies
  <1> QED
    BY <1>2, <1>3 DEF AnswersStay

LEMMA SameLined ==
  ASSUME IInv, Coded, AllLined, Shortened(notify_pipe, notify_pipe'),
         \A g \in Fds : AnswersStay(g)
  PROVE  Coded' /\ AllLined'
  BY CodedTaken, LinedKept DEF AllLined

\* A client that has just come has no answer.
LEMMA AcceptLined ==
  ASSUME Orderly, Coded, AllLined, NEW f \in Fds, on_accept(f)
  PROVE  Coded' /\ AllLined'
  <1>s. PICK script : script \in Scripts[f] /\ peers' = [peers EXCEPT ![f] = NewPeer(script)]
    BY DEF on_accept
  <1>1. /\ ~Connected(f) /\ clients' = [clients EXCEPT ![f] = NewClient]
        /\ notify_pipe' = notify_pipe
    BY DEF on_accept, SetClient, Connected
  <1>2. IInv /\ ReactorTypeOK /\ MyNotices(f) = {}
    BY <1>1, AbsentCounts DEF Orderly, IInv, TypeOK
  <1>3. Shortened(notify_pipe, notify_pipe')
    BY <1>1 DEF Shortened
  <1>4. ASSUME NEW g \in Fds, g # f PROVE Lined(g)'
    <2>1. clients'[g] = clients[g] /\ peers'[g] = peers[g]
      BY <1>1, <1>2, <1>4, <1>s DEF ReactorTypeOK
    <2>2. AnswersStay(g)
      BY <2>1 DEF AnswersStay, Connected, Replies
    <2> QED
      BY <1>2, <1>3, <2>2, LinedKept
  <1>5. Replies(f)' = <<>>
    <2>1. clients'[f] = NewClient /\ peers'[f] = NewPeer(script)
      BY <1>1, <1>2, <1>s DEF ReactorTypeOK
    <2>2. NewClient.write_q = <<>> /\ NewPeer(script).outq = <<>>
      BY DEF NewClient, NewPeer
    <2>3. Replies(f)' = <<>> \o <<>>
      BY <2>1, <2>2 DEF Replies
    <2> QED
      BY <2>3
  <1>6. RepliesLined(f)' /\ Parted(f)'
    BY <1>5 DEF RepliesLined, Parted, Elements
  <1>7. PipeLined(f)'
    <2>1. SUFFICES ASSUME NEW i \in 1 .. Len(notify_pipe), EndsFor(notify_pipe[i], f)
                   PROVE  FALSE
      BY <1>1 DEF PipeLined
    <2>2. notify_pipe[i] \in MyNotices(f)
      BY <2>1 DEF EndsFor, MyNotices, Mine, Elements
    <2> QED
      BY <1>2, <2>2
  <1>8. Lined(f)'
    BY <1>6, <1>7, LinedPartsNext
  <1>9. Coded'
    BY <1>2, <1>3, CodedTaken
  <1> QED
    BY <1>4, <1>8, <1>9 DEF AllLined

LEMMA ReadLinesLined ==
  ASSUME IInv, Coded, AllLined, NEW f \in Fds, on_read_lines(f)
  PROVE  Coded' /\ AllLined'
  <1>1. /\ <<"read", f>> \in ready /\ clients' = clients /\ notify_pipe' = notify_pipe
        /\ peers' = [peers EXCEPT ![f].inq = <<>>]
    BY DEF on_read_lines, Ran
  <1>2. ReactorTypeOK /\ CallbacksValid /\ ClientsWhole
    BY DEF IInv, TypeOK
  <1>3. peers[f] \in Peer
    BY <1>1, <1>2 DEF CallbacksValid, CtrlEvents, ClientsWhole, ReactorTypeOK
  <1>4. peers'[f].outq = peers[f].outq /\ \A g \in Fds : g # f => peers'[g] = peers[g]
    BY <1>1, <1>2, <1>3 DEF ReactorTypeOK, Peer
  <1>5. \A g \in Fds : AnswersStay(g)
    BY <1>1, <1>4 DEF AnswersStay, Connected, Replies
  <1>6. Shortened(notify_pipe, notify_pipe')
    BY <1>1 DEF Shortened
  <1> QED
    BY <1>5, <1>6, SameLined

\* What the data callbacks do to a client leaves its answers alone.
LEMMA DataLined ==
  ASSUME IInv, Coded, AllLined, NEW f \in Fds, DataStep(f)
  PROVE  Coded' /\ AllLined'
  <1>c. PICK c : c = clients[f]
    OBVIOUS
  <1>1. /\ \E e \in DataEvents : <<e, f>> \in ready
        /\ notify_pipe' = notify_pipe /\ peers' = peers
    BY DEF DataStep, data_accept, data_read_data, data_read_end, data_read_error, data_write,
       data_write_part, data_write_nothing, poolVars, Ran, DataEvents
  <1>2. ReactorTypeOK /\ CallbacksValid
    BY DEF IInv, TypeOK
  <1>3. Connected(f) /\ c \in TCP_client
    BY <1>1, <1>2, <1>c DEF CallbacksValid, ReactorTypeOK, Connected
  <1>4. \/ clients' = clients
        \/ \E d : SetClient(f, d) /\ d.write_q = c.write_q
    <2>1. CASE data_accept(f)
      <3>d. PICK d : d = [c EXCEPT !.data_fd = c.ev_data_accept, !.ev_data_write = FALSE]
        OBVIOUS
      <3>1. SetClient(f, d)
        BY <2>1, <1>c, <3>d DEF data_accept
      <3>2. d.write_q = c.write_q
        BY <1>3, <3>d DEF TCP_client
      <3> QED
        BY <3>1, <3>2
    <2>2. CASE data_read_data(f)
      <3>1. \/ clients' = clients
            \/ \E x : SetClient(f, [c EXCEPT !.file_buffer = x])
        BY <2>2, <1>c DEF data_read_data
      <3>2. ASSUME NEW x, SetClient(f, [c EXCEPT !.file_buffer = x])
            PROVE  \E d : SetClient(f, d) /\ d.write_q = c.write_q
        <4>d. PICK d : d = [c EXCEPT !.file_buffer = x]
          OBVIOUS
        <4>1. SetClient(f, d)
          BY <3>2, <4>d
        <4>2. d.write_q = c.write_q
          BY <1>3, <4>d DEF TCP_client
        <4> QED
          BY <4>1, <4>2
      <3> QED
        BY <3>1, <3>2
    <2>l. ASSUME NEW b, SetClient(f, clear_datafd(b)), b \in TCP_client, b.write_q = c.write_q
          PROVE  \E d : SetClient(f, d) /\ d.write_q = c.write_q
      <3>1. clear_datafd(b).write_q = b.write_q
        BY <2>l DEF clear_datafd, TCP_client
      <3> QED
        BY <2>l, <3>1
    <2>3. CASE data_read_end(f)
      <3>b. PICK b : b = [c EXCEPT !.file_buffer = <<>>]
        OBVIOUS
      <3>1. clients' = clients \/ SetClient(f, clear_datafd(b))
        BY <2>3, <1>c, <3>b DEF data_read_end
      <3>2. b \in TCP_client /\ b.write_q = c.write_q
        <4>1. <<>> \in Block
          BY DEF Block
        <4> QED
          BY <1>3, <3>b, <4>1 DEF TCP_client
      <3> QED
        BY <2>l, <3>1, <3>2
    <2>4. CASE data_read_error(f)
      <3>1. SetClient(f, clear_datafd(c))
        BY <2>4, <1>c DEF data_read_error
      <3> QED
        BY <1>3, <2>l, <3>1
    <2>5. CASE data_write(f)
      <3>d. PICK d : d = [c EXCEPT !.data_write_q = Tail(@), !.ev_data_write = FALSE]
        OBVIOUS
      <3>1. SetClient(f, d)
        BY <2>5, <1>c, <3>d DEF data_write
      <3>2. d.write_q = c.write_q
        BY <1>3, <3>d DEF TCP_client
      <3> QED
        BY <3>1, <3>2
    <2>6. CASE data_write_part(f)
      <3>1. \E x : SetClient(f, [c EXCEPT !.data_write_q = x])
        <4>1. PICK n : SetClient(f, [c EXCEPT !.data_write_q =
                          <<SubSeq(Head(c.data_write_q), n + 1, Len(Head(c.data_write_q)))>>
                            \o Tail(@)])
          BY <2>6, <1>c DEF data_write_part
        <4>x. PICK x : x = <<SubSeq(Head(c.data_write_q), n + 1, Len(Head(c.data_write_q)))>>
                             \o Tail(c.data_write_q)
          OBVIOUS
        <4>2. SetClient(f, [c EXCEPT !.data_write_q = x])
          BY <4>1, <4>x
        <4> QED
          BY <4>2
      <3>2. ASSUME NEW x, SetClient(f, [c EXCEPT !.data_write_q = x])
            PROVE  \E d : SetClient(f, d) /\ d.write_q = c.write_q
        <4>d. PICK d : d = [c EXCEPT !.data_write_q = x]
          OBVIOUS
        <4>1. SetClient(f, d)
          BY <3>2, <4>d
        <4>2. d.write_q = c.write_q
          BY <1>3, <4>d DEF TCP_client
        <4> QED
          BY <4>1, <4>2
      <3> QED
        BY <3>1, <3>2
    <2>7. CASE data_write_nothing(f)
      <3>d. PICK d : d = [c EXCEPT !.ev_data_write = FALSE]
        OBVIOUS
      <3>1. SetClient(f, d)
        BY <2>7, <1>c, <3>d DEF data_write_nothing
      <3>2. d.write_q = c.write_q
        BY <1>3, <3>d DEF TCP_client
      <3> QED
        BY <3>1, <3>2
    <2> QED
      BY <2>1, <2>2, <2>3, <2>4, <2>5, <2>6, <2>7 DEF DataStep
  <1>5. CASE clients' = clients
    BY <1>1, <1>5, SameLined DEF AnswersStay, Connected, Replies, Shortened
  <1>6. CASE \E d : SetClient(f, d) /\ d.write_q = c.write_q
    <2>1. PICK d : SetClient(f, d) /\ d.write_q = c.write_q
      BY <1>6
    <2>2. d.write_q = clients[f].write_q
      BY <2>1, <1>c
    <2>3. \A g \in Fds : AnswersStay(g)
      BY <1>1, <1>2, <1>3, <2>1, <2>2, SameAnswers
    <2>4. Shortened(notify_pipe, notify_pipe')
      BY <1>1 DEF Shortened
    <2> QED
      BY <2>3, <2>4, SameLined
  <1> QED
    BY <1>4, <1>5, <1>6

\* The next answer leaves the pipe.
LEMMA ServedLined ==
  ASSUME Orderly, Coded, AllLined, NEW f, NEW n, NEW action,
         action \in {"CTRL_WRITE", "TRANS_OK"}, TookNotice(f, n, action),
         UNCHANGED <<sessions, disks, session_pool, disk_pool, peers>>,
         NEW d \in TCP_client, SetClient(f, d), d.write_q = Append(clients[f].write_q, n.reply),
         notify_pipe # <<>>, n = Head(notify_pipe), notify_pipe' = Tail(notify_pipe)
  PROVE  Coded' /\ AllLined'
  <1>1. /\ f \in Fds /\ Connected(f) /\ n.fd = f /\ n.action \in {"CTRL_WRITE", "TRANS_OK"}
        /\ IInv /\ Lined(f)
    BY DEF TookNotice, Orderly, AllLined
  <1>2. /\ n.reply \in Reply /\ Replies(f)' = Append(Replies(f), n.reply)
        /\ \A g \in Fds : g # f => clients'[g] = clients[g]
    BY AnswerServed
  <1>3. Lined(f)'
    BY <1>1, <1>2, LinedServed
  <1>4. Shortened(notify_pipe, notify_pipe')
    BY DEF Shortened
  <1>5. ASSUME NEW g \in Fds, g # f PROVE Lined(g)'
    <2>1. AnswersStay(g)
      BY <1>2, <1>5 DEF AnswersStay, Connected, Replies
    <2> QED
      BY <1>1, <1>4, <2>1, LinedKept
  <1>6. Coded'
    BY <1>1, <1>4, CodedTaken
  <1> QED
    BY <1>3, <1>5, <1>6 DEF AllLined

LEMMA AnswerLined ==
  ASSUME Orderly, Coded, AllLined, UNCHANGED <<sessions, disks>>,
         on_notify_ctrl_write \/ on_notify_trans_ok
  PROVE  Coded' /\ AllLined'
  <1>n. PICK n : n = Head(notify_pipe)
    OBVIOUS
  <1>f. PICK f : f = n.fd
    OBVIOUS
  <1>c. PICK c : c = clients[f]
    OBVIOUS
  <1>b. PICK b : b = Queued(c, n.reply)
    OBVIOUS
  <1>0. CallbacksValid
    BY DEF Orderly, IInv, TypeOK
  <1>1. ASSUME f \in Fds, c \in TCP_client, n \in Notification,
               n.action \in {"CTRL_WRITE", "TRANS_OK"}
        PROVE  b \in TCP_client /\ b.write_q = Append(clients[f].write_q, n.reply)
    <2>1. n.reply \in Reply
      BY <1>1 DEF Notification
    <2> QED
      BY <1>1, <1>b, <1>c, <2>1, AppendProperties DEF Queued, TCP_client
  <1>2. CASE on_notify_ctrl_write
    <2>1. /\ Notified("CTRL_WRITE", {}) /\ SetClient(f, b)
          /\ UNCHANGED <<session_pool, disk_pool, peers>>
      BY <1>2, <1>n, <1>f, <1>c, <1>b DEF on_notify_ctrl_write
    <2>2. TookNotice(f, n, "CTRL_WRITE")
      BY <1>n, <1>f, <2>1, NoticeServed DEF EventsOf
    <2>3. notify_pipe # <<>> /\ notify_pipe' = Tail(notify_pipe)
      BY <1>0, <2>1 DEF Notified, Ran, CallbacksValid
    <2>4. b \in TCP_client /\ b.write_q = Append(clients[f].write_q, n.reply)
      BY <1>1, <1>c, <2>2 DEF TookNotice
    <2> QED
      BY <1>n, <2>1, <2>2, <2>3, <2>4, ServedLined
  <1>3. CASE on_notify_trans_ok
    <2>d. PICK d : d = clear_datafd(b)
      OBVIOUS
    <2>1. /\ Notified("TRANS_OK", DataEventsOf(f)) /\ SetClient(f, d)
          /\ UNCHANGED <<session_pool, disk_pool, peers>>
      BY <1>3, <1>n, <1>f, <1>c, <1>b, <2>d DEF on_notify_trans_ok
    <2>2. TookNotice(f, n, "TRANS_OK")
      <3>1. DataEventsOf(f) \subseteq EventsOf(f)
        BY DEF DataEventsOf, EventsOf
      <3> QED
        BY <1>n, <1>f, <2>1, <3>1, NoticeServed
    <2>3. notify_pipe # <<>> /\ notify_pipe' = Tail(notify_pipe)
      BY <1>0, <2>1 DEF Notified, Ran, CallbacksValid
    <2>4. b \in TCP_client /\ b.write_q = Append(clients[f].write_q, n.reply)
      BY <1>1, <1>c, <2>2 DEF TookNotice
    <2>5. d \in TCP_client /\ d.write_q = Append(clients[f].write_q, n.reply)
      BY <2>4, <2>d DEF clear_datafd, TCP_client
    <2> QED
      BY <1>n, <2>1, <2>2, <2>3, <2>5, ServedLined
  <1> QED
    BY <1>2, <1>3

\* Other records are no answers.
LEMMA OtherLined ==
  ASSUME Orderly, Coded, AllLined, on_notify_pasv \/ on_notify_data_write
  PROVE  Coded' /\ AllLined'
  <1>n. PICK n : n = Head(notify_pipe)
    OBVIOUS
  <1>f. PICK f : f = n.fd
    OBVIOUS
  <1>c. PICK c : c = clients[f]
    OBVIOUS
  <1>0. CallbacksValid /\ IInv /\ ReactorTypeOK
    BY DEF Orderly, IInv, TypeOK
  <1>1. PICK action : Notified(action, {})
    BY DEF on_notify_pasv, on_notify_data_write
  <1>2. TookNotice(f, n, action)
    BY <1>n, <1>f, <1>1, NoticeServed DEF EventsOf
  <1>3. f \in Fds /\ Connected(f) /\ c \in TCP_client
    BY <1>2, <1>c DEF TookNotice
  <1>4. Shortened(notify_pipe, notify_pipe')
    BY <1>0, <1>1 DEF Notified, Ran, CallbacksValid, Shortened
  <1>5. peers' = peers
    BY DEF on_notify_pasv, on_notify_data_write
  <1>6. \/ clients' = clients
        \/ \E d : SetClient(f, d) /\ d.write_q = c.write_q
    <2>1. CASE on_notify_pasv
      <3>1. \/ clients' = clients
            \/ \E p : \/ SetClient(f, [c EXCEPT !.listen_fd = p, !.ev_data_accept = p])
                      \/ SetClient(f, [c EXCEPT !.listen_fd = p])
        BY <2>1, <1>n, <1>f, <1>c DEF on_notify_pasv
      <3>2. CASE \E p : SetClient(f, [c EXCEPT !.listen_fd = p, !.ev_data_accept = p])
        <4>d. PICK p, d : /\ SetClient(f, [c EXCEPT !.listen_fd = p, !.ev_data_accept = p])
                          /\ d = [c EXCEPT !.listen_fd = p, !.ev_data_accept = p]
          BY <3>2
        <4>1. d.write_q = c.write_q
          BY <1>3, <4>d DEF TCP_client
        <4> QED
          BY <4>d, <4>1
      <3>3. CASE \E p : SetClient(f, [c EXCEPT !.listen_fd = p])
        <4>d. PICK p, d : /\ SetClient(f, [c EXCEPT !.listen_fd = p])
                          /\ d = [c EXCEPT !.listen_fd = p]
          BY <3>3
        <4>1. d.write_q = c.write_q
          BY <1>3, <4>d DEF TCP_client
        <4> QED
          BY <4>d, <4>1
      <3> QED
        BY <3>1, <3>2, <3>3
    <2>2. CASE on_notify_data_write
      <3>d. PICK d : d = [c EXCEPT !.data_write_q = Append(@, n.data),
                                   !.ev_data_write = c.data_fd # NULL]
        OBVIOUS
      <3>1. SetClient(f, d)
        BY <2>2, <1>n, <1>f, <1>c, <3>d DEF on_notify_data_write
      <3>2. d.write_q = c.write_q
        BY <1>3, <3>d DEF TCP_client
      <3> QED
        BY <3>1, <3>2
    <2> QED
      BY <2>1, <2>2
  <1>7. CASE clients' = clients
    <2>1. \A g \in Fds : AnswersStay(g)
      BY <1>5, <1>7 DEF AnswersStay, Connected, Replies
    <2> QED
      BY <1>0, <1>4, <2>1, SameLined
  <1>8. CASE \E d : SetClient(f, d) /\ d.write_q = c.write_q
    <2>1. PICK d : SetClient(f, d) /\ d.write_q = clients[f].write_q
      BY <1>8, <1>c
    <2>2. \A g \in Fds : AnswersStay(g)
      BY <1>0, <1>3, <1>5, <2>1, SameAnswers
    <2> QED
      BY <1>0, <1>4, <2>2, SameLined
  <1> QED
    BY <1>6, <1>7, <1>8

LEMMA ReactorLined ==
  ASSUME Orderly, AllFit, Coded, AllLined, Timeouts = FALSE, Reactor
  PROVE  Coded' /\ AllLined'
  <1>1. fault = "none" /\ ReactorStep /\ UNCHANGED <<sessions, disks>> /\ IInv
    BY DEF Reactor, Orderly
  <1>2. CASE Poll
    <2>1. UNCHANGED <<notify_pipe, clients, peers>>
      BY <1>2 DEF Poll, poolVars
    <2>2. \A g \in Fds : AnswersStay(g)
      BY <2>1 DEF AnswersStay, Connected, Replies
    <2>3. Shortened(notify_pipe, notify_pipe')
      BY <2>1 DEF Shortened
    <2> QED
      BY <1>1, <2>2, <2>3, SameLined
  <1>3. CASE NotifyStep
    BY <1>1, <1>3, NoNullClient, AnswerLined, OtherLined DEF NotifyStep
  <1>4. ASSUME NEW f \in Fds, CtrlStep(f) PROVE Coded' /\ AllLined'
    <2>1. CASE on_write(f)
      <3>1. /\ \A g \in Fds : Connected(g)' => Connected(g) /\ Replies(g)' = Replies(g)
            /\ notify_pipe' = notify_pipe
        BY <1>1, <2>1, WriteFits
      <3>2. \A g \in Fds : AnswersStay(g)
        BY <3>1 DEF AnswersStay
      <3>3. Shortened(notify_pipe, notify_pipe')
        BY <3>1 DEF Shortened
      <3> QED
        BY <1>1, <3>2, <3>3, SameLined
    <2> QED
      BY <1>1, <1>4, <2>1, AcceptLined, ReadLinesLined, NobodyGoes DEF CtrlStep
  <1>5. ASSUME NEW f \in Fds, DataStep(f) PROVE Coded' /\ AllLined'
    BY <1>1, <1>5, DataLined
  <1>6. ASSUME NEW f \in Fds, on_timeout(f) PROVE FALSE
    BY <1>6 DEF on_timeout
  <1> QED
    BY <1>1, <1>2, <1>3, <1>4, <1>5, <1>6 DEF ReactorStep, DispatchStep

-----------------------------------------------------------------------------
(* The order of the answers after a step of a client.                      *)

LEMMA ReceivedLined ==
  ASSUME IInv, NEW f \in Fds, Connected(f), clients' = clients, peers[f].outq # <<>>,
         peers'[f].outq = Tail(peers[f].outq)
  PROVE  Shortened(Replies(f), Replies(f)')
  <1>o. PICK o, q : o = peers[f].outq /\ q = clients[f].write_q
    OBVIOUS
  <1>r. PICK r : r = Replies(f)
    OBVIOUS
  <1>1. r \in Seq(Reply) /\ o \in Seq(Reply) /\ q \in Seq(Reply) /\ o # <<>>
    BY <1>o, <1>r, RepliesElements
  <1>2. r = o \o q /\ Replies(f)' = Tail(o) \o q
    BY <1>o, <1>r DEF Replies
  <1>3. r # <<>> /\ Tail(r) = Tail(o) \o q
    BY <1>1, <1>2, TailOfJoined
  <1> QED
    BY <1>2, <1>3, <1>r DEF Shortened

LEMMA ClientLined ==
  ASSUME Orderly, Coded, AllLined, Habits = {}, Client
  PROVE  Coded' /\ AllLined'
  <1>1. PICK f \in Fds :
          /\ ClientProgress(f) \/ ClientAbort(f) \/ ClientQuit(f)
          /\ UNCHANGED <<poolVars, clients, ready>>
    BY DEF Client, ClientStep, ClientProgress
  <1>o. PICK old : old = peers[f]
    OBVIOUS
  <1>2. ~ClientAbort(f) /\ ~ClientQuit(f)
    BY DEF ClientAbort, ClientQuit
  <1>3. IInv /\ ReactorTypeOK /\ clients' = clients /\ notify_pipe' = notify_pipe
    BY <1>1 DEF Orderly, IInv, TypeOK, poolVars
  <1>4. Alive(f)
    BY <1>1, <1>2 DEF ClientProgress, ClientSend, ClientReceive, ClientConnect, ClientUpload,
       ClientUploadEnd, Uploading
  <1>5. Connected(f) /\ old \in Peer
    BY <1>4, <1>o DEF Orderly, IInv, TypeOK, ReactorTypeOK, Part, Absent, Alive
  <1>6. ASSUME NEW g \in Fds, Shortened(Replies(g), Replies(g)') PROVE Lined(g)'
    BY <1>3, <1>6, LinedTaken DEF AllLined, Connected, Shortened
  <1>7. /\ \A g \in Fds : g # f => peers'[g] = peers[g]
        /\ \/ peers'[f].outq = old.outq
           \/ old.outq # <<>> /\ peers'[f].outq = Tail(old.outq)
    <2>s. ASSUME NEW me, SetPeer(f, me)
          PROVE  peers'[f] = me /\ \A g \in Fds : g # f => peers'[g] = peers[g]
      BY <1>3, <2>s DEF SetPeer, ReactorTypeOK
    <2>1. CASE ClientSend(f)
      <3>m. PICK inq, todo, wait, xfer, started, left, me :
              /\ me = [old EXCEPT !.inq = inq, !.todo = todo, !.wait = wait, !.xfer = xfer,
                                  !.started = started, !.left = left]
              /\ SetPeer(f, me)
        BY <2>1, <1>o DEF ClientSend
      <3>1. me.outq = old.outq
        BY <1>5, <3>m DEF Peer
      <3> QED
        BY <2>s, <3>m, <3>1
    <2>2. CASE ClientReceive(f)
      <3>1. old.outq # <<>>
        BY <2>2, <1>o DEF ClientReceive
      <3>m. PICK me : SetPeer(f, me) /\ me.outq = Tail(old.outq)
        <4>r. PICK read : read = [old EXCEPT !.outq = Tail(@)]
          OBVIOUS
        <4>a. PICK answered : answered = [read EXCEPT !.wait = IF @ > 0 THEN @ - 1 ELSE 0]
          OBVIOUS
        <4>1. read.outq = Tail(old.outq) /\ DOMAIN read = DOMAIN old
          BY <1>5, <4>r DEF Peer
        <4>2. answered.outq = Tail(old.outq) /\ DOMAIN answered = DOMAIN old
          BY <4>1, <4>a
        <4>c. PICK code, port, next :
                 /\ code = Head(old.outq).code /\ port = Head(old.outq).port
                 /\ next = IF old.xfer = NULL THEN answered.port ELSE NULL
          OBVIOUS
        <4>3. /\ code = 150 => SetPeer(f, [read EXCEPT !.started = TRUE])
              /\ code = 227 => SetPeer(f, [answered EXCEPT !.port = port])
              /\ code \notin {150, 227} =>
                   SetPeer(f, [answered EXCEPT !.xfer = NULL, !.port = next])
          BY <2>2, <1>o, <4>r, <4>a, <4>c DEF ClientReceive
        <4>4. /\ [read EXCEPT !.started = TRUE].outq = Tail(old.outq)
              /\ [answered EXCEPT !.port = port].outq = Tail(old.outq)
              /\ [answered EXCEPT !.xfer = NULL, !.port = next].outq = Tail(old.outq)
          BY <4>1, <4>2
        <4> QED
          BY <4>3, <4>4
      <3> QED
        BY <2>s, <3>1, <3>m
    <2>3. CASE ClientConnect(f)
      BY <2>3, <1>o DEF ClientConnect
    <2>4. CASE ClientUpload(f)
      <3>m. PICK me : me = [old EXCEPT !.left = Tail(@)]
        OBVIOUS
      <3>1. SetPeer(f, me)
        BY <2>4, <1>o, <3>m DEF ClientUpload
      <3>2. me.outq = old.outq
        BY <1>5, <3>m DEF Peer
      <3> QED
        BY <2>s, <3>1, <3>2
    <2>5. CASE ClientUploadEnd(f)
      BY <2>5, <1>o DEF ClientUploadEnd
    <2> QED
      BY <1>1, <1>2, <2>1, <2>2, <2>3, <2>4, <2>5 DEF ClientProgress
  <1>8. Shortened(Replies(f), Replies(f)')
    <2>1. CASE peers'[f].outq = old.outq
      BY <1>3, <1>o, <2>1 DEF Replies, Shortened
    <2>2. CASE old.outq # <<>> /\ peers'[f].outq = Tail(old.outq)
      BY <1>3, <1>5, <1>o, <2>2, ReceivedLined
    <2> QED
      BY <1>7, <2>1, <2>2
  <1>9. ASSUME NEW g \in Fds, g # f PROVE Shortened(Replies(g), Replies(g)')
    BY <1>3, <1>7, <1>9 DEF Replies, Shortened
  <1>10. AllLined'
    BY <1>6, <1>8, <1>9 DEF AllLined
  <1>11. Coded'
    BY <1>3 DEF Coded
  <1> QED
    BY <1>10, <1>11

-----------------------------------------------------------------------------
(* The invariant.                                                          *)

\* At the start no client is connected and nothing is queued.
LEMMA InitAnswered == Init => Answered
  <1> SUFFICES ASSUME Init PROVE Answered
    OBVIOUS
  <1>1. Orderly
    BY InitOrderly
  <1>2. /\ disk_pool = [t \in DiskThreads |-> <<>>] /\ notify_pipe = <<>>
        /\ data_sock = [p \in Ports |-> FreeSock]
    BY DEF Init, PoolInit, ReactorInit
  <1>3. \A f \in Fds : ~Connected(f)
    BY DEF Init, ReactorInit, Connected
  <1>4. Coded
    BY <1>2 DEF Coded, Elements
  <1>5. NoReset
    BY <1>2 DEF NoReset, FreeSock
  <1>6. \A f \in Fds : Fits(f) /\ Lined(f)
    BY <1>3 DEF Fits, Lined
  <1>7. ASSUME NEW f \in Fds PROVE UploadOrder(f)
    <2>1. DiskQueue(f) = <<>>
      BY <1>2 DEF DiskQueue
    <2>2. \A a, b : NoneBehind(<<>>, f, a, b)
      BY DEF NoneBehind
    <2> QED
      BY <2>1, <2>2 DEF UploadOrder
  <1> QED
    BY <1>1, <1>4, <1>5, <1>6, <1>7 DEF Answered

\* Every step of every thread and client preserves the invariant.
LEMMA AnsweredNext ==
  ASSUME Habits = {}, Timeouts = FALSE, Answered, [Next]_vars
  PROVE  Answered'
  <1>1. Orderly /\ Orderly' /\ AllFit /\ AllLined /\ AllUploads /\ Coded /\ NoReset
    BY OrderlyNext DEF Answered, AllFit, AllLined, AllUploads
  <1>2. CASE Next
    <2>1. AllFit'
      BY <1>1, <1>2, SessionFits, DiskThreadFits, ReactorFits, ClientFits
      DEF Next, AllLined, AllUploads
    <2>2. Coded' /\ AllLined'
      BY <1>1, <1>2, PoolsLined, ReactorLined, ClientLined DEF Next
    <2>3. AllUploads' /\ NoReset'
      BY <1>1, <1>2, UploadsNext, NoResetNext
    <2> QED
      BY <1>1, <2>1, <2>2, <2>3 DEF Answered, AllFit, AllLined, AllUploads
  <1>3. CASE UNCHANGED vars
    <2>1. /\ UNCHANGED <<session_pool, disk_pool, notify_pipe, fault, sessions, disks>>
          /\ UNCHANGED <<clients, peers, data_sock, ready>>
      BY <1>3 DEF vars, poolVars, reactorVars
    <2>2. Coded' /\ NoReset' /\ AllUploads'
      BY <1>1, <2>1, UploadKept DEF Coded, NoReset, AllUploads
    <2>3. AllLined'
      <3>1. \A g \in Fds : AnswersStay(g)
        BY <2>1 DEF AnswersStay, Connected, Replies
      <3>2. IInv /\ Shortened(notify_pipe, notify_pipe')
        BY <1>1, <2>1 DEF Orderly, Shortened
      <3> QED
        BY <1>1, <3>1, <3>2, SameLined
    <2>4. ASSUME NEW f \in Fds PROVE Fits(f)'
      <3>1. Apart(f)
        <4>1. TasksStay(f) /\ WorkStays(f) /\ NoticesStay(f)
          BY <2>1, TasksUnchanged, WorkUnchanged, NoticesUnchanged
        <4>2. Head(notify_pipe)' = Head(notify_pipe)
          BY <2>1
        <4> QED
          BY <2>1, <4>1, <4>2 DEF Apart
      <3>2. IInv /\ Facts(f) /\ Fits(f)
        BY <1>1, FactsNow DEF Orderly, AllFacts, AllFit
      <3> QED
        BY <3>1, <3>2, ApartFits
    <2> QED
      BY <1>1, <2>2, <2>3, <2>4 DEF Answered, AllLined, AllUploads
  <1> QED
    BY <1>2, <1>3

LEMMA AnsweredAlways ==
  ASSUME Habits = {}, Timeouts = FALSE
  PROVE  Spec => []Answered
  <1>1. Answered /\ [Next]_vars => Answered'
    BY AnsweredNext
  <1> QED
    BY <1>1, InitAnswered, PTL DEF Spec

-----------------------------------------------------------------------------
(* What follows from it.                                                   *)

\* The 226 of a transfer, which the session thread posts when the disk thread
\* is done, never overtakes the 150, which is posted by com_LIST, com_RETR or,
\* for an upload, only once the disk thread has opened the file.
THEOREM MarkComesBefore226 ==
  ASSUME Habits = {}, Timeouts = FALSE
  PROVE  Spec => []MarkBefore226
  <1>1. ASSUME Answered PROVE MarkBefore226
    <2>0. SUFFICES ASSUME NEW f \in Fds, Connected(f)
                   PROVE  /\ \A i \in 1 .. Len(Replies(f)) : Replies(f)[i].code = 226 =>
                               \/ peers[f].started
                               \/ \E j \in 1 .. i - 1 : Replies(f)[j].code = 150
                          /\ \A i \in 1 .. Len(notify_pipe) : Says(notify_pipe[i], f, 226) =>
                               \/ peers[f].started
                               \/ \E r \in Elements(Replies(f)) : r.code = 150
                               \/ \E j \in 1 .. i - 1 : Says(notify_pipe[j], f, 150)
      BY DEF MarkBefore226
    <2>1. /\ Said(f, 226) => peers[f].started \/ Given(f, 150) \/ Coming(f, 150)
          /\ RepliesLined(f) /\ Parted(f) /\ PipeLined(f)
      BY <1>1, <2>0, LinedParts DEF Answered, Fits, MarksFit, Marked, Said
    <2>2. ASSUME NEW i \in 1 .. Len(Replies(f)), Replies(f)[i].code = 226, ~peers[f].started
          PROVE  \E j \in 1 .. i - 1 : Replies(f)[j].code = 150
      <3>1. Replies(f)[i] \in Elements(Replies(f))
        BY DEF Elements
      <3>2. Given(f, 226) /\ ~Coming(f, 150)
        BY <2>1, <2>2, <3>1 DEF Given, Parted
      <3>3. Given(f, 150)
        BY <2>1, <2>2, <3>2 DEF Said
      <3>4. PICK j \in 1 .. Len(Replies(f)) : Replies(f)[j].code = 150
        BY <3>3 DEF Given, Elements
      <3>5. ~(i < j) /\ i # j
        BY <2>1, <2>2, <3>4 DEF RepliesLined
      <3>6. j \in 1 .. i - 1
        BY <3>4, <3>5
      <3> QED
        BY <3>4, <3>6
    <2>3. ASSUME NEW i \in 1 .. Len(notify_pipe), Says(notify_pipe[i], f, 226),
                 ~peers[f].started, ~Given(f, 150)
          PROVE  \E j \in 1 .. i - 1 : Says(notify_pipe[j], f, 150)
      <3>1. Coming(f, 226)
        BY <2>3, InThePipe
      <3>2. Coming(f, 150)
        BY <2>1, <2>3, <3>1 DEF Said
      <3>3. PICK j \in 1 .. Len(notify_pipe) : Says(notify_pipe[j], f, 150)
        BY <3>2, FromThePipe
      <3>4. EndsFor(notify_pipe[i], f)
        BY <2>3 DEF Says, EndsFor
      <3>5. ~(i < j) /\ i # j
        <4>1. i # j
          BY <2>3, <3>3 DEF Says
        <4> QED
          BY <2>1, <3>3, <3>4, <4>1 DEF PipeLined
      <3>6. j \in 1 .. i - 1
        BY <3>3, <3>5
      <3> QED
        BY <3>3, <3>6
    <2> QED
      BY <2>2, <2>3 DEF Given
  <1> QED
    BY <1>1, AnsweredAlways, PTL

\* When the 226 is with the reactor, nothing of the transfer is left anywhere:
\* on_notify has closed both sockets, the disk thread has dropped its
\* disk_info, no task of it is queued, and the session waits for commands.
THEOREM TransfersEndClean ==
  ASSUME Habits = {}, Timeouts = FALSE
  PROVE  Spec => []CleanAfter226
  <1>1. ASSUME Answered PROVE CleanAfter226
    <2>0. SUFFICES ASSUME NEW f \in Fds, Acknowledged(f)
                   PROVE  /\ Held(f) = {}
                          /\ clients[f].data_write_q = <<>> /\ clients[f].file_buffer = <<>>
                          /\ disks[f] = NULL
                          /\ sessions[f].data_action = "DATA_WAITING"
                          /\ \A action \in {"WRITE_DONE", "STORING", "STOR_OK"} :
                               Count(DiskQueue(f), f, action) = 0
      BY DEF CleanAfter226
    <2>1. Connected(f) /\ peers[f].xfer # NULL /\ Given(f, 226) /\ Said(f, 226) /\ Over(f)
      BY <2>0 DEF Acknowledged, Given, Said, Over
    <2>2. Orderly /\ IInv /\ MarksFit(f) /\ BytesFit(f) /\ EndsFit(f) /\ OwnSocket(f)
      <3>1. Orderly /\ Fits(f)
        BY <1>1 DEF Answered
      <3>2. Facts(f)
        BY <3>1, FactsNow DEF AllFacts
      <3> QED
        BY <2>1, <3>1, <3>2 DEF Fits, Facts, Orderly
    <2>3. Held(f) = {} /\ clients[f].data_fd = NULL
      BY <2>1, <2>2 DEF EndsFit, Held
    <2>4. clients[f].file_buffer = <<>>
      BY <2>1, <2>2, <2>3 DEF BytesFit, OwnSocket
    <2>5. disks[f] = NULL
      <3>1. Ends(f) > 0
        BY <2>1, <2>2, SaidEnds
      <3>2. Under(f) = 0
        BY <2>1, <2>2, <3>1, NothingElse
      <3>3. UnderNat(f)
        BY <2>2, CountedType DEF AllCounted
      <3> QED
        BY <3>2, <3>3 DEF UnderNat, Under, Serves
    <2>6. sessions[f].data_action = "DATA_WAITING"
      BY <2>1, <2>2 DEF MarksFit, Act
    <2>7. /\ clients[f].data_write_q = <<>>
          /\ Work(f, "STORING") = 0 /\ Work(f, "STOR_OK") = 0 /\ Work(f, "WRITE_DONE") = 0
      BY <2>1, <2>2 DEF EndsFit
    <2> QED
      BY <2>3, <2>4, <2>5, <2>6, <2>7 DEF Work
  <1> QED
    BY <1>1, AnsweredAlways, PTL
=============================================================================
