----------------------------- MODULE AnswerProofs -----------------------------
(***************************************************************************)
(* The 150 and the 226 of a transfer, for clients that keep the rules:     *)
(* what the steps of the threads keep.  EndingProofs goes on with the      *)
(* clients and the order of the answers, and proves MarkBefore226 and      *)
(* CleanAfter226.                                                          *)
(*                                                                         *)
(* The inductive invariant Answered adds to Orderly where the answers of a *)
(* transfer are (Lined, Coded), what they say of its data connection and   *)
(* of its work (Fits), and in which order an upload's tasks come           *)
(* (UploadOrder).                                                          *)
(***************************************************************************)
EXTENDS TransferProofs

-----------------------------------------------------------------------------
(* Where the answers of a transfer are.                                    *)

\* An answer is with the reactor, or on its way to it.
Given(f, code)  == \E r \in Elements(Replies(f)) : r.code = code
Coming(f, code) == \E n \in MyNotices(f) : Says(n, f, code)
Said(f, code)   == Given(f, code) \/ Coming(f, code)

Upload(f) == peers[f].xfer # NULL /\ peers[f].xfer.verb \in Uploads

\* The 150 of the transfer in hand has been posted, or its session is told to.
Marked(f) == (peers[f].xfer # NULL /\ peers[f].started) \/ Said(f, 150)
Begun(f)  == Marked(f) \/ Tasks(f, "STOR_START") > 0

\* The data connection is not at the disk threads yet.
Early(f) ==
  Calls(f) \/ Dial(f).peer = "none" \/ Accepts(f) > 0 \/ Work(f, "STOR_START") > 0

\* The disk threads are done with the transfer.
Over(f) == Tasks(f, "TRANS_OK") > 0 \/ Said(f, 226)

\* The end of an upload has reached the disk threads.
Ending(f) ==
  \/ DAct(f) \in UploadStates /\ Work(f, "STOR_OK") > 0
  \/ Act(f) = "DATA_STOR" /\ Tasks(f, "TRANS_OK") > 0
  \/ Upload(f) /\ Said(f, 226)

-----------------------------------------------------------------------------
(* How they fit to what the threads have of a client.                      *)

\* The 150 comes when the data connection is at the disk threads, or with it.
MarksFit(f) ==
  /\ Begun(f) => /\ peers[f].xfer # NULL /\ ~Early(f)
                 /\ Act(f) \in Serving \/ Said(f, 226)
                 /\ clients[f].data_fd \in {peers[f].port, NULL}
  /\ Tasks(f, "STOR_START") > 0 =>
       ~Marked(f) /\ Tasks(f, "STOR_START") = 1 /\ Act(f) = "DATA_STOR"
  /\ Act(f) \in {"DATA_INDEX_DOWNLOAD", "DATA_FILE_DOWNLOAD"} => Marked(f)
  /\ DAct(f) \in UploadStates => Begun(f)
  /\ Said(f, 226) => Marked(f) /\ Act(f) = "DATA_WAITING"

\* What is sent is an upload whose 150 was received, and ends once.
BytesFit(f) ==
  /\ Upload(f) /\ (Dial(f).inq # <<>> \/ Dial(f).peer = "fin") => peers[f].started
  /\ clients[f].file_buffer # <<>> =>
       Upload(f) /\ peers[f].started /\ clients[f].data_fd = peers[f].port
  /\ clients[f].data_fd # NULL /\ data_sock[clients[f].data_fd].inq # <<>> =>
       Upload(f) /\ clients[f].data_fd = peers[f].port
  /\ Calls(f) => data_sock[clients[f].ev_data_accept].inq = <<>>
  /\ Upload(f) /\ Begun(f) => /\ Work(f, "STOR_OK") <= 1
                              /\ clients[f].data_fd # NULL => Work(f, "STOR_OK") = 0

\* What is over leaves nothing behind.
EndsFit(f) ==
  /\ Ending(f) => /\ peers[f].started /\ Held(f) = {}
                  /\ clients[f].ev_data_accept = NULL /\ clients[f].file_buffer = <<>>
  /\ Over(f) => /\ Work(f, "STORING") = 0 /\ Work(f, "STOR_OK") = 0
                /\ Work(f, "WRITE_DONE") = 0 /\ clients[f].data_write_q = <<>>
  /\ Given(f, 226) => Held(f) = {} /\ clients[f].ev_data_accept = NULL

Fits(f) == Connected(f) => MarksFit(f) /\ BytesFit(f) /\ EndsFit(f)

\* No 150 is behind the answer that ends its command.
Lined(f) ==
  Connected(f) =>
    /\ \A i, j \in 1 .. Len(Replies(f)) :
         i < j /\ Replies(f)[i].code # 150 => Replies(f)[j].code # 150
    /\ (\E r \in Elements(Replies(f)) : r.code # 150) => ~Coming(f, 150)
    /\ \A i, j \in 1 .. Len(notify_pipe) :
         i < j /\ EndsFor(notify_pipe[i], f) => ~Says(notify_pipe[j], f, 150)

\* The tasks of an upload are in order.
UploadOrder(f) ==
  /\ NoneBehind(DiskQueue(f), f, "STOR_START", "STOR_OK")
  /\ NoneBehind(DiskQueue(f), f, "STOR_OK", "STORING")

\* A 226 is a record of its own kind.
Coded ==
  \A n \in Elements(notify_pipe) :
    /\ n.action = "CTRL_WRITE" => n.reply.code # 226
    /\ n.action = "TRANS_OK" => n.reply.code = 226

\* Nobody resets a data connection.
NoReset == \A p \in Ports : data_sock[p].peer # "reset"

Answered ==
  /\ Orderly /\ Coded /\ NoReset
  /\ \A f \in Fds : Fits(f) /\ Lined(f) /\ UploadOrder(f)

-----------------------------------------------------------------------------
(* What Orderly says of these.                                             *)

\* The answers are those in the client's socket and in write_q.
LEMMA RepliesElements ==
  ASSUME IInv, NEW f \in Fds, Connected(f)
  PROVE  /\ Replies(f) \in Seq(Reply)
         /\ peers[f].outq \in Seq(Reply) /\ clients[f].write_q \in Seq(Reply)
         /\ Elements(Replies(f)) = Elements(peers[f].outq) \cup Elements(clients[f].write_q)
  <1>1. peers[f] \in Peer /\ clients[f] \in TCP_client
    BY DEF IInv, TypeOK, ReactorTypeOK, Connected, ClientsWhole
  <1>q. PICK p, q : p = peers[f].outq /\ q = clients[f].write_q
    OBVIOUS
  <1>2. p \in Seq(Reply) /\ q \in Seq(Reply)
    BY <1>q, <1>1 DEF Peer, TCP_client
  <1> DEFINE r == p \o q
  <1>3. /\ Len(p) \in Nat /\ Len(q) \in Nat /\ r \in Seq(Reply)
        /\ Len(r) = Len(p) + Len(q)
        /\ \A i \in 1 .. Len(r) : r[i] = IF i <= Len(p) THEN p[i] ELSE q[i - Len(p)]
    BY <1>2
  <1>4. ASSUME NEW x \in Elements(r) PROVE x \in Elements(p) \cup Elements(q)
    <2>1. PICK i \in 1 .. Len(r) : x = r[i]
      BY DEF Elements
    <2>2. CASE i <= Len(p)
      <3>1. i \in 1 .. Len(p) /\ x = p[i]
        BY <1>3, <2>1, <2>2
      <3> QED
        BY <3>1 DEF Elements
    <2>3. CASE ~(i <= Len(p))
      <3>1. i - Len(p) \in 1 .. Len(q) /\ x = q[i - Len(p)]
        BY <1>3, <2>1, <2>3
      <3> QED
        BY <3>1 DEF Elements
    <2> QED
      BY <2>2, <2>3
  <1>5. ASSUME NEW x \in Elements(p) PROVE x \in Elements(r)
    <2>1. PICK i \in 1 .. Len(p) : x = p[i]
      BY DEF Elements
    <2>2. i \in 1 .. Len(r) /\ x = r[i]
      BY <1>3, <2>1
    <2> QED
      BY <2>2 DEF Elements
  <1>6. ASSUME NEW x \in Elements(q) PROVE x \in Elements(r)
    <2>1. PICK i \in 1 .. Len(q) : x = q[i]
      BY DEF Elements
    <2>2. i + Len(p) \in 1 .. Len(r) /\ x = r[i + Len(p)]
      BY <1>3, <2>1
    <2> QED
      BY <2>2 DEF Elements
  <1>7. Replies(f) = r
    BY <1>q DEF Replies
  <1> HIDE DEF r
  <1>8. Elements(r) = Elements(p) \cup Elements(q)
    BY <1>4, <1>5, <1>6
  <1> QED
    BY <1>q, <1>2, <1>3, <1>7, <1>8

\* Where no answer ends a command there is no 226.
LEMMA SaidNone ==
  ASSUME IInv, NEW f \in Fds, Connected(f), Ends(f) = 0, NEW c, c # 150
  PROVE  ~Said(f, c)
  <1>0. PoolTypeOK /\ notify_pipe \in Seq(Notification)
    BY DEF IInv, TypeOK, PoolTypeOK
  <1>1. /\ peers[f].outq \in Seq(Reply) /\ clients[f].write_q \in Seq(Reply)
        /\ Elements(Replies(f)) = Elements(peers[f].outq) \cup Elements(clients[f].write_q)
    BY RepliesElements
  <1>2. /\ FinalNotices(f) \in Nat /\ Finals(clients[f].write_q) \in Nat
        /\ Finals(peers[f].outq) \in Nat
    BY <1>0, <1>1, FinalNoticesNone, FinalsNone
  <1>3. /\ FinalNotices(f) = 0 /\ Finals(clients[f].write_q) = 0
        /\ Finals(peers[f].outq) = 0
    BY <1>2 DEF Ends
  <1>4. /\ \A r \in Elements(peers[f].outq) : r.code = 150
        /\ \A r \in Elements(clients[f].write_q) : r.code = 150
    BY <1>1, <1>3, FinalsNone
  <1>5. ~Given(f, c)
    BY <1>1, <1>4 DEF Given
  <1>6. \A n \in MyNotices(f) : ~EndsFor(n, f)
    BY <1>0, <1>3, FinalNoticesNone
  <1>7. ~Coming(f, c)
    BY <1>6 DEF Coming, Says, EndsFor
  <1> QED
    BY <1>5, <1>7 DEF Said

\* Where an answer ends a command, one ends it.
LEMMA SaidEnds ==
  ASSUME IInv, NEW f \in Fds, Connected(f), NEW c, c # 150, Said(f, c)
  PROVE  Ends(f) > 0
  <1>1. Ends(f) \in Nat
    BY OpenType DEF OpenNat
  <1> QED
    BY <1>1, SaidNone

\* A transfer at the disk threads: its connection has been accepted.
AtWork(f) ==
  Work(f, "STOR_START") > 0 \/ Tasks(f, "TRANS_OK") > 0 \/ DAct(f) # "NONE"

Reached(f) ==
  clients[f].data_fd \in {peers[f].port, NULL} /\ ~Calls(f) /\ Dial(f).peer # "none"

\* One transfer at a time, in one place.
OneAtWork(f) ==
  /\ Busy(f) = 1 => peers[f].xfer # NULL /\ ~Said(f, 226)
  /\ Act(f) \in Serving => Busy(f) = 1
  /\ Act(f) = "DATA_STOR" => Upload(f)
  /\ Upload(f) => Act(f) \notin {"DATA_INDEX_DOWNLOAD", "DATA_FILE_DOWNLOAD"}
  /\ AtWork(f) => Act(f) \in Serving /\ Accepts(f) = 0 /\ Reached(f)
  /\ Work(f, "STOR_START") > 0 =>
       Work(f, "STOR_START") = 1 /\ Tasks(f, "TRANS_OK") = 0 /\ DAct(f) = "NONE"
  /\ Tasks(f, "TRANS_OK") > 0 => Tasks(f, "TRANS_OK") = 1 /\ DAct(f) = "NONE"
  /\ Accepts(f) > 0 /\ peers[f].xfer # NULL => Accepts(f) = 1 /\ Reached(f)
  /\ Work(f, "STOR_START") > 0 \/ DAct(f) \in UploadStates => Act(f) = "DATA_STOR"
  /\ DAct(f) \in DownloadStates =>
       /\ Act(f) \in {"DATA_INDEX_DOWNLOAD", "DATA_FILE_DOWNLOAD"}
       /\ Work(f, "STORING") = 0 /\ Work(f, "STOR_OK") = 0
  /\ DAct(f) \in {"NONE"} \cup UploadStates \cup DownloadStates
  /\ fault = "none" /\ DAct(f) \notin DownloadStates =>
       /\ Sent(f, "DATA_WRITE") = 0 /\ Work(f, "WRITE_DONE") = 0
       /\ clients[f].data_write_q = <<>>

\* The connection of the transfer in hand.
OwnSocket(f) ==
  /\ peers[f].xfer # NULL =>
       /\ peers[f].port # NULL
       /\ ~Upload(f) => Dial(f).inq = <<>> /\ Dial(f).peer \in {"none", "open"}
       /\ Calls(f) => clients[f].ev_data_accept = peers[f].port
  /\ peers[f].xfer = NULL /\ peers[f].port # NULL => Dial(f).inq = <<>> /\ Dial(f).peer = "none"

Facts(f) ==
  /\ \A a : Tasks(f, a) \in Nat /\ Work(f, a) \in Nat
  /\ Connected(f) => /\ Ends(f) \in Nat /\ (Ends(f) = 0 => ~Said(f, 226))
                     /\ OneAtWork(f) /\ OwnSocket(f)

LEMMA SessionActs ==
  ASSUME IInv, NEW f \in Fds
  PROVE  /\ Act(f) \in DataActions \cup {"NONE"}
         /\ DAct(f) \in {"NONE"} \cup UploadStates \cup DownloadStates
         /\ DAct(f) # "NONE" <=> disks[f] # NULL
  <1>1. sessions[f] \in Session \cup {NULL} /\ disks[f] \in DiskInfo \cup {NULL}
    BY DEF IInv, TypeOK, SessionTypeOK, DiskTypeOK
  <1>2. Act(f) \in DataActions \cup {"NONE"}
    BY <1>1 DEF Act, Session
  <1>3. disks[f] # NULL => DAct(f) \in DiskActions
    BY <1>1 DEF DAct, DiskInfo
  <1>4. DiskActions = UploadStates \cup DownloadStates /\ "NONE" \notin DiskActions
    BY DEF DiskActions, UploadStates, DownloadStates
  <1> QED
    BY <1>2, <1>3, <1>4 DEF DAct

LEMMA FactsOf ==
  ASSUME Orderly, NEW f \in Fds
  PROVE  Facts(f)
  <1>1. /\ IInv /\ Absent(f) /\ OneCommand(f) /\ OneTransfer(f) /\ KindsAgree(f)
        /\ InHand(f) /\ Accepting(f) /\ Quiet(f) /\ DiskOrder(f) /\ OneBlock(f)
    BY DEF Orderly, Part
  <1>2. \A a : Tasks(f, a) \in Nat /\ Work(f, a) \in Nat /\ Sent(f, a) \in Nat
    BY <1>1, NumbersType DEF IInv, TypeOK, Numbers
  <1> SUFFICES ASSUME Connected(f)
               PROVE  /\ Ends(f) \in Nat /\ (Ends(f) = 0 => ~Said(f, 226))
                      /\ OneAtWork(f) /\ OwnSocket(f)
    BY <1>2 DEF Facts
  <1>3. OpenNat(f) /\ UnderNat(f)
    BY <1>1, OpenType, UnderType
  <1>4. Ends(f) \in Nat /\ (Ends(f) = 0 => ~Said(f, 226))
    BY <1>1, <1>3, SaidNone DEF OpenNat
  <1>5. /\ Act(f) \in DataActions \cup {"NONE"}
        /\ DAct(f) \in {"NONE"} \cup UploadStates \cup DownloadStates
        /\ DAct(f) # "NONE" <=> disks[f] # NULL
    BY <1>1, SessionActs
  <1>6. Busy(f) = 1 => /\ peers[f].xfer # NULL /\ Ends(f) = 0
                       /\ peers[f].xfer.verb \in VerbsOf(Act(f))
    BY <1>1, <1>3 DEF OneCommand, Open, InHand, OpenNat
  <1>7. Act(f) \in Serving => Busy(f) = 1
    BY DEF Serving, Busy
  <1>8. /\ Act(f) = "DATA_STOR" => Upload(f)
        /\ Upload(f) => Act(f) \notin {"DATA_INDEX_DOWNLOAD", "DATA_FILE_DOWNLOAD"}
    BY <1>6, <1>7 DEF Upload, VerbsOf, Uploads, Serving
  <1>9. /\ Work(f, "STOR_START") <= Starts(f) /\ Starts(f) \in Nat
        /\ Under(f) = Starts(f) + Serves(f) + Tasks(f, "TRANS_OK")
        /\ Serves(f) = IF disks[f] = NULL THEN 0 ELSE 1
    BY <1>2, <1>3 DEF Starts, Under, Serves, UnderNat
  <1>10. Under(f) <= 1 /\ (Under(f) > 0 => Act(f) \in Serving)
    BY <1>1, <1>3 DEF OneTransfer, UnderNat
  <1>11. /\ Work(f, "STOR_START") > 0 =>
              Work(f, "STOR_START") = 1 /\ Tasks(f, "TRANS_OK") = 0 /\ DAct(f) = "NONE"
         /\ Tasks(f, "TRANS_OK") > 0 => Tasks(f, "TRANS_OK") = 1 /\ DAct(f) = "NONE"
         /\ AtWork(f) => Under(f) = 1
    BY <1>2, <1>5, <1>9, <1>10 DEF AtWork
  <1>12. peers[f].xfer # NULL =>
           /\ peers[f].port # NULL
           /\ Calls(f) => clients[f].ev_data_accept = peers[f].port
           /\ Calls(f) \/ Dial(f).peer = "none" => Accepts(f) = 0 /\ Under(f) = 0
           /\ Accepts(f) + Under(f) <= 1
           /\ Accepts(f) + Under(f) >= 1 => clients[f].data_fd \in {peers[f].port, NULL}
    BY <1>1 DEF InHand, Accepting, Quiet, Dial
  <1>13. AtWork(f) => Act(f) \in Serving /\ Accepts(f) = 0 /\ Reached(f)
    <2>1. AtWork(f) => Act(f) \in Serving /\ peers[f].xfer # NULL /\ Under(f) = 1
      BY <1>6, <1>7, <1>10, <1>11
    <2>2. Accepts(f) \in Nat
      BY <1>3 DEF UnderNat
    <2> QED
      BY <1>12, <2>1, <2>2 DEF Reached
  <1>14. Accepts(f) > 0 /\ peers[f].xfer # NULL => Accepts(f) = 1 /\ Reached(f)
    BY <1>3, <1>12 DEF Reached, UnderNat
  <1>15. DAct(f) \in DownloadStates =>
           /\ Act(f) \in {"DATA_INDEX_DOWNLOAD", "DATA_FILE_DOWNLOAD"}
           /\ Work(f, "STORING") = 0 /\ Work(f, "STOR_OK") = 0
    BY <1>1 DEF KindsAgree, DiskOrder, DownloadStates
  <1>16. fault = "none" /\ DAct(f) \notin DownloadStates =>
           /\ Sent(f, "DATA_WRITE") = 0 /\ Work(f, "WRITE_DONE") = 0
           /\ clients[f].data_write_q = <<>>
    <2>1. clients[f].data_write_q \in Seq(Block)
      BY <1>1 DEF IInv, TypeOK, ReactorTypeOK, Connected, TCP_client
    <2>2. Len(clients[f].data_write_q) \in Nat
          /\ (Len(clients[f].data_write_q) = 0 => clients[f].data_write_q = <<>>)
      BY <2>1, EmptySeq
    <2> QED
      BY <1>1, <1>2, <2>2 DEF OneBlock
  <1>17. OneAtWork(f)
    BY <1>1, <1>4, <1>5, <1>6, <1>7, <1>8, <1>11, <1>13, <1>14, <1>15, <1>16
       DEF OneAtWork, KindsAgree
  <1>18. OwnSocket(f)
    <2>1. peers[f].xfer # NULL /\ ~Upload(f) =>
            Dial(f).inq = <<>> /\ Dial(f).peer \in {"none", "open"}
      BY <1>1 DEF InHand, Upload, Transfers, Quiet, Dial
    <2>2. peers[f].xfer = NULL /\ peers[f].port # NULL =>
            Dial(f).inq = <<>> /\ Dial(f).peer = "none"
      BY <1>1 DEF Quiet, Promised, Dial
    <2> QED
      BY <1>12, <2>1, <2>2 DEF OwnSocket
  <1> QED
    BY <1>4, <1>17, <1>18

AllFacts == \A f \in Fds : Facts(f)

LEMMA FactsNow == Orderly => AllFacts
  BY FactsOf DEF AllFacts

LEMMA FactsNext == Orderly' => AllFacts'
  BY FactsNow, PTL

-----------------------------------------------------------------------------
(* Steps of the session and disk threads: the reactor has what it had.     *)

SpotStays(f) ==
  /\ clients'[f] = clients[f] /\ peers'[f] = peers[f] /\ data_sock' = data_sock
  /\ Connected(f) /\ Connected(f)' /\ Dial(f)' = Dial(f) /\ Held(f)' = Held(f)
  /\ (Calls(f)' <=> Calls(f)) /\ (Upload(f)' <=> Upload(f))
  /\ \A c : Given(f, c)' <=> Given(f, c)

LEMMA SpotOf ==
  ASSUME NEW f \in Fds, Connected(f), ReactorStays(f)
  PROVE  SpotStays(f) /\ Replies(f)' = Replies(f)
  <1>1. /\ clients'[f] = clients[f] /\ peers'[f] = peers[f] /\ data_sock' = data_sock
    BY DEF ReactorStays
  <1>2. Connected(f)' /\ Dial(f)' = Dial(f) /\ Held(f)' = Held(f) /\ Replies(f)' = Replies(f)
    BY <1>1 DEF Connected, Dial, Held, Replies
  <1>3. (Calls(f)' <=> Calls(f)) /\ (Upload(f)' <=> Upload(f))
    BY <1>1 DEF Calls, Upload
  <1>4. \A c : Given(f, c)' <=> Given(f, c)
    BY <1>2 DEF Given
  <1> QED
    BY <1>1, <1>2, <1>3, <1>4 DEF SpotStays

\* What comes after a record for f was written, or none.
LEMMA ComingAfter ==
  ASSUME NEW f \in Fds, NEW n, MyNotices(f)' = MyNotices(f) \cup {n}
  PROVE  \A c : Coming(f, c)' <=> Coming(f, c) \/ Says(n, f, c)
  BY DEF Coming, Says

LEMMA ComingStays ==
  ASSUME NEW f \in Fds, MyNotices(f)' = MyNotices(f)
  PROVE  \A c : Coming(f, c)' <=> Coming(f, c)
  BY DEF Coming, Says

\* The numbers and the parts, one by one.
LEMMA FitsNow ==
  ASSUME NEW f \in Fds, Facts(f), Fits(f), Connected(f)
  PROVE  /\ Tasks(f, "STOR_START") \in Nat /\ Tasks(f, "TRANS_OK") \in Nat
         /\ Accepts(f) \in Nat /\ Work(f, "STOR_START") \in Nat
         /\ Work(f, "STOR_OK") \in Nat /\ Work(f, "STORING") \in Nat
         /\ Work(f, "WRITE_DONE") \in Nat
         /\ OneAtWork(f) /\ OwnSocket(f) /\ (Ends(f) = 0 => ~Said(f, 226))
         /\ MarksFit(f) /\ BytesFit(f) /\ EndsFit(f)
  BY DEF Facts, Fits, Accepts

LEMMA FactsThen ==
  ASSUME NEW f \in Fds, Facts(f)', Connected(f)'
  PROVE  /\ Tasks(f, "STOR_START")' \in Nat /\ Tasks(f, "TRANS_OK")' \in Nat
         /\ Accepts(f)' \in Nat /\ Work(f, "STOR_START")' \in Nat
         /\ Work(f, "STOR_OK")' \in Nat /\ Work(f, "STORING")' \in Nat
         /\ Work(f, "WRITE_DONE")' \in Nat
         /\ OneAtWork(f)' /\ OwnSocket(f)' /\ (Ends(f)' = 0 => ~Said(f, 226)')
  BY DEF Facts, Accepts

\* What the queues hold for the disk threads stays.
UploadsStay(f) ==
  /\ Work(f, "STOR_OK")' = Work(f, "STOR_OK") /\ Work(f, "STORING")' = Work(f, "STORING")
  /\ Work(f, "WRITE_DONE")' = Work(f, "WRITE_DONE")

\* A client that is answered, and has no transfer at the threads.
LEMMA AnsweredFits ==
  ASSUME NEW f \in Fds, Facts(f), Fits(f), SpotStays(f), Busy(f) = 0, Ends(f) = 0,
         Tasks(f, "STOR_START")' = Tasks(f, "STOR_START"),
         Tasks(f, "TRANS_OK")' = Tasks(f, "TRANS_OK"),
         Work(f, "STOR_START")' = Work(f, "STOR_START"), UploadsStay(f), DAct(f)' = DAct(f),
         Act(f)' \notin {"DATA_INDEX_DOWNLOAD", "DATA_FILE_DOWNLOAD"},
         Coming(f, 150)' <=> Coming(f, 150), ~Coming(f, 226)'
  PROVE  Fits(f)'
  <1>0. Connected(f)
    BY DEF SpotStays
  <1>1. /\ OneAtWork(f) /\ (Ends(f) = 0 => ~Said(f, 226))
        /\ MarksFit(f) /\ BytesFit(f) /\ EndsFit(f) /\ Tasks(f, "TRANS_OK") \in Nat
        /\ Tasks(f, "STOR_START") \in Nat
    BY <1>0, FitsNow
  <1>2. ~Said(f, 226) /\ Act(f) \notin Serving
    BY <1>1 DEF OneAtWork
  <1>3. ~Begun(f) /\ ~AtWork(f)
    BY <1>1, <1>2 DEF MarksFit, OneAtWork
  <1>4. (Said(f, 150)' <=> Said(f, 150)) /\ ~Said(f, 226)'
    BY <1>2 DEF Said, SpotStays
  <1>5. ~Marked(f)' /\ ~Begun(f)'
    BY <1>3, <1>4 DEF Marked, Begun, SpotStays
  <1>6. DAct(f)' = "NONE" /\ Tasks(f, "TRANS_OK")' = 0 /\ Tasks(f, "STOR_START")' = 0
    BY <1>1, <1>3 DEF AtWork, Begun
  <1>7. MarksFit(f)'
    BY <1>4, <1>5, <1>6 DEF MarksFit, UploadStates
  <1>8. BytesFit(f)'
    BY <1>1, <1>5 DEF BytesFit, SpotStays
  <1>9. ~Ending(f)' /\ ~Over(f)' /\ ~Given(f, 226)'
    BY <1>4, <1>6 DEF Ending, Over, UploadStates, Said
  <1>10. EndsFit(f)'
    BY <1>9 DEF EndsFit
  <1> QED
    BY <1>7, <1>8, <1>10 DEF Fits

\* A task is taken, or the start of an upload goes to its disk thread.
LEMMA TakenFits ==
  ASSUME NEW f \in Fds, Facts(f), Fits(f), SpotStays(f),
         Tasks(f, "STOR_START")' = Tasks(f, "STOR_START"),
         Tasks(f, "TRANS_OK")' = Tasks(f, "TRANS_OK"),
         Accepts(f)' \in Nat, Accepts(f)' <= Accepts(f),
         \/ Work(f, "STOR_START")' = Work(f, "STOR_START")
         \/ Accepts(f) > 0 /\ peers[f].xfer # NULL,
         UploadsStay(f), DAct(f)' = DAct(f), Act(f)' = Act(f),
         \A c : Coming(f, c)' <=> Coming(f, c)
  PROVE  Fits(f)'
  <1>0. Connected(f)
    BY DEF SpotStays
  <1>1. /\ MarksFit(f) /\ BytesFit(f) /\ EndsFit(f) /\ Accepts(f) \in Nat
    BY <1>0, FitsNow
  <1>2. \A c : Said(f, c)' <=> Said(f, c)
    BY DEF Said, SpotStays
  <1>3. (Marked(f)' <=> Marked(f)) /\ (Begun(f)' <=> Begun(f))
    BY <1>2 DEF Marked, Begun, SpotStays
  <1>4. Begun(f)' => ~Early(f)'
    BY <1>1, <1>3 DEF MarksFit, Early, SpotStays
  <1>5. MarksFit(f)'
    BY <1>1, <1>2, <1>3, <1>4 DEF MarksFit, SpotStays
  <1>6. BytesFit(f)'
    BY <1>1, <1>3 DEF BytesFit, SpotStays, UploadsStay
  <1>7. (Ending(f)' <=> Ending(f)) /\ (Over(f)' <=> Over(f)) /\ (Given(f, 226)' <=> Given(f, 226))
    BY <1>2 DEF Ending, Over, UploadsStay, SpotStays
  <1>8. EndsFit(f)'
    BY <1>1, <1>7 DEF EndsFit, SpotStays, UploadsStay
  <1> QED
    BY <1>5, <1>6, <1>8 DEF Fits

\* A download goes to its disk thread, and its 150 to the client.
LEMMA LoadFits ==
  ASSUME NEW f \in Fds, Facts(f), Facts(f)', Fits(f), SpotStays(f),
         Accepts(f) > 0, Accepts(f)' = Accepts(f) - 1, Busy(f) = 1, Act(f) \notin Serving,
         Act(f)' \in {"DATA_INDEX_DOWNLOAD", "DATA_FILE_DOWNLOAD"},
         Tasks(f, "STOR_START")' = Tasks(f, "STOR_START"),
         Tasks(f, "TRANS_OK")' = Tasks(f, "TRANS_OK"),
         Work(f, "STOR_START")' = Work(f, "STOR_START"), UploadsStay(f), DAct(f)' = DAct(f),
         Coming(f, 150)', Coming(f, 226)' <=> Coming(f, 226)
  PROVE  Fits(f)'
  <1>0. Connected(f) /\ Connected(f)'
    BY DEF SpotStays
  <1>1. /\ OneAtWork(f) /\ OwnSocket(f) /\ MarksFit(f) /\ BytesFit(f) /\ EndsFit(f)
        /\ Tasks(f, "STOR_START") \in Nat /\ Work(f, "STOR_START") \in Nat
        /\ Tasks(f, "TRANS_OK") \in Nat /\ OneAtWork(f)'
    BY <1>0, FitsNow, FactsThen
  <1>2. /\ peers[f].xfer # NULL /\ ~Said(f, 226) /\ ~Begun(f) /\ ~AtWork(f)
        /\ Accepts(f) = 1 /\ Reached(f)
    BY <1>1 DEF OneAtWork, MarksFit
  <1>3. ~Said(f, 226)' /\ Said(f, 150)'
    BY <1>2 DEF Said, SpotStays
  <1>4. /\ Tasks(f, "STOR_START")' = 0 /\ Tasks(f, "TRANS_OK")' = 0
        /\ DAct(f)' = "NONE" /\ Work(f, "STOR_START")' = 0
    BY <1>1, <1>2 DEF Begun, AtWork
  <1>5. ~Early(f)'
    BY <1>2, <1>4 DEF Early, Reached, SpotStays
  <1>6. MarksFit(f)'
    BY <1>2, <1>3, <1>4, <1>5
       DEF MarksFit, Marked, Begun, Reached, SpotStays, Serving, UploadStates
  <1>7. ~Upload(f)'
    BY <1>1 DEF OneAtWork
  <1>8. BytesFit(f)'
    BY <1>1, <1>7 DEF BytesFit, SpotStays
  <1>9. ~Ending(f)' /\ ~Over(f)' /\ ~Given(f, 226)'
    BY <1>3, <1>4 DEF Ending, Over, UploadStates, Said
  <1>10. EndsFit(f)'
    BY <1>9 DEF EndsFit
  <1> QED
    BY <1>6, <1>8, <1>10 DEF Fits

\* The session of an upload posts its 150.
LEMMA MarkFits ==
  ASSUME NEW f \in Fds, Facts(f), Fits(f), SpotStays(f),
         Tasks(f, "STOR_START")' \in Nat,
         Tasks(f, "STOR_START") = Tasks(f, "STOR_START")' + 1,
         Tasks(f, "TRANS_OK")' = Tasks(f, "TRANS_OK"), Accepts(f)' = Accepts(f),
         Work(f, "STOR_START")' = Work(f, "STOR_START"), UploadsStay(f),
         DAct(f)' = DAct(f), Act(f)' = Act(f),
         Coming(f, 150)', Coming(f, 226)' <=> Coming(f, 226)
  PROVE  Fits(f)'
  <1>0. Connected(f)
    BY DEF SpotStays
  <1>1. MarksFit(f) /\ BytesFit(f) /\ EndsFit(f)
    BY <1>0, FitsNow
  <1>2. Begun(f) /\ ~Marked(f) /\ Act(f) = "DATA_STOR" /\ Tasks(f, "STOR_START")' = 0
    BY <1>1 DEF MarksFit, Begun
  <1>3. (Said(f, 226)' <=> Said(f, 226)) /\ Said(f, 150)' /\ Marked(f)' /\ Begun(f)'
    BY DEF Said, SpotStays, Marked, Begun
  <1>4. ~Early(f)'
    BY <1>1, <1>2 DEF MarksFit, Early, SpotStays
  <1>5. MarksFit(f)'
    BY <1>1, <1>2, <1>3, <1>4 DEF MarksFit, SpotStays
  <1>6. BytesFit(f)'
    BY <1>1, <1>2 DEF BytesFit, SpotStays, UploadsStay
  <1>7. (Ending(f)' <=> Ending(f)) /\ (Over(f)' <=> Over(f)) /\ (Given(f, 226)' <=> Given(f, 226))
    BY <1>3 DEF Ending, Over, UploadsStay, SpotStays
  <1>8. EndsFit(f)'
    BY <1>1, <1>7 DEF EndsFit, SpotStays, UploadsStay
  <1> QED
    BY <1>5, <1>6, <1>8 DEF Fits

\* The session posts the 226, and waits for the next command.
LEMMA DoneFits ==
  ASSUME NEW f \in Fds, Facts(f), Fits(f), SpotStays(f),
         Tasks(f, "STOR_START")' = Tasks(f, "STOR_START"),
         Tasks(f, "TRANS_OK")' \in Nat, Tasks(f, "TRANS_OK") = Tasks(f, "TRANS_OK")' + 1,
         Accepts(f)' = Accepts(f),
         Work(f, "STOR_START")' = Work(f, "STOR_START"), UploadsStay(f),
         DAct(f)' = DAct(f), Act(f)' = "DATA_WAITING",
         Coming(f, 226)', Coming(f, 150)' <=> Coming(f, 150)
  PROVE  Fits(f)'
  <1>0. Connected(f)
    BY DEF SpotStays
  <1>1. /\ OneAtWork(f) /\ MarksFit(f) /\ BytesFit(f) /\ EndsFit(f)
        /\ Tasks(f, "STOR_START") \in Nat /\ Tasks(f, "TRANS_OK") \in Nat
        /\ Work(f, "STOR_START") \in Nat
    BY <1>0, FitsNow
  <1>2. Tasks(f, "TRANS_OK") > 0 /\ Over(f) /\ AtWork(f)
    BY <1>1 DEF Over, AtWork
  <1>3. /\ Act(f) \in Serving /\ DAct(f) = "NONE" /\ peers[f].xfer # NULL /\ ~Said(f, 226)
        /\ Tasks(f, "TRANS_OK")' = 0
    BY <1>1, <1>2 DEF OneAtWork
  <1>4. Act(f) = "DATA_STOR" => Ending(f) /\ peers[f].started
    BY <1>1, <1>2 DEF Ending, EndsFit
  <1>5. Marked(f)
    BY <1>1, <1>3, <1>4 DEF MarksFit, Serving, Marked
  <1>6. Begun(f) /\ ~Early(f) /\ Tasks(f, "STOR_START") = 0
    BY <1>1, <1>5 DEF MarksFit, Begun
  <1>7. Said(f, 226)' /\ (Said(f, 150)' <=> Said(f, 150)) /\ Marked(f)' /\ Begun(f)' /\ ~Early(f)'
    BY <1>5, <1>6 DEF Said, SpotStays, Marked, Begun, Early
  <1>8. MarksFit(f)'
    BY <1>1, <1>3, <1>6, <1>7 DEF MarksFit, SpotStays, UploadStates
  <1>9. BytesFit(f)'
    BY <1>1, <1>6 DEF BytesFit, SpotStays, UploadsStay
  <1>10. Upload(f) => Act(f) = "DATA_STOR"
    BY <1>1, <1>3 DEF OneAtWork, Serving
  <1>11. Ending(f)' => Ending(f)
    BY <1>3, <1>4, <1>10 DEF Ending, SpotStays, UploadStates
  <1>12. Given(f, 226)' <=> Given(f, 226)
    BY DEF SpotStays
  <1>13. EndsFit(f)'
    BY <1>1, <1>2, <1>11, <1>12 DEF EndsFit, SpotStays, UploadsStay
  <1> QED
    BY <1>8, <1>9, <1>13 DEF Fits

\* A disk thread begins an upload, and tells its session.
LEMMA BegunFits ==
  ASSUME NEW f \in Fds, Facts(f), Fits(f), SpotStays(f),
         Tasks(f, "STOR_START")' = Tasks(f, "STOR_START") + 1,
         Tasks(f, "TRANS_OK")' = Tasks(f, "TRANS_OK"), Accepts(f)' = Accepts(f),
         Work(f, "STOR_START") = Work(f, "STOR_START")' + 1, Work(f, "STOR_START")' \in Nat,
         UploadsStay(f), Work(f, "STOR_OK")' = 0,
         DAct(f)' \in UploadStates, Act(f)' = Act(f),
         \A c : Coming(f, c)' <=> Coming(f, c)
  PROVE  Fits(f)'
  <1>0. Connected(f)
    BY DEF SpotStays
  <1>1. /\ OneAtWork(f) /\ MarksFit(f) /\ BytesFit(f) /\ EndsFit(f)
        /\ Tasks(f, "STOR_START") \in Nat /\ Work(f, "STOR_START") \in Nat
        /\ Tasks(f, "TRANS_OK") \in Nat
    BY <1>0, FitsNow
  <1>2. Work(f, "STOR_START") > 0 /\ Early(f) /\ AtWork(f)
    BY <1>1 DEF Early, AtWork
  <1>3. /\ Act(f) = "DATA_STOR" /\ Act(f) \in Serving /\ peers[f].xfer # NULL /\ ~Said(f, 226)
        /\ Accepts(f) = 0 /\ Reached(f) /\ Tasks(f, "TRANS_OK") = 0
        /\ Work(f, "STOR_START")' = 0 /\ ~Begun(f)
    BY <1>1, <1>2 DEF OneAtWork, MarksFit
  <1>4. \A c : Said(f, c)' <=> Said(f, c)
    BY DEF Said, SpotStays
  <1>5. ~Marked(f)' /\ Begun(f)' /\ Tasks(f, "STOR_START")' = 1
    BY <1>1, <1>3, <1>4 DEF Marked, Begun, SpotStays
  <1>6. ~Early(f)'
    BY <1>3 DEF Early, Reached, SpotStays
  <1>7. MarksFit(f)'
    BY <1>3, <1>4, <1>5, <1>6 DEF MarksFit, Reached, SpotStays
  <1>8. BytesFit(f)'
    BY <1>1 DEF BytesFit, SpotStays
  <1>9. ~Ending(f)' /\ ~Over(f)' /\ ~Given(f, 226)'
    BY <1>3, <1>4 DEF Ending, Over, Said
  <1>10. EndsFit(f)'
    BY <1>9 DEF EndsFit
  <1> QED
    BY <1>7, <1>8, <1>10 DEF Fits

\* A disk thread goes on with a transfer, or begins a download.
LEMMA GoesOnFits ==
  ASSUME NEW f \in Fds, Facts(f), Facts(f)', Fits(f), SpotStays(f),
         Tasks(f, "STOR_START")' = Tasks(f, "STOR_START"),
         Tasks(f, "TRANS_OK")' = Tasks(f, "TRANS_OK"), Accepts(f)' = Accepts(f),
         Work(f, "STOR_START")' = Work(f, "STOR_START"),
         Work(f, "STOR_OK")' <= Work(f, "STOR_OK"), Work(f, "STORING")' <= Work(f, "STORING"),
         Work(f, "WRITE_DONE")' <= Work(f, "WRITE_DONE"),
         DAct(f)' \in UploadStates <=> DAct(f) \in UploadStates, Act(f)' = Act(f),
         \A c : Coming(f, c)' <=> Coming(f, c)
  PROVE  Fits(f)'
  <1>0. Connected(f) /\ Connected(f)'
    BY DEF SpotStays
  <1>1. /\ MarksFit(f) /\ BytesFit(f) /\ EndsFit(f)
        /\ Work(f, "STOR_OK") \in Nat /\ Work(f, "STORING") \in Nat
        /\ Work(f, "WRITE_DONE") \in Nat
        /\ Work(f, "STOR_OK")' \in Nat /\ Work(f, "STORING")' \in Nat
        /\ Work(f, "WRITE_DONE")' \in Nat
    BY <1>0, FitsNow, FactsThen
  <1>2. \A c : Said(f, c)' <=> Said(f, c)
    BY DEF Said, SpotStays
  <1>3. (Marked(f)' <=> Marked(f)) /\ (Begun(f)' <=> Begun(f)) /\ (Early(f)' <=> Early(f))
    BY <1>2 DEF Marked, Begun, Early, SpotStays
  <1>4. MarksFit(f)'
    BY <1>1, <1>2, <1>3 DEF MarksFit, SpotStays
  <1>5. BytesFit(f)'
    BY <1>1, <1>3 DEF BytesFit, SpotStays
  <1>6. (Ending(f)' => Ending(f)) /\ (Over(f)' <=> Over(f)) /\ (Given(f, 226)' <=> Given(f, 226))
    BY <1>1, <1>2 DEF Ending, Over, SpotStays
  <1>7. EndsFit(f)'
    BY <1>1, <1>6 DEF EndsFit, SpotStays
  <1> QED
    BY <1>4, <1>5, <1>7 DEF Fits

\* A disk thread ends a transfer, and tells its session.
LEMMA EndsFits ==
  ASSUME NEW f \in Fds, Facts(f), Facts(f)', Fits(f), SpotStays(f), fault' = "none",
         Tasks(f, "STOR_START")' = Tasks(f, "STOR_START"),
         Tasks(f, "TRANS_OK")' = Tasks(f, "TRANS_OK") + 1, Accepts(f)' = Accepts(f),
         Work(f, "STOR_START")' = Work(f, "STOR_START"),
         DAct(f)' = "NONE", Act(f)' = Act(f),
         \/ /\ DAct(f) \in DownloadStates
            /\ Work(f, "STOR_OK")' = Work(f, "STOR_OK")
            /\ Work(f, "STORING")' = Work(f, "STORING")
         \/ /\ DAct(f) \in UploadStates /\ Work(f, "STORING")' = 0
            /\ Work(f, "STOR_OK") = Work(f, "STOR_OK")' + 1,
         \A c : Coming(f, c)' <=> Coming(f, c)
  PROVE  Fits(f)'
  <1>0. Connected(f) /\ Connected(f)'
    BY DEF SpotStays
  <1>1. /\ OneAtWork(f) /\ MarksFit(f) /\ BytesFit(f) /\ EndsFit(f)
        /\ Work(f, "STOR_OK") \in Nat /\ Work(f, "STOR_OK")' \in Nat
        /\ Tasks(f, "TRANS_OK") \in Nat
        /\ OneAtWork(f)'
    BY <1>0, FitsNow, FactsThen
  <1>2. \A c : Said(f, c)' <=> Said(f, c)
    BY DEF Said, SpotStays
  <1>3. (Marked(f)' <=> Marked(f)) /\ (Begun(f)' <=> Begun(f)) /\ (Early(f)' <=> Early(f))
    BY <1>2 DEF Marked, Begun, Early, SpotStays
  <1>4. MarksFit(f)'
    BY <1>1, <1>2, <1>3 DEF MarksFit, SpotStays, UploadStates
  <1>5. "NONE" \notin UploadStates \cup DownloadStates
    BY DEF UploadStates, DownloadStates
  <1>6. Work(f, "WRITE_DONE")' = 0 /\ clients'[f].data_write_q = <<>>
    BY <1>1, <1>5 DEF OneAtWork
  <1>7. DAct(f) # "NONE" /\ AtWork(f) /\ Act(f) \in Serving /\ ~Said(f, 226)
    BY <1>1, <1>5 DEF AtWork, OneAtWork
  <1>8. CASE DAct(f) \in DownloadStates
    <2>1. /\ Act(f) \in {"DATA_INDEX_DOWNLOAD", "DATA_FILE_DOWNLOAD"} /\ ~Upload(f)
          /\ Work(f, "STORING") = 0 /\ Work(f, "STOR_OK") = 0
          /\ DAct(f) \notin UploadStates
      BY <1>1, <1>8 DEF OneAtWork, UploadStates, DownloadStates
    <2>2. Work(f, "STORING")' = 0 /\ Work(f, "STOR_OK")' = 0
      BY <2>1
    <2>3. BytesFit(f)'
      BY <1>1, <2>1 DEF BytesFit, SpotStays
    <2>4. ~Ending(f)' /\ ~Given(f, 226)'
      BY <1>2, <1>5, <1>7, <2>1 DEF Ending, SpotStays, Said
    <2>5. EndsFit(f)'
      BY <1>6, <2>2, <2>4 DEF EndsFit
    <2> QED
      BY <1>4, <2>3, <2>5 DEF Fits
  <1>9. CASE DAct(f) \in UploadStates
    <2>1. Act(f) = "DATA_STOR" /\ Upload(f) /\ Begun(f) /\ Work(f, "STOR_OK") <= 1
      BY <1>1, <1>9 DEF OneAtWork, MarksFit, BytesFit
    <2>2. DAct(f) \notin DownloadStates
      BY <1>9 DEF UploadStates, DownloadStates
    <2>3. /\ Work(f, "STOR_OK") = 1 /\ Work(f, "STOR_OK")' = 0 /\ Work(f, "STORING")' = 0
          /\ Ending(f)
      BY <1>1, <1>9, <2>1, <2>2 DEF Ending
    <2>4. BytesFit(f)'
      BY <1>1, <2>3 DEF BytesFit, SpotStays
    <2>5. ~Given(f, 226)'
      BY <1>7 DEF SpotStays, Said
    <2>6. EndsFit(f)'
      BY <1>1, <1>6, <2>3, <2>5 DEF EndsFit, SpotStays
    <2> QED
      BY <1>4, <2>4, <2>6 DEF Fits
  <1> QED
    BY <1>8, <1>9

-----------------------------------------------------------------------------
(* Steps that are about other clients.                                     *)

LEMMA ApartFits ==
  ASSUME NEW f \in Fds, Apart(f), Fits(f), Facts(f)
  PROVE  Fits(f)'
  <1>1. /\ clients'[f] = clients[f] /\ peers'[f] = peers[f] /\ MyNotices(f)' = MyNotices(f)
        /\ \A a : Tasks(f, a)' = Tasks(f, a) /\ Work(f, a)' = Work(f, a)
    BY DEF Apart, TasksStay, WorkStays, NoticesStay
  <1>2. /\ Act(f)' = Act(f) /\ DAct(f)' = DAct(f) /\ Accepts(f)' = Accepts(f)
        /\ Connected(f)' = Connected(f)
    BY ApartNames
  <1> SUFFICES ASSUME Connected(f) PROVE Fits(f)'
    BY <1>2 DEF Fits
  <1>3. \A p \in Mentions(f) : data_sock'[p] = data_sock[p]
    BY DEF Apart
  <1>4. /\ peers[f].port # NULL => Dial(f)' = Dial(f)
        /\ clients[f].data_fd # NULL =>
             data_sock'[clients[f].data_fd] = data_sock[clients[f].data_fd]
        /\ clients[f].ev_data_accept # NULL =>
             data_sock'[clients[f].ev_data_accept] = data_sock[clients[f].ev_data_accept]
    BY <1>1, <1>3 DEF Mentions, Promised, Dial
  <1>5. Held(f)' = Held(f) /\ Replies(f)' = Replies(f) /\ (Upload(f)' <=> Upload(f))
    BY <1>1 DEF Held, Replies, Upload
  <1>6. Calls(f)' <=> Calls(f)
    BY <1>1, <1>4 DEF Calls
  <1>7. \A c : (Given(f, c)' <=> Given(f, c)) /\ (Coming(f, c)' <=> Coming(f, c))
    BY <1>1, <1>5 DEF Given, Coming, Says
  <1>8. \A c : Said(f, c)' <=> Said(f, c)
    BY <1>7 DEF Said
  <1>9. (Marked(f)' <=> Marked(f)) /\ (Begun(f)' <=> Begun(f))
    BY <1>1, <1>8 DEF Marked, Begun
  <1>10. MarksFit(f) /\ BytesFit(f) /\ EndsFit(f) /\ (peers[f].xfer # NULL => peers[f].port # NULL)
    BY DEF Fits, Facts, OwnSocket
  <1>11. Begun(f) => ~Early(f)'
    <2>1. Begun(f) => peers[f].xfer # NULL /\ ~Early(f)
      BY <1>10 DEF MarksFit
    <2>2. peers[f].xfer # NULL => (Early(f)' <=> Early(f))
      BY <1>1, <1>2, <1>4, <1>6, <1>10 DEF Early
    <2> QED
      BY <2>1, <2>2
  <1>12. MarksFit(f)'
    BY <1>1, <1>2, <1>8, <1>9, <1>10, <1>11 DEF MarksFit
  <1>13. BytesFit(f)'
    <2>1. Upload(f) => Dial(f)' = Dial(f)
      BY <1>4, <1>10 DEF Upload
    <2>2. Calls(f) => clients[f].ev_data_accept # NULL
      BY DEF Calls
    <2> QED
      BY <1>1, <1>4, <1>5, <1>6, <1>9, <1>10, <2>1, <2>2 DEF BytesFit
  <1>14. (Ending(f)' <=> Ending(f)) /\ (Over(f)' <=> Over(f))
    BY <1>1, <1>2, <1>5, <1>8 DEF Ending, Over
  <1>15. EndsFit(f)'
    BY <1>1, <1>5, <1>7, <1>10, <1>14 DEF EndsFit
  <1> QED
    BY <1>12, <1>13, <1>15 DEF Fits

AllFit == \A g \in Fds : Fits(g)

\* A step that is about f.
LEMMA FitsFor ==
  ASSUME AllFit, AllFacts, NEW f \in Fds, Fits(f)', \A g \in Fds : g # f => Apart(g)
  PROVE  AllFit'
  BY ApartFits DEF AllFit, AllFacts

-----------------------------------------------------------------------------
(* What a record brings.                                                   *)

LEMMA AnswerComes ==
  ASSUME IInv, NEW f \in Fds, NEW code \in ReplyCodes, NEW port \in Ports \cup {NULL},
         Post(f, code, port)
  PROVE  /\ \A c : Coming(f, c)' <=> Coming(f, c) \/ c = code
         /\ HeadStays /\ \A g \in Fds : g # f => NoticesStay(g)
  <1> DEFINE n == [fd |-> f, action |-> "CTRL_WRITE", reply |-> [code |-> code, port |-> port]]
  <1>1. n \in Notification
    BY DEF Notification, Reply
  <1>2. n.fd = f /\ \A c : Says(n, f, c) <=> c = code
    BY DEF Says
  <1>3. notify(n) /\ PoolTypeOK
    BY DEF Post, IInv, TypeOK
  <1> HIDE DEF n
  <1>4. Wrote(f, n, n.action, EndsFor(n, f)) /\ \A g \in Fds : g # f => NoticesStay(g)
    BY <1>1, <1>2, <1>3, PipeWritten
  <1>5. MyNotices(f)' = MyNotices(f) \cup {n} /\ HeadStays
    BY <1>4 DEF Wrote
  <1>6. \A c : Coming(f, c)' <=> Coming(f, c) \/ Says(n, f, c)
    BY <1>5, ComingAfter
  <1> QED
    BY <1>2, <1>4, <1>5, <1>6

LEMMA TransferOkComes ==
  ASSUME IInv, NEW f \in Fds, NEW code \in ReplyCodes, PostTransferOk(f, code)
  PROVE  /\ \A c : Coming(f, c)' <=> Coming(f, c) \/ c = code
         /\ HeadStays /\ \A g \in Fds : g # f => NoticesStay(g)
  <1> DEFINE n == [fd |-> f, action |-> "TRANS_OK", reply |-> [code |-> code, port |-> NULL]]
  <1>1. n \in Notification
    BY DEF Notification, Reply
  <1>2. n.fd = f /\ \A c : Says(n, f, c) <=> c = code
    BY DEF Says
  <1>3. notify(n) /\ PoolTypeOK
    BY DEF PostTransferOk, IInv, TypeOK
  <1> HIDE DEF n
  <1>4. Wrote(f, n, n.action, EndsFor(n, f)) /\ \A g \in Fds : g # f => NoticesStay(g)
    BY <1>1, <1>2, <1>3, PipeWritten
  <1>5. MyNotices(f)' = MyNotices(f) \cup {n} /\ HeadStays
    BY <1>4 DEF Wrote
  <1>6. \A c : Coming(f, c)' <=> Coming(f, c) \/ Says(n, f, c)
    BY <1>5, ComingAfter
  <1> QED
    BY <1>2, <1>4, <1>5, <1>6

LEMMA PasvComes ==
  ASSUME IInv, NEW f \in Fds, PasvPost(f)
  PROVE  /\ \A c : Coming(f, c)' <=> Coming(f, c)
         /\ HeadStays /\ \A g \in Fds : g # f => NoticesStay(g)
  <1> DEFINE n == [fd |-> f, action |-> "PASV"]
  <1>1. n \in Notification
    BY DEF Notification
  <1>2. n.fd = f /\ \A c : ~Says(n, f, c)
    BY DEF Says
  <1>3. notify(n) /\ PoolTypeOK
    BY DEF PasvPost, IInv, TypeOK
  <1> HIDE DEF n
  <1>4. Wrote(f, n, n.action, EndsFor(n, f)) /\ \A g \in Fds : g # f => NoticesStay(g)
    BY <1>1, <1>2, <1>3, PipeWritten
  <1>5. MyNotices(f)' = MyNotices(f) \cup {n} /\ HeadStays
    BY <1>4 DEF Wrote
  <1>6. \A c : Coming(f, c)' <=> Coming(f, c) \/ Says(n, f, c)
    BY <1>5, ComingAfter
  <1> QED
    BY <1>2, <1>4, <1>5, <1>6

LEMMA NothingComes ==
  ASSUME NEW f \in Fds, notify_pipe' = notify_pipe
  PROVE  /\ \A c : Coming(f, c)' <=> Coming(f, c)
         /\ HeadStays /\ \A g \in Fds : NoticesStay(g)
  <1>1. HeadStays /\ \A g \in Fds : NoticesStay(g)
    BY NoticesUnchanged
  <1>2. MyNotices(f)' = MyNotices(f)
    BY <1>1 DEF NoticesStay
  <1> QED
    BY <1>1, <1>2, ComingStays

-----------------------------------------------------------------------------
(* Steps of the session threads.                                           *)

\* What the task of a session thread says of f.
LEMMA TookSpot ==
  ASSUME NEW f \in Fds, NEW h, NEW act, Took(f, h, act)
  PROVE  /\ SpotStays(f) /\ Replies(f)' = Replies(f) /\ DAct(f)' = DAct(f) /\ Connected(f)
         /\ \A a : Tasks(f, a) = (IF act = a THEN Tasks(f, a)' + 1 ELSE Tasks(f, a)')
  <1>1. /\ Connected(f) /\ ReactorStays(f) /\ disks'[f] = disks[f]
        /\ \A a : Tasks(f, a) = (IF act = a THEN Tasks(f, a)' + 1 ELSE Tasks(f, a)')
    BY DEF Took
  <1>2. DAct(f)' = DAct(f)
    BY <1>1 DEF DAct
  <1> QED
    BY <1>1, <1>2, SpotOf

\* Only the client of the task is concerned.
LEMMA HandlerFits ==
  ASSUME Orderly, AllFit, NEW f \in Fds, fault = "none", UNCHANGED <<disks, reactorVars>>,
         HeadStays, \A g \in Fds : g # f => /\ TasksStay(g) /\ NoticesStay(g) /\ WorkStays(g)
                                            /\ sessions'[g] = sessions[g],
         Fits(f)'
  PROVE  AllFit'
  <1>1. IInv /\ AllFacts
    BY FactsNow DEF Orderly
  <1>2. \A g \in Fds : g # f => Apart(g)
    BY <1>1, HandlerApart
  <1> QED
    BY <1>1, <1>2, FitsFor

LEMMA IdleFits ==
  ASSUME Orderly, IInv', AllFit, NEW f \in Fds, NEW h, NEW act, Took(f, h, act),
         act \in {"READ", "PASV", "CTRL_ACCEPT"}, fault = "none",
         UNCHANGED <<disks, reactorVars>>, disk_pool' = disk_pool,
         \/ Act(f)' = Act(f)
         \/ Act(f)' \notin {"DATA_INDEX_DOWNLOAD", "DATA_FILE_DOWNLOAD"},
         HeadStays, Coming(f, 150)' <=> Coming(f, 150), Coming(f, 226)' <=> Coming(f, 226),
         \A g \in Fds : g # f => /\ TasksStay(g) /\ NoticesStay(g) /\ sessions'[g] = sessions[g]
  PROVE  AllFit'
  <1>1. IInv /\ SessionTypeOK /\ Facts(f) /\ Fits(f)
    BY FactsNow DEF Orderly, IInv, TypeOK, AllFacts, AllFit
  <1>2. /\ SpotStays(f) /\ DAct(f)' = DAct(f) /\ Connected(f)
        /\ \A a : Tasks(f, a) = (IF act = a THEN Tasks(f, a)' + 1 ELSE Tasks(f, a)')
    BY TookSpot
  <1>3. Busy(f) = 0 /\ Ends(f) = 0
    BY IdleFacts
  <1>4. ~Coming(f, 226)'
    BY <1>1, <1>2, <1>3, SaidNone DEF Said
  <1>5. Act(f)' \notin {"DATA_INDEX_DOWNLOAD", "DATA_FILE_DOWNLOAD"}
    BY <1>3 DEF Busy
  <1>6. \A g \in Fds : WorkStays(g)
    BY WorkUnchanged
  <1>7. Work(f, "STOR_START")' = Work(f, "STOR_START") /\ UploadsStay(f)
    BY <1>6 DEF WorkStays, UploadsStay
  <1>8. /\ Tasks(f, "STOR_START")' = Tasks(f, "STOR_START")
        /\ Tasks(f, "TRANS_OK")' = Tasks(f, "TRANS_OK")
    BY <1>2
  <1>9. Fits(f)'
    BY <1>1, <1>2, <1>3, <1>4, <1>5, <1>7, <1>8, AnsweredFits
  <1> QED
    BY <1>6, <1>9, HandlerFits

LEMMA SessionAcceptFits ==
  ASSUME Orderly, IInv', AllFit, NEW t \in SessionThreads, SessionAccept(t), fault = "none",
         UNCHANGED <<disks, reactorVars>>
  PROVE  AllFit'
  <1>h. PICK h : h = Head(session_pool[t])
    OBVIOUS
  <1>f. PICK f : f = h.fd
    OBVIOUS
  <1>1. /\ SessionTake(t, "CTRL_ACCEPT") /\ Post(f, 220, NULL) /\ disk_pool' = disk_pool
        /\ IF sessions[f] = NULL THEN Store(f, NewSession) ELSE sessions' = sessions
    BY <1>h, <1>f DEF SessionAccept
  <1>2. f \in Fds /\ Took(f, h, "CTRL_ACCEPT") /\ \A g \in Fds : g # f => TasksStay(g)
    BY <1>h, <1>f, <1>1, SessionTakes
  <1>3. IInv /\ SessionTypeOK
    BY DEF Orderly, IInv, TypeOK
  <1>4. 220 \in ReplyCodes
    BY DEF ReplyCodes
  <1>5. /\ \A c : Coming(f, c)' <=> Coming(f, c) \/ c = 220
        /\ HeadStays /\ \A g \in Fds : g # f => NoticesStay(g)
    BY <1>1, <1>2, <1>3, <1>4, AnswerComes
  <1>6. /\ sessions'[f] = NewSession \/ sessions'[f] = sessions[f]
        /\ \A g \in Fds : g # f => sessions'[g] = sessions[g]
    BY <1>1, <1>2, <1>3, Stored
  <1>n. NewSession.data_action = "DATA_WAITING"
    BY DEF NewSession
  <1>7. Act(f)' \in {Act(f), "DATA_WAITING", "NONE"}
    BY <1>6, <1>n DEF Act
  <1> QED
    BY <1>1, <1>2, <1>5, <1>6, <1>7, IdleFits

LEMMA SessionPasvFits ==
  ASSUME Orderly, IInv', AllFit, NEW t \in SessionThreads, SessionPasv(t), fault = "none",
         UNCHANGED <<disks, reactorVars>>
  PROVE  AllFit'
  <1>h. PICK h : h = Head(session_pool[t])
    OBVIOUS
  <1>f. PICK f : f = h.fd
    OBVIOUS
  <1>s. PICK s : s = sessions[f]
    OBVIOUS
  <1> DEFINE r == [s EXCEPT !.data_action = "DATA_PASV_OK"]
  <1>1. SessionTake(t, "PASV") /\ s # NULL /\ run_pasv(f, s, h.port)
    BY <1>h, <1>f, <1>s DEF SessionPasv, ForSession
  <1>2. /\ h \in SessionTask /\ f \in Fds /\ Took(f, h, "PASV")
        /\ \A g \in Fds : g # f => TasksStay(g)
    BY <1>h, <1>f, <1>1, SessionTakes
  <1>3. IInv /\ SessionTypeOK /\ h.action = "PASV"
    BY <1>2 DEF Orderly, IInv, TypeOK, Took
  <1>4. h.port \in Ports
    BY <1>2, <1>3, SessionTaskFields
  <1>5. s \in Session
    BY <1>s, <1>1, <1>2, <1>3 DEF SessionTypeOK
  <1>6. r.data_action = "DATA_PASV_OK"
    BY <1>5 DEF Session
  <1>7. 227 \in ReplyCodes /\ 502 \in ReplyCodes
    BY DEF ReplyCodes
  <1>8. \/ Post(f, 227, h.port) /\ Store(f, r) /\ disk_pool' = disk_pool
        \/ Post(f, 502, NULL) /\ Store(f, s) /\ disk_pool' = disk_pool
    BY <1>1 DEF run_pasv, Answer
  <1> HIDE DEF r
  <1>9. PICK code \in {227, 502} :
          /\ \A c : Coming(f, c)' <=> Coming(f, c) \/ c = code
          /\ HeadStays /\ \A g \in Fds : g # f => NoticesStay(g)
    BY <1>2, <1>3, <1>4, <1>7, <1>8, AnswerComes
  <1>10. /\ sessions'[f] = r \/ sessions'[f] = s
         /\ \A g \in Fds : g # f => sessions'[g] = sessions[g]
    BY <1>2, <1>3, <1>8, Stored
  <1>11. Act(f)' \in {Act(f), "DATA_PASV_OK", "NONE"}
    BY <1>s, <1>6, <1>10 DEF Act
  <1>12. disk_pool' = disk_pool
    BY <1>8
  <1>13. (Coming(f, 150)' <=> Coming(f, 150)) /\ (Coming(f, 226)' <=> Coming(f, 226))
    BY <1>9
  <1> QED
    BY <1>2, <1>9, <1>10, <1>11, <1>12, <1>13, IdleFits

LEMMA SessionReadFits ==
  ASSUME Orderly, IInv', AllFit, NEW t \in SessionThreads, SessionRead(t), fault = "none",
         UNCHANGED <<disks, reactorVars>>
  PROVE  AllFit'
  <1>h. PICK h : h = Head(session_pool[t])
    OBVIOUS
  <1>f. PICK f : f = h.fd
    OBVIOUS
  <1>s. PICK s : s = sessions[f]
    OBVIOUS
  <1>1. /\ SessionTake(t, "READ") /\ s # NULL
        /\ LET lines == s.recv_command \o h.buf IN
           run_fsm_command(f, [s EXCEPT !.recv_command = Tail(lines)], Head(lines))
    BY <1>h, <1>f, <1>s DEF SessionRead, ForSession
  <1>2. /\ h \in SessionTask /\ f \in Fds /\ Took(f, h, "READ")
        /\ \A g \in Fds : g # f => TasksStay(g)
    BY <1>h, <1>f, <1>1, SessionTakes
  <1>3. /\ IInv /\ SessionTypeOK /\ FileTypeOK /\ OneLine(f)
        /\ h \in MyTasks(f) /\ h.action = "READ"
    BY <1>2 DEF Orderly, IInv, TypeOK, Took, Part
  <1>4. s \in Session /\ s.recv_command = <<>>
    BY <1>s, <1>1, <1>2, <1>3 DEF SessionTypeOK, OneLine
  <1>5. h.buf \in Seq(Command) /\ Len(h.buf) = 1
    BY <1>2, <1>3, SessionTaskFields DEF OneLine
  <1>6. s.recv_command \o h.buf = h.buf
    BY <1>4, <1>5
  <1>c. PICK c : c = h.buf[1]
    OBVIOUS
  <1>7. Head(h.buf) = c /\ Tail(h.buf) = <<>> /\ c \in Command
    BY <1>5, <1>c, OneElement
  <1>8. [s EXCEPT !.recv_command = <<>>] = s
    BY <1>4 DEF Session
  <1>9. run_fsm_command(f, s, c)
    BY <1>1, <1>6, <1>7, <1>8
  <1>10. CommandEnds(f, s, c)
    BY <1>2, <1>3, <1>4, <1>7, <1>9, CommandKinds
  <1>11. PICK r \in Session :
         /\ Store(f, r) /\ disk_pool' = disk_pool
         /\ r.data_action \in {s.data_action, "DATA_LIST", "DATA_STOR", "DATA_RETR"}
         /\ \/ \E code \in ReplyCodes \ {150, 226, 227} : Post(f, code, NULL)
            \/ PasvPost(f)
            \/ notify_pipe' = notify_pipe
    BY <1>10 DEF CommandEnds
  <1>12. sessions'[f] = r /\ \A g \in Fds : g # f => sessions'[g] = sessions[g]
    BY <1>2, <1>3, <1>11, Stored
  <1>13. Act(f)' \in {Act(f), "DATA_LIST", "DATA_STOR", "DATA_RETR"}
    BY <1>s, <1>1, <1>11, <1>12, SessionNullAssumption DEF Act
  <1>14. /\ Coming(f, 150)' <=> Coming(f, 150)
         /\ Coming(f, 226)' <=> Coming(f, 226)
         /\ HeadStays /\ \A g \in Fds : g # f => NoticesStay(g)
    <2>1. CASE \E code \in ReplyCodes \ {150, 226, 227} : Post(f, code, NULL)
      <3>1. PICK code \in ReplyCodes \ {150, 226, 227} : Post(f, code, NULL)
        BY <2>1
      <3>2. /\ \A x : Coming(f, x)' <=> Coming(f, x) \/ x = code
            /\ HeadStays /\ \A g \in Fds : g # f => NoticesStay(g)
        BY <1>2, <1>3, <3>1, AnswerComes
      <3> QED
        BY <3>1, <3>2
    <2>2. CASE PasvPost(f)
      BY <1>2, <1>3, <2>2, PasvComes
    <2>3. CASE notify_pipe' = notify_pipe
      BY <1>2, <2>3, NothingComes
    <2> QED
      BY <1>11, <2>1, <2>2, <2>3
  <1> QED
    BY <1>2, <1>11, <1>12, <1>13, <1>14, IdleFits

LEMMA SessionDroppedFits ==
  ASSUME Orderly, IInv', AllFit, NEW t \in SessionThreads, SessionDropped(t), fault = "none",
         UNCHANGED <<disks, reactorVars>>
  PROVE  AllFit'
  <1>h. PICK h : h = Head(session_pool[t])
    OBVIOUS
  <1>f. PICK f : f = h.fd
    OBVIOUS
  <1>1. PICK act \in (SignalTasks \cup {"READ", "PASV"}) \ {"CTRL_ACCEPT"} :
          /\ SessionTake(t, act)
          /\ sessions[f] # NULL => act \in {"DISCONN", "CONN_ERR"}
    BY <1>h, <1>f DEF SessionDropped
  <1>0. notify_pipe' = notify_pipe /\ disk_pool' = disk_pool /\ sessions' = sessions
    BY DEF SessionDropped
  <1>2. f \in Fds /\ Took(f, h, act) /\ \A g \in Fds : g # f => TasksStay(g)
    BY <1>h, <1>f, <1>1, SessionTakes
  <1>3. IInv /\ Facts(f) /\ Fits(f)
    BY <1>2, FactsNow DEF Orderly, AllFacts, AllFit
  <1>4. /\ SpotStays(f) /\ DAct(f)' = DAct(f) /\ Connected(f)
        /\ \A a : Tasks(f, a) = (IF act = a THEN Tasks(f, a)' + 1 ELSE Tasks(f, a)')
    BY <1>2, TookSpot
  <1>5. /\ \A c : Coming(f, c)' <=> Coming(f, c)
        /\ HeadStays /\ \A g \in Fds : NoticesStay(g)
    BY <1>0, <1>2, NothingComes
  <1>6. \A g \in Fds : WorkStays(g)
    BY <1>0, WorkUnchanged
  <1>7. Work(f, "STOR_START")' = Work(f, "STOR_START") /\ UploadsStay(f)
    BY <1>2, <1>6 DEF WorkStays, UploadsStay
  <1>8. Act(f)' = Act(f)
    BY <1>0 DEF Act
  <1>9. /\ MarksFit(f) /\ OneAtWork(f) /\ Tasks(f, "STOR_START") \in Nat
        /\ Tasks(f, "TRANS_OK") \in Nat
    BY <1>2, <1>3, <1>4, FitsNow
  <1>10. act \notin {"STOR_START", "TRANS_OK"}
    <2>1. SUFFICES ASSUME act \in {"STOR_START", "TRANS_OK"} PROVE FALSE
      OBVIOUS
    <2>2. Act(f) = "NONE"
      BY <1>1, <2>1 DEF Act
    <2>3. /\ Tasks(f, act) = Tasks(f, act)' + 1 /\ Tasks(f, "STOR_START")' \in Nat
          /\ Tasks(f, "TRANS_OK")' \in Nat
      BY <1>2, <1>4, NumbersNext DEF IInv, TypeOK, Numbers
    <2>4. Tasks(f, "STOR_START") > 0 \/ Tasks(f, "TRANS_OK") > 0
      BY <2>1, <2>3
    <2>5. Tasks(f, "STOR_START") > 0 => Act(f) = "DATA_STOR"
      BY <1>9 DEF MarksFit
    <2>6. Tasks(f, "TRANS_OK") > 0 => Act(f) \in Serving
      BY <1>9 DEF OneAtWork, AtWork
    <2> QED
      BY <2>2, <2>4, <2>5, <2>6 DEF Serving
  <1>11. /\ Tasks(f, "STOR_START")' = Tasks(f, "STOR_START")
         /\ Tasks(f, "TRANS_OK")' = Tasks(f, "TRANS_OK")
    BY <1>4, <1>10
  <1>12. Accepts(f)' \in Nat /\ Accepts(f)' <= Accepts(f)
    <2>1. Tasks(f, "DATA_ACCEPT")' \in Nat
      BY <1>2, NumbersNext DEF IInv, TypeOK, Numbers
    <2>2. Tasks(f, "DATA_ACCEPT") = Tasks(f, "DATA_ACCEPT")' \/
          Tasks(f, "DATA_ACCEPT") = Tasks(f, "DATA_ACCEPT")' + 1
      BY <1>4
    <2> QED
      BY <2>1, <2>2 DEF Accepts
  <1>13. Fits(f)'
    BY <1>2, <1>3, <1>4, <1>5, <1>7, <1>8, <1>11, <1>12, TakenFits
  <1> QED
    BY <1>0, <1>2, <1>5, <1>6, <1>13, HandlerFits

LEMMA SessionStorStartFits ==
  ASSUME Orderly, IInv', AllFit, NEW t \in SessionThreads, SessionStorStart(t), fault = "none",
         UNCHANGED <<disks, reactorVars>>
  PROVE  AllFit'
  <1>h. PICK h : h = Head(session_pool[t])
    OBVIOUS
  <1>f. PICK f : f = h.fd
    OBVIOUS
  <1>1. /\ SessionTake(t, "STOR_START") /\ Post(f, 150, NULL) /\ disk_pool' = disk_pool
        /\ Store(f, sessions[f])
    BY <1>h, <1>f DEF SessionStorStart, ForSession, run_stor_start, Answer
  <1>2. f \in Fds /\ Took(f, h, "STOR_START") /\ \A g \in Fds : g # f => TasksStay(g)
    BY <1>h, <1>f, <1>1, SessionTakes
  <1>3. IInv /\ SessionTypeOK /\ Facts(f) /\ Fits(f)
    BY <1>2, FactsNow DEF Orderly, IInv, TypeOK, AllFacts, AllFit
  <1>4. 150 \in ReplyCodes
    BY DEF ReplyCodes
  <1>5. /\ \A c : Coming(f, c)' <=> Coming(f, c) \/ c = 150
        /\ HeadStays /\ \A g \in Fds : g # f => NoticesStay(g)
    BY <1>1, <1>2, <1>3, <1>4, AnswerComes
  <1>6. \A g \in Fds : sessions'[g] = sessions[g]
    BY <1>1, <1>2, <1>3 DEF Store, SessionTypeOK
  <1>7. \A g \in Fds : WorkStays(g)
    BY <1>1, WorkUnchanged
  <1>8. Work(f, "STOR_START")' = Work(f, "STOR_START") /\ UploadsStay(f)
    BY <1>2, <1>7 DEF WorkStays, UploadsStay
  <1>9. /\ SpotStays(f) /\ DAct(f)' = DAct(f)
        /\ \A a : Tasks(f, a) = (IF "STOR_START" = a THEN Tasks(f, a)' + 1 ELSE Tasks(f, a)')
    BY <1>2, TookSpot
  <1>10. /\ Tasks(f, "STOR_START") = Tasks(f, "STOR_START")' + 1
         /\ Tasks(f, "TRANS_OK")' = Tasks(f, "TRANS_OK") /\ Accepts(f)' = Accepts(f)
    BY <1>9 DEF Accepts
  <1>11. Tasks(f, "STOR_START")' \in Nat
    BY <1>2, NumbersNext DEF IInv, TypeOK, Numbers
  <1>12. Act(f)' = Act(f)
    BY <1>2, <1>6 DEF Act
  <1>13. Fits(f)'
    BY <1>2, <1>3, <1>5, <1>8, <1>9, <1>10, <1>11, <1>12, MarkFits
  <1> QED
    BY <1>2, <1>5, <1>6, <1>7, <1>13, HandlerFits

LEMMA SessionTransOkFits ==
  ASSUME Orderly, IInv', AllFit, NEW t \in SessionThreads, SessionTransOk(t), fault = "none",
         UNCHANGED <<disks, reactorVars>>
  PROVE  AllFit'
  <1>h. PICK h : h = Head(session_pool[t])
    OBVIOUS
  <1>f. PICK f : f = h.fd
    OBVIOUS
  <1>s. PICK s : s = sessions[f]
    OBVIOUS
  <1> DEFINE r == [s EXCEPT !.data_action = "DATA_WAITING"]
  <1>1. /\ SessionTake(t, "TRANS_OK") /\ PostTransferOk(f, 226) /\ disk_pool' = disk_pool
        /\ s # NULL /\ Store(f, r)
    BY <1>h, <1>f, <1>s DEF SessionTransOk, ForSession, run_transfer_ok
  <1>2. f \in Fds /\ Took(f, h, "TRANS_OK") /\ \A g \in Fds : g # f => TasksStay(g)
    BY <1>h, <1>f, <1>1, SessionTakes
  <1>3. IInv /\ SessionTypeOK /\ Facts(f) /\ Fits(f)
    BY <1>2, FactsNow DEF Orderly, IInv, TypeOK, AllFacts, AllFit
  <1>4. 226 \in ReplyCodes
    BY DEF ReplyCodes
  <1>5. s \in Session
    BY <1>s, <1>1, <1>2, <1>3 DEF SessionTypeOK
  <1>6. r \in Session /\ r.data_action = "DATA_WAITING"
    BY <1>5 DEF Session, DataActions
  <1> HIDE DEF r
  <1>7. /\ \A c : Coming(f, c)' <=> Coming(f, c) \/ c = 226
        /\ HeadStays /\ \A g \in Fds : g # f => NoticesStay(g)
    BY <1>1, <1>2, <1>3, <1>4, TransferOkComes
  <1>8. sessions'[f] = r /\ \A g \in Fds : g # f => sessions'[g] = sessions[g]
    BY <1>1, <1>2, <1>3, Stored
  <1>9. Act(f)' = "DATA_WAITING"
    BY <1>6, <1>8, SessionNullAssumption DEF Act
  <1>10. \A g \in Fds : WorkStays(g)
    BY <1>1, WorkUnchanged
  <1>11. Work(f, "STOR_START")' = Work(f, "STOR_START") /\ UploadsStay(f)
    BY <1>2, <1>10 DEF WorkStays, UploadsStay
  <1>12. /\ SpotStays(f) /\ DAct(f)' = DAct(f)
         /\ \A a : Tasks(f, a) = (IF "TRANS_OK" = a THEN Tasks(f, a)' + 1 ELSE Tasks(f, a)')
    BY <1>2, TookSpot
  <1>13. /\ Tasks(f, "TRANS_OK") = Tasks(f, "TRANS_OK")' + 1
         /\ Tasks(f, "STOR_START")' = Tasks(f, "STOR_START") /\ Accepts(f)' = Accepts(f)
    BY <1>12 DEF Accepts
  <1>14. Tasks(f, "TRANS_OK")' \in Nat
    BY <1>2, NumbersNext DEF IInv, TypeOK, Numbers
  <1>15. Fits(f)'
    BY <1>2, <1>3, <1>7, <1>9, <1>11, <1>12, <1>13, <1>14, DoneFits
  <1> QED
    BY <1>2, <1>7, <1>8, <1>10, <1>15, HandlerFits

\* The disk threads get the start of a transfer, or the process dies.
LEMMA StartPosted ==
  ASSUME Orderly, NEW f \in Fds, NEW task \in DiskTask, task.fd = f, post_to_disk(task),
         task.action \in {"INDEX_START", "RETR_START", "STOR_START"}
  PROVE  /\ UploadsStay(f) /\ \A g \in Fds : g # f => WorkStays(g)
         /\ task.action # "STOR_START" => Work(f, "STOR_START")' = Work(f, "STOR_START")
  <1>1. PoolTypeOK
    BY DEF Orderly, IInv, TypeOK
  <1>2. \A g \in Fds :
          \/ /\ \A a : Work(g, a)' =
                        (IF task.fd = g /\ task.action = a THEN Work(g, a) + 1 ELSE Work(g, a))
             /\ StartOrder(g) => StartOrder(g)'
          \/ WorkStays(g)
    BY <1>1, WorkPosted
  <1>3. \A g \in Fds : g # f => WorkStays(g)
    BY <1>2 DEF WorkStays
  <1>4. \A a : a # task.action => Work(f, a)' = Work(f, a)
    BY <1>2 DEF WorkStays
  <1> QED
    BY <1>3, <1>4 DEF UploadsStay

LEMMA SessionDataAcceptFits ==
  ASSUME Orderly, Orderly', AllFit, NEW t \in SessionThreads, SessionDataAccept(t),
         fault = "none", UNCHANGED <<disks, reactorVars>>
  PROVE  AllFit'
  <1>h. PICK h : h = Head(session_pool[t])
    OBVIOUS
  <1>f. PICK f : f = h.fd
    OBVIOUS
  <1>s. PICK s : s = sessions[f]
    OBVIOUS
  <1>1. SessionTake(t, "DATA_ACCEPT") /\ s # NULL
    BY <1>h, <1>f, <1>s DEF SessionDataAccept, ForSession
  <1>0. \/ s.data_action = "DATA_LIST" /\ run_list_load(f, s)
        \/ s.data_action = "DATA_STOR" /\ run_stor_load(f, s)
        \/ s.data_action = "DATA_RETR" /\ run_retr_load(f, s)
        \/ UNCHANGED <<sessions, notify_pipe, disk_pool, fault>>
    BY <1>h, <1>f, <1>s DEF SessionDataAccept
  <1>2. f \in Fds /\ Took(f, h, "DATA_ACCEPT") /\ \A g \in Fds : g # f => TasksStay(g)
    BY <1>h, <1>f, <1>1, SessionTakes
  <1>3. IInv /\ IInv' /\ SessionTypeOK /\ Facts(f) /\ Facts(f)' /\ Fits(f)
    BY <1>2, FactsNow, FactsNext DEF Orderly, IInv, TypeOK, AllFacts, AllFit
  <1>4. s \in Session /\ Act(f) = s.data_action
    BY <1>s, <1>1, <1>2, <1>3 DEF SessionTypeOK, Act
  <1>5. /\ 150 \in ReplyCodes
        /\ s.file_name \in Files \cup {NULL} /\ s.rest_size \in Nat
    BY <1>4 DEF ReplyCodes, Session
  <1>6. /\ SpotStays(f) /\ DAct(f)' = DAct(f) /\ Connected(f)
        /\ \A a : Tasks(f, a) = (IF "DATA_ACCEPT" = a THEN Tasks(f, a)' + 1 ELSE Tasks(f, a)')
    BY <1>2, TookSpot
  <1>7. /\ Accepts(f)' \in Nat /\ Accepts(f) = Accepts(f)' + 1
        /\ Tasks(f, "STOR_START")' = Tasks(f, "STOR_START")
        /\ Tasks(f, "TRANS_OK")' = Tasks(f, "TRANS_OK")
    <2>1. Tasks(f, "DATA_ACCEPT")' \in Nat
      BY <1>2, <1>3, NumbersNext DEF IInv, TypeOK, Numbers
    <2> QED
      BY <1>6, <2>1 DEF Accepts
  <1>8. Accepts(f) > 0 /\ Accepts(f)' = Accepts(f) - 1 /\ Accepts(f)' <= Accepts(f)
    BY <1>7
  <1>9. ASSUME NEW r \in Session, NEW task \in DiskTask, task.fd = f, post_to_disk(task),
               task.action \in {"INDEX_START", "RETR_START"},
               r.data_action \in {"DATA_INDEX_DOWNLOAD", "DATA_FILE_DOWNLOAD"},
               Post(f, 150, NULL), Store(f, r), s.data_action \in {"DATA_LIST", "DATA_RETR"}
        PROVE  AllFit'
    <2>1. sessions'[f] = r /\ \A g \in Fds : g # f => sessions'[g] = sessions[g]
      BY <1>2, <1>3, <1>9, Stored
    <2>2. Act(f)' = r.data_action
      BY <2>1, SessionNullAssumption DEF Act
    <2>3. Busy(f) = 1 /\ Act(f) \notin Serving
      BY <1>4, <1>9 DEF Busy, Serving
    <2>4. /\ \A c : Coming(f, c)' <=> Coming(f, c) \/ c = 150
          /\ HeadStays /\ \A g \in Fds : g # f => NoticesStay(g)
      BY <1>2, <1>3, <1>5, <1>9, AnswerComes
    <2>5. /\ UploadsStay(f) /\ \A g \in Fds : g # f => WorkStays(g)
          /\ Work(f, "STOR_START")' = Work(f, "STOR_START")
      BY <1>2, <1>9, StartPosted
    <2>6. /\ Act(f)' \in {"DATA_INDEX_DOWNLOAD", "DATA_FILE_DOWNLOAD"}
          /\ Coming(f, 150)' /\ (Coming(f, 226)' <=> Coming(f, 226))
      BY <1>9, <2>2, <2>4
    <2>7. Fits(f)'
      BY <1>2, <1>3, <1>6, <1>7, <1>8, <2>3, <2>5, <2>6, LoadFits
    <2> QED
      BY <1>2, <2>1, <2>4, <2>5, <2>7, HandlerFits
  <1>10. CASE s.data_action = "DATA_LIST" /\ run_list_load(f, s)
    <2> DEFINE r    == [s EXCEPT !.data_action = "DATA_INDEX_DOWNLOAD"]
               task == [fd |-> f, action |-> "INDEX_START"]
    <2>1. /\ r \in Session /\ r.data_action = "DATA_INDEX_DOWNLOAD"
          /\ task \in DiskTask /\ task.fd = f /\ task.action = "INDEX_START"
      BY <1>2, <1>4 DEF Session, DataActions, DiskTask
    <2>2. Post(f, 150, NULL) /\ Store(f, r) /\ post_to_disk(task)
      BY <1>10 DEF run_list_load
    <2> HIDE DEF r, task
    <2> QED
      BY <1>9, <1>10, <2>1, <2>2
  <1>11. CASE s.data_action = "DATA_RETR" /\ run_retr_load(f, s)
    <2> DEFINE r    == [s EXCEPT !.data_action = "DATA_FILE_DOWNLOAD"]
               task == [fd |-> f, action |-> "RETR_START",
                        path |-> s.file_name, rest |-> s.rest_size]
    <2>1. r \in Session /\ r.data_action = "DATA_FILE_DOWNLOAD"
      BY <1>4 DEF Session, DataActions
    <2>2. task \in DiskTask /\ task.fd = f /\ task.action = "RETR_START"
      BY <1>2, <1>5 DEF DiskTask
    <2>3. Post(f, 150, NULL) /\ Store(f, r) /\ post_to_disk(task)
      BY <1>11 DEF run_retr_load
    <2> HIDE DEF r, task
    <2> QED
      BY <1>9, <1>11, <2>1, <2>2, <2>3
  <1>12. CASE s.data_action = "DATA_STOR" /\ run_stor_load(f, s)
    <2> DEFINE task == [fd |-> f, action |-> "STOR_START",
                        path |-> s.file_name, rest |-> s.rest_size]
    <2>1. task \in DiskTask /\ task.fd = f /\ task.action = "STOR_START"
      BY <1>2, <1>5 DEF DiskTask
    <2>2. notify_pipe' = notify_pipe /\ sessions' = sessions /\ post_to_disk(task)
      BY <1>12 DEF run_stor_load
    <2> HIDE DEF task
    <2>3. Act(f)' = Act(f) /\ Busy(f) = 1
      BY <1>4, <1>12, <2>2 DEF Act, Busy
    <2>4. /\ \A c : Coming(f, c)' <=> Coming(f, c)
          /\ HeadStays /\ \A g \in Fds : NoticesStay(g)
      BY <1>2, <2>2, NothingComes
    <2>5. UploadsStay(f) /\ \A g \in Fds : g # f => WorkStays(g)
      BY <1>2, <2>1, <2>2, StartPosted
    <2>6. peers[f].xfer # NULL
      BY <1>2, <1>3, <1>6, <2>3, FitsNow DEF OneAtWork
    <2>7. Fits(f)'
      BY <1>2, <1>3, <1>6, <1>7, <1>8, <2>3, <2>4, <2>5, <2>6, TakenFits
    <2> QED
      BY <1>2, <2>2, <2>4, <2>5, <2>7, HandlerFits
  <1>13. CASE UNCHANGED <<sessions, notify_pipe, disk_pool, fault>>
    <2>1. \A g \in Fds : WorkStays(g)
      BY <1>13, WorkUnchanged
    <2>2. Work(f, "STOR_START")' = Work(f, "STOR_START") /\ UploadsStay(f)
      BY <1>2, <2>1 DEF WorkStays, UploadsStay
    <2>3. /\ \A c : Coming(f, c)' <=> Coming(f, c)
          /\ HeadStays /\ \A g \in Fds : NoticesStay(g)
      BY <1>2, <1>13, NothingComes
    <2>4. Act(f)' = Act(f)
      BY <1>13 DEF Act
    <2>5. Fits(f)'
      BY <1>2, <1>3, <1>6, <1>7, <1>8, <2>2, <2>3, <2>4, TakenFits
    <2> QED
      BY <1>2, <1>13, <2>1, <2>3, <2>5, HandlerFits
  <1> QED
    BY <1>0, <1>10, <1>11, <1>12, <1>13

LEMMA SessionFits ==
  ASSUME Orderly, Orderly', AllFit, NEW t \in SessionThreads, SessionThread(t)
  PROVE  AllFit'
  <1>1. /\ fault = "none" /\ UNCHANGED <<disks, reactorVars>>
        /\ \/ SessionAccept(t) \/ SessionPasv(t) \/ SessionDataAccept(t) \/ SessionStorStart(t)
           \/ SessionTransOk(t) \/ SessionRead(t) \/ SessionDropped(t)
    BY DEF SessionThread, SessionStep
  <1>2. IInv'
    BY DEF Orderly
  <1> QED
    BY <1>1, <1>2, SessionAcceptFits, SessionPasvFits, SessionDataAcceptFits,
       SessionStorStartFits, SessionTransOkFits, SessionReadFits, SessionDroppedFits

-----------------------------------------------------------------------------
(* The order of an upload's tasks.                                         *)

LEMMA UploadTaken ==
  ASSUME PoolTypeOK, NEW t \in DiskThreads, NEW action, DiskTake(t, action),
         NEW h, h = Head(disk_pool[t]), ThreadOf(h.fd) = t, NEW f \in Fds, UploadOrder(f)
  PROVE  /\ UploadOrder(f)'
         /\ h.fd = f /\ h.action = "STOR_START" => Work(f, "STOR_OK")' = 0
         /\ h.fd = f /\ h.action = "STOR_OK" => Work(f, "STORING")' = 0
  <1> DEFINE q == DiskQueue(f)
  <1>1. q \in Seq(DiskTask)
    BY QueuesType
  <1>2. CASE ThreadOf(f) = t
    <2>1. DiskQueue(f)' = Tail(q) /\ q # <<>> /\ h = Head(q)
      BY <1>1, <1>2 DEF DiskTake, DiskQueue, PoolTypeOK
    <2>2. ASSUME NEW a, NEW b, NoneBehind(q, f, a, b)
          PROVE  /\ NoneBehind(Tail(q), f, a, b)
                 /\ h.fd = f /\ h.action = a => Count(Tail(q), f, b) = 0
      BY <1>1, <2>1, <2>2, OrderTaken
    <2> QED
      BY <2>1, <2>2 DEF UploadOrder, Work
  <1>3. CASE ThreadOf(f) # t
    <2>1. DiskQueue(f)' = q /\ h.fd # f
      BY <1>1, <1>3 DEF DiskTake, DiskQueue, PoolTypeOK
    <2> QED
      BY <2>1 DEF UploadOrder
  <1> QED
    BY <1>2, <1>3

LEMMA UploadAdded ==
  ASSUME PoolTypeOK, NEW task \in DiskTask, post_to_disk(task), NEW f \in Fds, UploadOrder(f),
         task.fd = f /\ task.action = "STOR_OK" => Work(f, "STOR_START") = 0,
         task.fd = f /\ task.action = "STORING" => Work(f, "STOR_OK") = 0
  PROVE  UploadOrder(f)'
  <1> DEFINE q == DiskQueue(f)
             i == ThreadOf(task.fd)
  <1>1. q \in Seq(DiskTask)
    BY QueuesType
  <1>2. CASE i \in DiskThreads /\ ThreadOf(f) = i
    <2>1. disk_pool' = [disk_pool EXCEPT ![i] = Append(@, task)]
      BY <1>2 DEF post_to_disk
    <2>2. DiskQueue(f)' = Append(q, task)
      BY <1>2, <2>1 DEF DiskQueue, PoolTypeOK
    <2>3. ASSUME NEW a, NEW b, NoneBehind(q, f, a, b),
                 task.fd = f /\ task.action = b => Count(q, f, a) = 0
          PROVE  NoneBehind(Append(q, task), f, a, b)
      BY <1>1, <2>3, OrderAdded
    <2> QED
      BY <2>2, <2>3 DEF UploadOrder, Work
  <1>3. CASE i \notin DiskThreads \/ ThreadOf(f) # i
    <2>1. DiskQueue(f)' = q
      BY <1>1, <1>3 DEF post_to_disk, DiskQueue, PoolTypeOK
    <2> QED
      BY <2>1 DEF UploadOrder
  <1> QED
    BY <1>2, <1>3

LEMMA UploadKept ==
  ASSUME disk_pool' = disk_pool, NEW f \in Fds, UploadOrder(f)
  PROVE  UploadOrder(f)'
  BY DEF UploadOrder, DiskQueue

-----------------------------------------------------------------------------
(* Steps of the disk threads.                                              *)

LEMMA BlockComes ==
  ASSUME IInv, IInv', NEW f \in Fds, NEW data, DataPost(f, data)
  PROVE  /\ \A c : Coming(f, c)' <=> Coming(f, c)
         /\ HeadStays /\ \A g \in Fds : g # f => NoticesStay(g)
  <1> DEFINE n == [fd |-> f, action |-> "DATA_WRITE", data |-> data]
  <1>2. n.fd = f /\ \A c : ~Says(n, f, c)
    BY DEF Says
  <1>3. notify(n) /\ PoolTypeOK
    BY DEF DataPost, IInv, TypeOK
  <1> HIDE DEF n
  <1>1. n \in Notification
    <2>1. notify_pipe' = Append(notify_pipe, n)
      BY <1>3 DEF notify
    <2>2. notify_pipe \in Seq(Notification) /\ notify_pipe' \in Seq(Notification)
      BY DEF IInv, TypeOK, PoolTypeOK
    <2> QED
      BY <2>1, <2>2, LastType
  <1>4. Wrote(f, n, n.action, EndsFor(n, f)) /\ \A g \in Fds : g # f => NoticesStay(g)
    BY <1>1, <1>2, <1>3, PipeWritten
  <1>5. MyNotices(f)' = MyNotices(f) \cup {n} /\ HeadStays
    BY <1>4 DEF Wrote
  <1>6. \A c : Coming(f, c)' <=> Coming(f, c) \/ Says(n, f, c)
    BY <1>5, ComingAfter
  <1> QED
    BY <1>2, <1>4, <1>5, <1>6

\* Only the client of the task is concerned.
LEMMA DiskFits ==
  ASSUME Orderly, AllFit, NEW f \in Fds, fault = "none", UNCHANGED <<sessions, reactorVars>>,
         HeadStays, \A g \in Fds : g # f => /\ TasksStay(g) /\ NoticesStay(g) /\ WorkStays(g)
                                            /\ disks'[g] = disks[g],
         Fits(f)'
  PROVE  AllFit'
  <1>1. IInv /\ AllFacts
    BY FactsNow DEF Orderly
  <1>2. \A g \in Fds : g # f => Apart(g)
    BY <1>1, DiskApart
  <1> QED
    BY <1>1, <1>2, FitsFor

\* What the task of a disk thread says of f.
LEMMA DiskSpot ==
  ASSUME Orderly, IInv', AllFit, NEW f \in Fds, NEW h, NEW act, DiskTook(f, h, act)
  PROVE  /\ SpotStays(f) /\ Act(f)' = Act(f) /\ Connected(f) /\ Facts(f) /\ Fits(f)
         /\ \A a \in {"STOR_START", "STOR_OK", "STORING", "WRITE_DONE"} :
              /\ Work(f, a)' \in Nat
              /\ Work(f, a) = (IF act = a THEN Work(f, a)' + 1 ELSE Work(f, a)')
              /\ Work(f, a)' <= Work(f, a)
  <1>1. Connected(f) /\ ReactorStays(f) /\ sessions'[f] = sessions[f]
    BY DEF DiskTook
  <1>2. Act(f)' = Act(f)
    BY <1>1 DEF Act
  <1>3. IInv
    BY DEF Orderly
  <1>4. DiskCounts(f, act)
    BY <1>3, DiskSums
  <1>5. Facts(f) /\ Fits(f)
    BY FactsNow DEF AllFacts, AllFit
  <1> QED
    BY <1>1, <1>2, <1>4, <1>5, SpotOf DEF DiskCounts

\* A transfer begins.
LEMMA StartFits ==
  ASSUME Orderly, Orderly', AllFit, NEW t \in DiskThreads, fault = "none",
         UNCHANGED <<sessions, reactorVars>>,
         NEW h, h = Head(disk_pool[t]), NEW act, DiskTake(t, act), UploadOrder(h.fd),
         NEW info \in DiskInfo, add_disk(h.fd, info),
         \/ act = "INDEX_START" /\ info.data_action \in {"DISK_INDEX_LOADING", "DISK_INDEX_FINISH"}
         \/ act = "RETR_START" /\ info.data_action \in {"DISK_RETR_LOADING", "DISK_RETR_FINISH"}
         \/ act = "STOR_START" /\ info.data_action = "DISK_STOR_START",
         IF act = "STOR_START" THEN post_to_session([fd |-> h.fd, action |-> "STOR_START"])
                               ELSE session_pool' = session_pool,
         \/ notify_pipe' = notify_pipe
         \/ \E data : DataPost(h.fd, data)
  PROVE  AllFit'
  <1>f. PICK f : f = h.fd
    OBVIOUS
  <1>1. IInv /\ IInv' /\ DiskTypeOK /\ PoolTypeOK /\ Routed
    BY DEF Orderly, IInv, TypeOK
  <1>2. f \in Fds /\ DiskTook(f, h, act) /\ \A g \in Fds : g # f => WorkStays(g)
    BY <1>f, DiskTakes
  <1>3. disks[f] = NULL
    BY <1>1, <1>2, NothingServed
  <1>4. /\ DAct(f) = "NONE" /\ DAct(f)' = info.data_action
        /\ \A g \in Fds : g # f => disks'[g] = disks[g]
    BY <1>f, <1>1, <1>2, <1>3, DiskAdded DEF DAct
  <1>5. /\ SpotStays(f) /\ Act(f)' = Act(f) /\ Facts(f) /\ Fits(f) /\ Facts(f)'
        /\ \A a \in {"STOR_START", "STOR_OK", "STORING", "WRITE_DONE"} :
             /\ Work(f, a)' \in Nat
             /\ Work(f, a) = (IF act = a THEN Work(f, a)' + 1 ELSE Work(f, a)')
             /\ Work(f, a)' <= Work(f, a)
    BY <1>1, <1>2, DiskSpot, FactsNext DEF AllFacts
  <1>6. /\ \A c : Coming(f, c)' <=> Coming(f, c)
        /\ HeadStays /\ \A g \in Fds : g # f => NoticesStay(g)
    BY <1>f, <1>1, <1>2, NothingComes, BlockComes
  <1>7. CASE act = "STOR_START"
    <2>1. PICK task : task = [fd |-> f, action |-> "STOR_START"]
      OBVIOUS
    <2>2. task \in SessionTask /\ task.fd = f /\ task.action = "STOR_START"
      BY <1>2, <2>1 DEF SessionTask, SignalTasks
    <2>3. post_to_session(task)
      BY <1>f, <1>7, <2>1
    <2>4. /\ \A a : Tasks(f, a)' = (IF "STOR_START" = a THEN Tasks(f, a) + 1 ELSE Tasks(f, a))
          /\ \A g \in Fds : g # f => TasksStay(g)
      BY <1>1, <1>2, <2>2, <2>3, PostedFor
    <2>5. /\ Tasks(f, "STOR_START")' = Tasks(f, "STOR_START") + 1
          /\ Tasks(f, "TRANS_OK")' = Tasks(f, "TRANS_OK") /\ Accepts(f)' = Accepts(f)
      BY <2>4 DEF Accepts
    <2>6. h \in DiskTask /\ ThreadOf(h.fd) = t /\ h.action = "STOR_START"
      <3>1. disk_pool[t] # <<>> /\ disk_pool[t] \in Seq(DiskTask)
        BY <1>1 DEF DiskTake, PoolTypeOK
      <3>2. h \in Elements(disk_pool[t])
        BY <3>1, TailElements
      <3> QED
        BY <1>1, <1>7, <3>2, ElementsType, <3>1 DEF Routed, DiskTake
    <2>7. Work(f, "STOR_OK")' = 0
      BY <1>f, <1>1, <1>2, <2>6, UploadTaken
    <2>8. /\ Work(f, "STOR_START") = Work(f, "STOR_START")' + 1
          /\ Work(f, "STOR_START")' \in Nat /\ UploadsStay(f)
      BY <1>5, <1>7 DEF UploadsStay
    <2>9. DAct(f)' \in UploadStates
      BY <1>4, <1>7 DEF UploadStates
    <2>10. Fits(f)'
      BY <1>2, <1>5, <1>6, <2>5, <2>7, <2>8, <2>9, BegunFits
    <2> QED
      BY <1>2, <1>4, <1>6, <2>4, <2>10, DiskFits
  <1>8. CASE act # "STOR_START"
    <2>1. \A a : Tasks(f, a)' = Tasks(f, a)
      BY <1>2, <1>8, NoSignal
    <2>2. /\ Tasks(f, "STOR_START")' = Tasks(f, "STOR_START")
          /\ Tasks(f, "TRANS_OK")' = Tasks(f, "TRANS_OK") /\ Accepts(f)' = Accepts(f)
      BY <2>1 DEF Accepts
    <2>3. /\ Work(f, "STOR_START")' = Work(f, "STOR_START")
          /\ Work(f, "STOR_OK")' <= Work(f, "STOR_OK") /\ Work(f, "STORING")' <= Work(f, "STORING")
          /\ Work(f, "WRITE_DONE")' <= Work(f, "WRITE_DONE")
      BY <1>5, <1>8
    <2>4. DAct(f)' \in UploadStates <=> DAct(f) \in UploadStates
      BY <1>4, <1>8 DEF UploadStates
    <2>5. Fits(f)'
      BY <1>2, <1>5, <1>6, <2>2, <2>3, <2>4, GoesOnFits
    <2>6. \A g \in Fds : TasksStay(g)
      BY <1>2, <1>8, NoSignal
    <2> QED
      BY <1>2, <1>4, <1>6, <2>5, <2>6, DiskFits
  <1> QED
    BY <1>7, <1>8

LEMMA DiskIndexStartFits ==
  ASSUME Orderly, Orderly', AllFit, NEW t \in DiskThreads, fault = "none",
         UNCHANGED <<sessions, reactorVars>>, DiskIndexStart(t),
         UploadOrder(Head(disk_pool[t]).fd)
  PROVE  AllFit'
  <1>h. PICK h : h = Head(disk_pool[t])
    OBVIOUS
  <1>1. PICK names \in Directory :
          /\ DiskTake(t, "INDEX_START")
          /\ add_disk(h.fd, [data_action |-> IndexAction(Unlisted(names)),
                             file_handle |-> NoHandle, cur_dir |-> Unlisted(names)])
          /\ DataPost(h.fd, Lines(names))
          /\ session_pool' = session_pool
    BY <1>h DEF DiskIndexStart
  <1>2. names \in Seq(Files)
    BY DiskAssumption DEF Directory
  <1>3. PICK info : info = [data_action |-> IndexAction(Unlisted(names)),
                            file_handle |-> NoHandle, cur_dir |-> Unlisted(names)]
    OBVIOUS
  <1>4. /\ info \in DiskInfo
        /\ info.data_action \in {"DISK_INDEX_LOADING", "DISK_INDEX_FINISH"}
    BY <1>2, <1>3, ListingPiece DEF DiskInfo, IndexAction
  <1>5. PICK act : act = "INDEX_START"
    OBVIOUS
  <1>6. DiskTake(t, act) /\ add_disk(h.fd, info) /\ act # "STOR_START" /\ UploadOrder(h.fd)
    BY <1>h, <1>1, <1>3, <1>5
  <1> QED
    BY <1>h, <1>1, <1>4, <1>5, <1>6, StartFits

LEMMA DiskStorStartFits ==
  ASSUME Orderly, Orderly', AllFit, NEW t \in DiskThreads, fault = "none",
         UNCHANGED <<sessions, reactorVars>>, DiskStorStart(t),
         UploadOrder(Head(disk_pool[t]).fd)
  PROVE  AllFit'
  <1>h. PICK h : h = Head(disk_pool[t])
    OBVIOUS
  <1>1. PICK handle : handle = IF StorOpens(h) THEN NextHandle ELSE NoHandle
    OBVIOUS
  <1>2. handle \in Handles \cup {NoHandle}
    BY <1>1, NextHandleType DEF StorOpens, CanOpen
  <1>3. PICK info : info = [data_action |-> "DISK_STOR_START", file_handle |-> handle,
                            cur_dir |-> <<>>]
    OBVIOUS
  <1>4. info \in DiskInfo /\ info.data_action = "DISK_STOR_START"
    BY <1>2, <1>3 DEF DiskInfo, DiskActions
  <1>5. PICK act : act = "STOR_START"
    OBVIOUS
  <1>6. /\ DiskTake(t, act) /\ add_disk(h.fd, info) /\ notify_pipe' = notify_pipe
        /\ post_to_session([fd |-> h.fd, action |-> "STOR_START"]) /\ UploadOrder(h.fd)
    BY <1>h, <1>1, <1>3, <1>5 DEF DiskStorStart
  <1> QED
    BY <1>h, <1>4, <1>5, <1>6, StartFits

LEMMA DiskRetrStartFits ==
  ASSUME Orderly, Orderly', AllFit, NEW t \in DiskThreads, fault = "none",
         UNCHANGED <<sessions, reactorVars>>, DiskRetrStart(t) \/ DiskRetrStartFails(t),
         UploadOrder(Head(disk_pool[t]).fd)
  PROVE  AllFit'
  <1>h. PICK h : h = Head(disk_pool[t])
    OBVIOUS
  <1>a. PICK act : act = "RETR_START"
    OBVIOUS
  <1>1. act = "RETR_START" /\ act # "STOR_START" /\ UploadOrder(h.fd)
    BY <1>h, <1>a
  <1>2. CASE DiskRetrStart(t)
    <2>1. PICK data : data = BytesAt(h.path, h.rest)
      OBVIOUS
    <2>2. PICK info : info = [data_action |-> IF data # <<>> THEN "DISK_RETR_LOADING"
                                              ELSE "DISK_RETR_FINISH",
                              file_handle |-> NextHandle, cur_dir |-> <<>>]
      OBVIOUS
    <2>3. /\ DiskTake(t, act) /\ add_disk(h.fd, info) /\ DataPost(h.fd, data)
          /\ CanOpen(h.path) /\ session_pool' = session_pool
      BY <1>h, <1>1, <1>2, <2>1, <2>2 DEF DiskRetrStart
    <2>4. /\ info \in DiskInfo
          /\ info.data_action \in {"DISK_RETR_LOADING", "DISK_RETR_FINISH"}
      BY <2>2, <2>3, NextHandleType DEF DiskInfo, DiskActions, CanOpen
    <2> QED
      BY <1>h, <1>1, <2>3, <2>4, StartFits
  <1>3. CASE DiskRetrStartFails(t)
    <2>2. PICK info : info = [data_action |-> "DISK_RETR_FINISH", file_handle |-> NoHandle,
                              cur_dir |-> <<>>]
      OBVIOUS
    <2>3. /\ DiskTake(t, act) /\ add_disk(h.fd, info) /\ notify_pipe' = notify_pipe
          /\ session_pool' = session_pool
      BY <1>h, <1>1, <1>3, <2>2 DEF DiskRetrStartFails
    <2>4. info \in DiskInfo /\ info.data_action = "DISK_RETR_FINISH"
      BY <2>2 DEF DiskInfo, DiskActions
    <2> QED
      BY <1>h, <1>1, <2>3, <2>4, StartFits
  <1> QED
    BY <1>2, <1>3

\* A transfer goes on, or there is none.
LEMMA DiskGoesOnFits ==
  ASSUME Orderly, Orderly', AllFit, NEW t \in DiskThreads, fault = "none",
         UNCHANGED <<sessions, reactorVars>>,
         NEW h, h = Head(disk_pool[t]), NEW act, DiskTake(t, act),
         act \in {"WRITE_DONE", "STORING", "STOR_OK"},
         DAct(h.fd)' \in UploadStates <=> DAct(h.fd) \in UploadStates,
         \A g \in Fds : g # h.fd => disks'[g] = disks[g],
         session_pool' = session_pool,
         \/ notify_pipe' = notify_pipe
         \/ \E data : DataPost(h.fd, data)
  PROVE  AllFit'
  <1>f. PICK f : f = h.fd
    OBVIOUS
  <1>1. IInv /\ IInv'
    BY DEF Orderly
  <1>2. f \in Fds /\ DiskTook(f, h, act) /\ \A g \in Fds : g # f => WorkStays(g)
    BY <1>f, DiskTakes
  <1>3. DAct(f)' \in UploadStates <=> DAct(f) \in UploadStates
    BY <1>f
  <1>5. /\ SpotStays(f) /\ Act(f)' = Act(f) /\ Facts(f) /\ Fits(f) /\ Facts(f)'
        /\ \A a \in {"STOR_START", "STOR_OK", "STORING", "WRITE_DONE"} :
             /\ Work(f, a) = (IF act = a THEN Work(f, a)' + 1 ELSE Work(f, a)')
             /\ Work(f, a)' <= Work(f, a)
    BY <1>1, <1>2, DiskSpot, FactsNext DEF AllFacts
  <1>6. /\ \A c : Coming(f, c)' <=> Coming(f, c)
        /\ HeadStays /\ \A g \in Fds : g # f => NoticesStay(g)
    BY <1>f, <1>1, <1>2, NothingComes, BlockComes
  <1>7. /\ \A a : Tasks(f, a)' = Tasks(f, a)
        /\ \A g \in Fds : TasksStay(g)
    BY <1>2, NoSignal
  <1>8. /\ Tasks(f, "STOR_START")' = Tasks(f, "STOR_START")
        /\ Tasks(f, "TRANS_OK")' = Tasks(f, "TRANS_OK") /\ Accepts(f)' = Accepts(f)
    BY <1>7 DEF Accepts
  <1>9. /\ Work(f, "STOR_START")' = Work(f, "STOR_START")
        /\ Work(f, "STOR_OK")' <= Work(f, "STOR_OK") /\ Work(f, "STORING")' <= Work(f, "STORING")
        /\ Work(f, "WRITE_DONE")' <= Work(f, "WRITE_DONE")
    BY <1>5
  <1>10. Fits(f)'
    BY <1>2, <1>3, <1>5, <1>6, <1>8, <1>9, GoesOnFits
  <1> QED
    BY <1>f, <1>2, <1>6, <1>7, <1>10, DiskFits

LEMMA DownloadGoesOnFits ==
  ASSUME Orderly, Orderly', AllFit, NEW t \in DiskThreads, fault = "none",
         UNCHANGED <<sessions, reactorVars>>,
         DiskIndexLoading(t) \/ DiskRetrLoading(t) \/ DiskRetrLoadingFails(t)
  PROVE  AllFit'
  <1>h. PICK h : h = Head(disk_pool[t])
    OBVIOUS
  <1>a. PICK act : act = "WRITE_DONE"
    OBVIOUS
  <1>f. PICK f : f = h.fd
    OBVIOUS
  <1>0. IInv'
    BY DEF Orderly
  <1>1. DiskTake(t, act) /\ disks[f] # NULL /\ session_pool' = session_pool
    BY <1>h, <1>a, <1>f
    DEF DiskIndexLoading, DiskRetrLoading, DiskRetrLoadingFails, ForDisk
  <1>2. /\ f \in Fds /\ DiskTypeOK
        /\ disks[f] \in DiskInfo /\ DAct(f) = disks[f].data_action
        /\ DAct(f) \notin UploadStates
    <2>1. /\ f \in Fds /\ DiskTypeOK /\ DAct(f) \in DownloadStates
          /\ disks[f] \in DiskInfo /\ DAct(f) = disks[f].data_action
      BY <1>0, <1>h, <1>a, <1>f, <1>1, TakenFor
    <2> QED
      BY <2>1 DEF DownloadStates, UploadStates
  <1>3. \/ notify_pipe' = notify_pipe
        \/ \E data : DataPost(f, data)
    BY <1>h, <1>f DEF DiskIndexLoading, DiskRetrLoading, DiskRetrLoadingFails
  <1>4. PICK action \in {"DISK_INDEX_LOADING", "DISK_INDEX_FINISH", "DISK_RETR_FINISH"} :
          \/ disks' = disks \/ SetAction(f, action)
          \/ \E names : disks' = [disks EXCEPT ![f].data_action = action, ![f].cur_dir = names]
    BY <1>h, <1>f DEF DiskIndexLoading, DiskRetrLoading, DiskRetrLoadingFails, IndexAction
  <1>5. \A g \in Fds : g # f => disks'[g] = disks[g]
    BY <1>2, <1>4 DEF DiskTypeOK, SetAction
  <1>6. DAct(f)' \notin UploadStates
    <2>1. CASE disks' = disks
      BY <1>2, <2>1 DEF DAct
    <2>2. CASE disks' # disks
      <3>1. disks'[f].data_action = action
        BY <1>2, <1>4, <2>2 DEF DiskTypeOK, SetAction, DiskInfo
      <3>2. DAct(f)' \in {action, "NONE"}
        BY <3>1 DEF DAct
      <3> QED
        BY <3>2 DEF UploadStates
    <2> QED
      BY <2>1, <2>2
  <1> QED
    BY <1>h, <1>a, <1>f, <1>1, <1>2, <1>3, <1>5, <1>6, DiskGoesOnFits

LEMMA UploadGoesOnFits ==
  ASSUME Orderly, Orderly', AllFit, NEW t \in DiskThreads, fault = "none",
         UNCHANGED <<sessions, reactorVars>>,
         DiskStoring(t) \/ DiskStoringFails(t) \/ DiskStorOkFails(t)
  PROVE  AllFit'
  <1>h. PICK h : h = Head(disk_pool[t])
    OBVIOUS
  <1>f. PICK f : f = h.fd
    OBVIOUS
  <1>0. IInv'
    BY DEF Orderly
  <1>1. PICK act \in {"STORING", "STOR_OK"} : DiskTake(t, act)
    BY DEF DiskStoring, DiskStoringFails, DiskStorOkFails, ForDisk
  <1>2. /\ disks[f] # NULL /\ session_pool' = session_pool /\ notify_pipe' = notify_pipe
        /\ \E action \in UploadStates : SetAction(f, action)
    BY <1>h, <1>f DEF DiskStoring, DiskStoringFails, DiskStorOkFails, ForDisk, UploadStates
  <1>3. f \in Fds /\ DiskTypeOK /\ DAct(f) \in UploadStates
    BY <1>0, <1>h, <1>f, <1>1, <1>2, TakenFor
  <1>4. PICK action \in UploadStates : SetAction(f, action)
    BY <1>2
  <1>5. action \in DiskActions
    BY DEF UploadStates, DiskActions
  <1>6. /\ disks'[f] # NULL /\ DAct(f)' \in UploadStates
        /\ \A g \in Fds : g # f => disks'[g] = disks[g]
    BY <1>2, <1>3, <1>4, <1>5, ActionSet
  <1> QED
    BY <1>h, <1>f, <1>1, <1>2, <1>3, <1>6, DiskGoesOnFits

LEMMA NothingToDoFits ==
  ASSUME Orderly, Orderly', AllFit, NEW t \in DiskThreads, fault = "none",
         UNCHANGED <<sessions, reactorVars>>,
         DiskMissing(t) \/ DiskWriteDoneIgnored(t)
  PROVE  AllFit'
  <1>h. PICK h : h = Head(disk_pool[t])
    OBVIOUS
  <1>f. PICK f : f = h.fd
    OBVIOUS
  <1>1. PICK act \in {"WRITE_DONE", "STORING", "STOR_OK"} : DiskTake(t, act)
    BY <1>h, <1>f DEF DiskMissing, DiskWriteDoneIgnored, ForDisk
  <1>2. disks' = disks /\ session_pool' = session_pool /\ notify_pipe' = notify_pipe
    BY DEF DiskMissing, DiskWriteDoneIgnored
  <1>3. DAct(f)' = DAct(f)
    BY <1>2 DEF DAct
  <1> QED
    BY <1>h, <1>f, <1>1, <1>2, <1>3, DiskGoesOnFits

\* A transfer ends.
LEMMA TransferEndsFits ==
  ASSUME Orderly, Orderly', AllFit, NEW t \in DiskThreads, fault = "none",
         UNCHANGED <<sessions, reactorVars>>,
         DiskDownloadDone(t) \/ DiskStorOk(t), UploadOrder(Head(disk_pool[t]).fd)
  PROVE  AllFit'
  <1>h. PICK h : h = Head(disk_pool[t])
    OBVIOUS
  <1>f. PICK f : f = h.fd
    OBVIOUS
  <1>0. IInv /\ IInv' /\ PoolTypeOK /\ DiskTypeOK /\ Routed
    BY DEF Orderly, IInv, TypeOK
  <1>1. PICK act \in {"WRITE_DONE", "STOR_OK"} : DiskTake(t, act)
    BY DEF DiskDownloadDone, DiskStorOk, ForDisk
  <1>2. /\ disks[f] # NULL /\ notify_pipe' = notify_pipe
        /\ disks' = [disks EXCEPT ![f] = NULL] /\ fault' = "none"
        /\ post_to_session([fd |-> f, action |-> "TRANS_OK"])
    BY <1>h, <1>f DEF DiskDownloadDone, DiskStorOk, ForDisk, TransOk, del_disk
  <1>3. f \in Fds /\ DiskTook(f, h, act) /\ \A g \in Fds : g # f => WorkStays(g)
    BY <1>h, <1>f, <1>1, DiskTakes
  <1>4. /\ act = "WRITE_DONE" => DAct(f) \in DownloadStates
        /\ act = "STOR_OK" => DAct(f) \in UploadStates
    BY <1>0, <1>h, <1>f, <1>1, <1>2, TakenFor
  <1>5. DAct(f)' = "NONE" /\ \A g \in Fds : g # f => disks'[g] = disks[g]
    BY <1>0, <1>2, <1>3 DEF DiskTypeOK, DAct
  <1>6. /\ SpotStays(f) /\ Act(f)' = Act(f) /\ Facts(f) /\ Fits(f) /\ Facts(f)'
        /\ \A a \in {"STOR_START", "STOR_OK", "STORING", "WRITE_DONE"} :
             Work(f, a) = (IF act = a THEN Work(f, a)' + 1 ELSE Work(f, a)')
    BY <1>0, <1>3, DiskSpot, FactsNext DEF AllFacts
  <1>7. /\ \A c : Coming(f, c)' <=> Coming(f, c)
        /\ HeadStays /\ \A g \in Fds : NoticesStay(g)
    BY <1>2, <1>3, NothingComes
  <1>8. PICK task : task = [fd |-> f, action |-> "TRANS_OK"]
    OBVIOUS
  <1>9. task \in SessionTask /\ task.fd = f /\ task.action = "TRANS_OK"
    BY <1>3, <1>8 DEF SessionTask, SignalTasks
  <1>10. post_to_session(task)
    BY <1>2, <1>8
  <1>11. /\ \A a : Tasks(f, a)' = (IF "TRANS_OK" = a THEN Tasks(f, a) + 1 ELSE Tasks(f, a))
         /\ \A g \in Fds : g # f => TasksStay(g)
    BY <1>0, <1>3, <1>9, <1>10, PostedFor
  <1>12. /\ Tasks(f, "TRANS_OK")' = Tasks(f, "TRANS_OK") + 1
         /\ Tasks(f, "STOR_START")' = Tasks(f, "STOR_START") /\ Accepts(f)' = Accepts(f)
    BY <1>11 DEF Accepts
  <1>13. Work(f, "STOR_START")' = Work(f, "STOR_START")
    BY <1>6
  <1>14. ThreadOf(h.fd) = t /\ h.action = act
    <2>1. disk_pool[t] # <<>> /\ disk_pool[t] \in Seq(DiskTask)
      BY <1>0, <1>1 DEF DiskTake, PoolTypeOK
    <2>2. h \in Elements(disk_pool[t])
      BY <1>h, <2>1, TailElements
    <2> QED
      BY <1>0, <1>h, <1>1, <2>2 DEF Routed, DiskTake
  <1>15. act = "STOR_OK" => Work(f, "STORING")' = 0
    BY <1>0, <1>h, <1>f, <1>1, <1>3, <1>14, UploadTaken
  <1>16. \/ /\ DAct(f) \in DownloadStates
            /\ Work(f, "STOR_OK")' = Work(f, "STOR_OK")
            /\ Work(f, "STORING")' = Work(f, "STORING")
         \/ /\ DAct(f) \in UploadStates /\ Work(f, "STORING")' = 0
            /\ Work(f, "STOR_OK") = Work(f, "STOR_OK")' + 1
    BY <1>1, <1>4, <1>6, <1>15
  <1>17. Fits(f)'
    BY <1>2, <1>3, <1>5, <1>6, <1>7, <1>12, <1>13, <1>16, EndsFits
  <1> QED
    BY <1>3, <1>5, <1>7, <1>11, <1>17, DiskFits

LEMMA DiskThreadFits ==
  ASSUME Orderly, Orderly', AllFit, \A g \in Fds : UploadOrder(g),
         NEW t \in DiskThreads, DiskThread(t)
  PROVE  AllFit'
  <1>1. fault = "none" /\ DiskStep(t) /\ UNCHANGED <<sessions, reactorVars>>
    BY DEF DiskThread
  <1>2. UploadOrder(Head(disk_pool[t]).fd)
    <2>1. \E act : DiskTake(t, act)
      BY <1>1 DEF DiskStep, DiskIndexStart, DiskStorStart, DiskRetrStart, DiskRetrStartFails,
           DiskIndexLoading, DiskRetrLoading, DiskRetrLoadingFails, DiskDownloadDone,
           DiskWriteDoneIgnored, DiskStoring, DiskStoringFails, DiskStorOk, DiskStorOkFails,
           DiskMissing, ForDisk
    <2>2. Head(disk_pool[t]).fd \in Fds
      BY <1>1, <2>1, DiskTakes
    <2> QED
      BY <2>2
  <1> QED
    BY <1>1, <1>2, DiskIndexStartFits, DiskStorStartFits, DiskRetrStartFits,
       DownloadGoesOnFits, UploadGoesOnFits, NothingToDoFits, TransferEndsFits DEF DiskStep

-----------------------------------------------------------------------------
(* Steps of the reactor: the session and the disk thread have what they    *)
(* had.                                                                    *)

HandStays(f) ==
  /\ Connected(f) /\ Connected(f)' /\ Act(f)' = Act(f) /\ DAct(f)' = DAct(f)
  /\ peers'[f].xfer = peers[f].xfer /\ peers'[f].started = peers[f].started
  /\ peers'[f].port = peers[f].port
  /\ Tasks(f, "STOR_START")' = Tasks(f, "STOR_START")
  /\ Tasks(f, "TRANS_OK")' = Tasks(f, "TRANS_OK")
  /\ Work(f, "STOR_START")' = Work(f, "STOR_START")
  /\ (Said(f, 150)' <=> Said(f, 150)) /\ (Said(f, 226)' <=> Said(f, 226))
  /\ Given(f, 226)' => Given(f, 226) \/ (Held(f)' = {} /\ clients'[f].ev_data_accept = NULL)

SocksKept ==
  \A p \in Ports : /\ data_sock'[p].peer = data_sock[p].peer
                   /\ data_sock'[p].inq = data_sock[p].inq

LEMMA PortsTyped ==
  ASSUME IInv, NEW f \in Fds, Connected(f)
  PROVE  /\ peers[f].port \in Ports \cup {NULL} /\ clients[f].data_fd \in Ports \cup {NULL}
         /\ clients[f].ev_data_accept \in Ports \cup {NULL}
  BY DEF IInv, TypeOK, ReactorTypeOK, ClientsWhole, Connected, TCP_client, Peer

LEMMA HandOf ==
  ASSUME NEW f \in Fds, HandStays(f)
  PROVE  /\ Marked(f)' <=> Marked(f)
         /\ Begun(f)' <=> Begun(f)
         /\ Upload(f)' <=> Upload(f)
  <1>1. Marked(f)' <=> Marked(f)
    BY DEF HandStays, Marked
  <1> QED
    BY <1>1 DEF HandStays, Begun, Upload

\* Before the 150 nothing of a transfer is at the disk threads.
LEMMA NotBegun ==
  ASSUME NEW f \in Fds, Facts(f), Fits(f), Connected(f), ~Begun(f)
  PROVE  /\ Tasks(f, "STOR_START") = 0 /\ Tasks(f, "TRANS_OK") = 0
         /\ Act(f) \notin {"DATA_INDEX_DOWNLOAD", "DATA_FILE_DOWNLOAD"}
         /\ DAct(f) \notin UploadStates /\ ~Said(f, 226) /\ clients[f].file_buffer = <<>>
         /\ ~Marked(f)
  <1>1. /\ OneAtWork(f) /\ MarksFit(f) /\ BytesFit(f) /\ EndsFit(f)
        /\ Tasks(f, "STOR_START") \in Nat /\ Tasks(f, "TRANS_OK") \in Nat
    BY FitsNow
  <1>2. Tasks(f, "STOR_START") = 0 /\ ~Marked(f)
    BY <1>1 DEF Begun
  <1>3. /\ Act(f) \notin {"DATA_INDEX_DOWNLOAD", "DATA_FILE_DOWNLOAD"}
        /\ DAct(f) \notin UploadStates /\ ~Said(f, 226)
    BY <1>1, <1>2 DEF MarksFit
  <1>4. clients[f].file_buffer = <<>>
    BY <1>1, <1>2 DEF BytesFit, Upload, Marked
  <1>5. Tasks(f, "TRANS_OK") = 0
    <2>1. SUFFICES ASSUME Tasks(f, "TRANS_OK") > 0 PROVE FALSE
      BY <1>1
    <2>2. Act(f) \in Serving /\ peers[f].xfer # NULL
      BY <1>1, <2>1 DEF OneAtWork, AtWork
    <2>3. Act(f) = "DATA_STOR"
      BY <1>3, <2>2 DEF Serving
    <2>4. peers[f].started
      BY <1>1, <2>1, <2>3 DEF EndsFit, Ending
    <2> QED
      BY <1>2, <2>2, <2>4 DEF Marked
  <1> QED
    BY <1>2, <1>3, <1>4, <1>5

LEMMA NotBegunFits ==
  ASSUME IInv, NEW f \in Fds, Facts(f), Fits(f), HandStays(f), SocksKept, ~Begun(f),
         clients'[f].file_buffer = <<>>,
         clients'[f].data_fd # NULL => data_sock'[clients'[f].data_fd].inq = <<>>,
         Calls(f)' => data_sock'[clients'[f].ev_data_accept].inq = <<>>
  PROVE  Fits(f)'
  <1>0. Connected(f)
    BY DEF HandStays
  <1>1. OwnSocket(f) /\ BytesFit(f)
    BY <1>0, FitsNow
  <1>2. /\ Tasks(f, "STOR_START") = 0 /\ Tasks(f, "TRANS_OK") = 0
        /\ Act(f) \notin {"DATA_INDEX_DOWNLOAD", "DATA_FILE_DOWNLOAD"}
        /\ DAct(f) \notin UploadStates /\ ~Said(f, 226)
    BY <1>0, NotBegun
  <1>3. /\ ~Begun(f)' /\ (Upload(f)' <=> Upload(f))
        /\ Tasks(f, "STOR_START")' = 0 /\ Tasks(f, "TRANS_OK")' = 0
        /\ Act(f)' \notin {"DATA_INDEX_DOWNLOAD", "DATA_FILE_DOWNLOAD"}
        /\ DAct(f)' \notin UploadStates /\ ~Said(f, 226)'
    BY <1>2, HandOf DEF HandStays
  <1>4. MarksFit(f)'
    BY <1>3 DEF MarksFit
  <1>5. Upload(f) => Dial(f)'.inq = Dial(f).inq /\ Dial(f)'.peer = Dial(f).peer
    <2>1. peers[f].port \in Ports \cup {NULL} /\ peers'[f].port = peers[f].port
      BY <1>0, PortsTyped DEF HandStays
    <2>2. Upload(f) => peers[f].port # NULL
      BY <1>1 DEF OwnSocket, Upload
    <2> QED
      BY <2>1, <2>2 DEF Dial, SocksKept
  <1>6. BytesFit(f)'
    BY <1>1, <1>3, <1>5 DEF BytesFit, HandStays
  <1>7. ~Ending(f)' /\ ~Over(f)' /\ ~Given(f, 226)'
    BY <1>3 DEF Ending, Over, Said
  <1>8. EndsFit(f)'
    BY <1>7 DEF EndsFit
  <1> QED
    BY <1>4, <1>6, <1>8 DEF Fits

\* The connection and the buffer stay as they are.
LEMMA SameFits ==
  ASSUME IInv, NEW f \in Fds, Facts(f), Fits(f), HandStays(f), SocksKept,
         Held(f)' = Held(f), Calls(f)' <=> Calls(f), Accepts(f)' = Accepts(f),
         clients'[f].ev_data_accept = clients[f].ev_data_accept,
         clients'[f].data_fd = clients[f].data_fd,
         clients'[f].file_buffer = clients[f].file_buffer,
         Work(f, "STOR_OK")' = Work(f, "STOR_OK"), Work(f, "STORING")' = Work(f, "STORING"),
         Over(f) => /\ Work(f, "WRITE_DONE")' = Work(f, "WRITE_DONE")
                    /\ clients'[f].data_write_q = clients[f].data_write_q
  PROVE  Fits(f)'
  <1>0. Connected(f)
    BY DEF HandStays
  <1>1. OwnSocket(f) /\ MarksFit(f) /\ BytesFit(f) /\ EndsFit(f)
    BY <1>0, FitsNow
  <1>2. /\ Marked(f)' <=> Marked(f)
        /\ Begun(f)' <=> Begun(f)
        /\ Upload(f)' <=> Upload(f)
    BY HandOf
  <1>3. /\ peers[f].port \in Ports \cup {NULL} /\ peers'[f].port = peers[f].port
        /\ clients[f].data_fd \in Ports \cup {NULL}
        /\ clients[f].ev_data_accept \in Ports \cup {NULL}
    BY <1>0, PortsTyped DEF HandStays
  <1>4. /\ peers[f].port # NULL => Dial(f)'.inq = Dial(f).inq /\ Dial(f)'.peer = Dial(f).peer
        /\ clients[f].data_fd # NULL =>
             data_sock'[clients'[f].data_fd].inq = data_sock[clients[f].data_fd].inq
        /\ Calls(f) => data_sock'[clients'[f].ev_data_accept].inq =
                       data_sock[clients[f].ev_data_accept].inq
    BY <1>3 DEF Dial, SocksKept, Calls
  <1>5. peers[f].xfer # NULL => peers[f].port # NULL
    BY <1>1 DEF OwnSocket
  <1>6. Begun(f)' => ~Early(f)'
    BY <1>1, <1>2, <1>4, <1>5 DEF MarksFit, Early, HandStays
  <1>7. MarksFit(f)'
    BY <1>1, <1>2, <1>6 DEF MarksFit, HandStays
  <1>8. BytesFit(f)'
    BY <1>1, <1>2, <1>4, <1>5 DEF BytesFit, HandStays, Upload
  <1>9. (Ending(f)' <=> Ending(f)) /\ (Over(f)' <=> Over(f))
    BY <1>2 DEF Ending, Over, HandStays
  <1>10. EndsFit(f)'
    BY <1>1, <1>9 DEF EndsFit, HandStays
  <1> QED
    BY <1>7, <1>8, <1>10 DEF Fits

\* While the connection of an upload is open nothing of it has ended.
LEMMA OpenUpload ==
  ASSUME NEW f \in Fds, Facts(f), Fits(f), Connected(f), Begun(f), Upload(f),
         clients[f].data_fd # NULL
  PROVE  /\ ~Ending(f) /\ ~Over(f) /\ Work(f, "STOR_OK") = 0 /\ ~Calls(f)
         /\ clients[f].data_fd = peers[f].port
  <1>1. OneAtWork(f) /\ MarksFit(f) /\ BytesFit(f) /\ EndsFit(f)
    BY FitsNow
  <1>2. ~Ending(f)
    BY <1>1 DEF EndsFit, Held
  <1>3. ~Over(f)
    <2>1. ~Said(f, 226)
      BY <1>2 DEF Ending
    <2>2. SUFFICES ASSUME Tasks(f, "TRANS_OK") > 0 PROVE FALSE
      BY <2>1 DEF Over
    <2>3. Act(f) = "DATA_STOR"
      BY <1>1, <2>2 DEF OneAtWork, AtWork, Serving
    <2> QED
      BY <1>2, <2>2, <2>3 DEF Ending
  <1> QED
    BY <1>1, <1>2, <1>3 DEF BytesFit, MarksFit, Early

LEMMA UploadFits ==
  ASSUME IInv, NEW f \in Fds, Facts(f), Fits(f), HandStays(f), Begun(f), Upload(f),
         clients[f].data_fd # NULL, peers[f].started,
         Dial(f)'.peer = Dial(f).peer, ~Calls(f)', Accepts(f)' = Accepts(f),
         \/ /\ clients'[f].data_fd = clients[f].data_fd
            /\ Work(f, "STOR_OK")' = Work(f, "STOR_OK")
         \/ /\ clients'[f].data_fd = NULL /\ Held(f)' = {}
            /\ clients'[f].ev_data_accept = NULL /\ clients'[f].file_buffer = <<>>
            /\ Work(f, "STOR_OK")' <= Work(f, "STOR_OK") + 1
  PROVE  Fits(f)'
  <1>0. Connected(f)
    BY DEF HandStays
  <1>1. MarksFit(f) /\ BytesFit(f) /\ EndsFit(f)
    BY <1>0, FitsNow
  <1>2. /\ Marked(f)' <=> Marked(f)
        /\ Begun(f)'
        /\ Upload(f)'
    BY HandOf
  <1>3. /\ ~Ending(f) /\ ~Over(f) /\ Work(f, "STOR_OK") = 0
        /\ clients[f].data_fd = peers[f].port
    BY <1>0, OpenUpload
  <1>4. ~Early(f)'
    BY <1>1 DEF MarksFit, Early, HandStays
  <1>5. MarksFit(f)'
    BY <1>1, <1>2, <1>3, <1>4 DEF MarksFit, HandStays
  <1>6. BytesFit(f)'
    BY <1>1, <1>2, <1>3 DEF BytesFit, HandStays
  <1>7. ~Over(f)'
    BY <1>3 DEF Over, HandStays
  <1>8. Ending(f)' => Held(f)' = {} /\ clients'[f].ev_data_accept = NULL
                     /\ clients'[f].file_buffer = <<>>
    <2>1. CASE clients'[f].data_fd = NULL /\ Held(f)' = {}
               /\ clients'[f].ev_data_accept = NULL /\ clients'[f].file_buffer = <<>>
      BY <2>1
    <2>2. CASE Work(f, "STOR_OK")' = Work(f, "STOR_OK")
      BY <1>2, <1>3, <2>2 DEF Ending, HandStays
    <2> QED
      BY <2>1, <2>2
  <1>9. ~Given(f, 226)
    BY <1>2, <1>3 DEF Ending, Said
  <1>10. EndsFit(f)'
    BY <1>7, <1>8, <1>9 DEF EndsFit, HandStays
  <1> QED
    BY <1>5, <1>6, <1>10 DEF Fits

\* A callback for f, in terms of the answers.
LEMMA CallbackFits ==
  ASSUME Orderly, AllFit, NEW f \in Fds, fault = "none", UNCHANGED <<sessions, disks>>,
         Connected(f) \/ data_sock' = data_sock, RoundFor(f),
         <<"notify">> \in ready' => Head(notify_pipe)' = Head(notify_pipe),
         \A p \in Ports : data_sock[p].st # "free" /\ (Connected(f) => p \notin Mentions(f))
           => data_sock'[p] = data_sock[p],
         \A g \in Fds : g # f => /\ clients'[g] = clients[g] /\ peers'[g] = peers[g]
                                 /\ TasksStay(g) /\ WorkStays(g) /\ NoticesStay(g),
         Fits(f)'
  PROVE  AllFit'
  <1>1. \A g \in Fds : g # f => Apart(g)
    BY ReactorApart
  <1>2. AllFacts
    BY FactsNow
  <1> QED
    BY <1>1, <1>2, FitsFor

\* A callback of the data connection: queues and answers are as they were.
LEMMA DataHand ==
  ASSUME Orderly, NEW f \in Fds, UNCHANGED <<sessions, disks, session_pool, notify_pipe, peers>>,
         Connected(f), Connected(f)', clients'[f].write_q = clients[f].write_q,
         Work(f, "STOR_START")' = Work(f, "STOR_START")
  PROVE  /\ HandStays(f) /\ Accepts(f)' = Accepts(f)
         /\ \A g \in Fds : TasksStay(g) /\ NoticesStay(g)
         /\ Head(notify_pipe)' = Head(notify_pipe)
  <1>1. /\ Accepts(f)' = Accepts(f) /\ DAct(f)' = DAct(f)
        /\ \A g \in Fds : TasksStay(g) /\ NoticesStay(g)
        /\ Head(notify_pipe)' = Head(notify_pipe)
    BY DataOnly
  <1>2. /\ \A a : Tasks(f, a)' = Tasks(f, a)
        /\ MyNotices(f)' = MyNotices(f)
    BY <1>1 DEF TasksStay, NoticesStay
  <1>3. \A c : Coming(f, c)' <=> Coming(f, c)
    BY <1>2, ComingStays
  <1>4. Replies(f)' = Replies(f) /\ Act(f)' = Act(f)
    BY DEF Replies, Act
  <1>5. \A c : Given(f, c)' <=> Given(f, c)
    BY <1>4 DEF Given
  <1>6. \A c : Said(f, c)' <=> Said(f, c)
    BY <1>3, <1>5 DEF Said
  <1>7. HandStays(f)
    BY <1>1, <1>2, <1>4, <1>5, <1>6 DEF HandStays
  <1> QED
    BY <1>1, <1>7

LEMMA SockSet ==
  ASSUME ReactorTypeOK, NEW p \in Ports, NEW k, data_sock' = [data_sock EXCEPT ![p] = k]
  PROVE  data_sock'[p] = k /\ \A q \in Ports : q # p => data_sock'[q] = data_sock[q]
  BY DEF ReactorTypeOK

LEMMA CallsKept ==
  ASSUME IInv, NEW f \in Fds, Connected(f),
         clients'[f].ev_data_accept = clients[f].ev_data_accept,
         \A p \in Ports : data_sock'[p].st = data_sock[p].st
  PROVE  Calls(f)' <=> Calls(f)
  <1>1. clients[f].ev_data_accept \in Ports \cup {NULL}
    BY PortsTyped
  <1> QED
    BY <1>1 DEF Calls

LEMMA DataReadDataFits ==
  ASSUME Orderly, AllFit, NEW f \in Fds, fault = "none", UNCHANGED <<sessions, disks>>,
         data_read_data(f)
  PROVE  AllFit'
  <1>c. PICK c : c = clients[f]
    OBVIOUS
  <1>p. PICK p : p = c.data_fd
    OBVIOUS
  <1>s. PICK sock : sock = data_sock[p]
    OBVIOUS
  <1>1. PICK n, k, full :
          /\ k = [sock EXCEPT !.inq = SubSeq(@, n + 1, Len(@))]
          /\ full = c.file_buffer \o SubSeq(sock.inq, 1, n)
          /\ n = IF Len(sock.inq) < DATASIZE THEN Len(sock.inq) ELSE DATASIZE
    OBVIOUS
  <1>2. /\ Ran(<<"data_read", f>>, {}) /\ sock.inq # <<>>
        /\ data_sock' = [data_sock EXCEPT ![p] = k]
        /\ UNCHANGED <<session_pool, notify_pipe, peers>>
        /\ \/ fault' = "buffer_exit" /\ UNCHANGED <<clients, disk_pool>>
           \/ SetClient(f, [c EXCEPT !.file_buffer = full]) /\ UNCHANGED <<disk_pool, fault>>
           \/ /\ SetClient(f, [c EXCEPT !.file_buffer = <<>>])
              /\ post_to_disk([fd |-> f, action |-> "STORING", data |-> full])
    BY <1>c, <1>p, <1>s, <1>1 DEF data_read_data
  <1>3. RoundFor(f) /\ <<"data_read", f>> \in ready
    BY <1>2, RanAlone
  <1>4. /\ ReactorTypeOK /\ IInv /\ Connected(f) /\ c \in TCP_client
        /\ p \in Ports /\ p # NULL /\ p \in Mentions(f) /\ sock \in DataSock
    BY <1>3, <1>c, <1>p, <1>s, ServedClient DEF Orderly
  <1>5. k.st = sock.st /\ k.peer = sock.peer
    BY <1>1, <1>4 DEF DataSock
  <1>6. sock.inq \in Block /\ n \in 0 .. Len(sock.inq)
    BY <1>1, <1>4, ReactorAssumption DEF DataSock, Block
  <1>7. full \in Block /\ <<>> \in Block
    BY <1>1, <1>4, <1>6, PieceType, JoinType DEF TCP_client, Block
  <1>8. /\ clients'[f].listen_fd = c.listen_fd /\ clients'[f].data_fd = c.data_fd
        /\ clients'[f].ev_data_accept = c.ev_data_accept /\ clients'[f].write_q = c.write_q
        /\ clients'[f].data_write_q = c.data_write_q
        /\ Connected(f)' /\ \A g \in Fds : g # f => clients'[g] = clients[g]
    <2>1. CASE clients' = clients
      BY <2>1, <1>c, <1>4 DEF Connected
    <2>2. ASSUME NEW b \in Block, SetClient(f, [c EXCEPT !.file_buffer = b])
          PROVE  /\ clients'[f].listen_fd = c.listen_fd /\ clients'[f].data_fd = c.data_fd
                 /\ clients'[f].ev_data_accept = c.ev_data_accept
                 /\ clients'[f].write_q = c.write_q
                 /\ clients'[f].data_write_q = c.data_write_q
                 /\ Connected(f)' /\ \A g \in Fds : g # f => clients'[g] = clients[g]
      <3>1. PICK d : d = [c EXCEPT !.file_buffer = b]
        OBVIOUS
      <3>2. /\ d \in TCP_client /\ d.listen_fd = c.listen_fd /\ d.data_fd = c.data_fd
            /\ d.ev_data_accept = c.ev_data_accept /\ d.write_q = c.write_q
            /\ d.data_write_q = c.data_write_q
        BY <1>4, <3>1 DEF TCP_client
      <3>3. SetClient(f, d)
        BY <2>2, <3>1
      <3>4. clients'[f] = d /\ Connected(f)' /\ \A g \in Fds : g # f => clients'[g] = clients[g]
        BY <1>4, <3>2, <3>3, ClientSet
      <3> QED
        BY <3>2, <3>4
    <2> QED
      BY <1>2, <1>7, <2>1, <2>2
  <1>9. /\ Work(f, "STOR_START")' = Work(f, "STOR_START")
        /\ Work(f, "STOR_OK")' = Work(f, "STOR_OK")
        /\ \A g \in Fds : g # f => WorkStays(g)
    <2>1. CASE disk_pool' = disk_pool
      <3>1. \A g \in Fds : WorkStays(g)
        BY <2>1, WorkUnchanged
      <3> QED
        BY <3>1 DEF WorkStays
    <2>2. CASE post_to_disk([fd |-> f, action |-> "STORING", data |-> full])
      <3>1. PICK task : task = [fd |-> f, action |-> "STORING", data |-> full]
        OBVIOUS
      <3>2. task \in DiskTask /\ task.fd = f /\ task.action = "STORING"
        BY <1>7, <3>1 DEF DiskTask
      <3>3. post_to_disk(task)
        BY <2>2, <3>1
      <3>4. Work(f, "INDEX_START") = 0 /\ Work(f, "RETR_START") = 0
        BY <1>c, <1>p, <1>s, <1>2, <1>4, NoDownload
      <3>5. /\ \A a \in {"INDEX_START", "RETR_START", "STOR_START"} : Work(f, a)' = Work(f, a)
            /\ \A g \in Fds : g # f => WorkStays(g)
            /\ \A a : \/ fault' = fault /\ Work(f, a)' = (IF task.action = a THEN Work(f, a) + 1
                                                          ELSE Work(f, a))
                      \/ fault' # "none" /\ Work(f, a)' = Work(f, a)
        BY <3>2, <3>3, <3>4, TaskForDisk
      <3> QED
        BY <3>2, <3>5
    <2> QED
      BY <1>2, <2>1, <2>2
  <1>10. clients'[f].write_q = clients[f].write_q
    BY <1>c, <1>8
  <1>11. /\ HandStays(f) /\ Accepts(f)' = Accepts(f)
         /\ \A g \in Fds : TasksStay(g) /\ NoticesStay(g)
         /\ Head(notify_pipe)' = Head(notify_pipe)
    BY <1>2, <1>4, <1>8, <1>9, <1>10, DataHand
  <1>12. Facts(f) /\ Fits(f)
    BY FactsNow DEF AllFacts, AllFit
  <1>13. /\ Upload(f) /\ p = peers[f].port /\ peers[f].started /\ Begun(f)
    <2>1. BytesFit(f)
      BY <1>4, <1>12, FitsNow
    <2>2. Upload(f) /\ p = peers[f].port
      BY <1>c, <1>p, <1>s, <1>2, <1>4, <2>1 DEF BytesFit
    <2>3. Dial(f).inq # <<>>
      BY <1>s, <1>2, <2>2 DEF Dial
    <2> QED
      BY <2>1, <2>2, <2>3 DEF BytesFit, Begun, Marked, Upload
  <1>14. data_sock'[p] = k /\ \A q \in Ports : q # p => data_sock'[q] = data_sock[q]
    BY <1>2, <1>4, SockSet
  <1>15. Dial(f)'.peer = Dial(f).peer
    BY <1>s, <1>5, <1>11, <1>13, <1>14 DEF Dial, HandStays
  <1>16. ~Calls(f)'
    <2>1. \A q \in Ports : data_sock'[q].st = data_sock[q].st
      BY <1>s, <1>5, <1>14
    <2>2. clients'[f].ev_data_accept = clients[f].ev_data_accept
      BY <1>c, <1>8
    <2>3. Calls(f)' <=> Calls(f)
      BY <1>4, <2>1, <2>2, CallsKept
    <2>4. ~Calls(f)
      BY <1>c, <1>p, <1>4, <1>12, <1>13, OpenUpload
    <2> QED
      BY <2>3, <2>4
  <1>17. clients[f].data_fd # NULL /\ clients'[f].data_fd = clients[f].data_fd
    BY <1>c, <1>p, <1>4, <1>8
  <1>18. Fits(f)'
    BY <1>4, <1>9, <1>11, <1>12, <1>13, <1>15, <1>16, <1>17, UploadFits
  <1>19. \A q \in Ports : q \notin Mentions(f) => data_sock'[q] = data_sock[q]
    BY <1>4, <1>14
  <1> QED
    BY <1>2, <1>3, <1>4, <1>8, <1>9, <1>11, <1>18, <1>19, CallbackFits

\* Closing keeps what arrived and the other end.
LEMMA ClosedKept ==
  ASSUME Orderly, NEW f \in Fds, Connected(f), data_sock' = ClosedSocks(f)
  PROVE  SocksKept /\ \A q \in Ports : q \notin Mentions(f) => data_sock'[q] = data_sock[q]
  <1>1. ReactorTypeOK /\ PortsOwn
    BY DEF Orderly, IInv, TypeOK
  <1>2. ASSUME NEW q \in Ports
        PROVE  /\ data_sock'[q].peer = data_sock[q].peer
               /\ data_sock'[q].inq = data_sock[q].inq
               /\ q \notin Held(f) => data_sock'[q] = data_sock[q]
    BY <1>1 DEF ReactorTypeOK, ClosedSocks, DataSock
  <1>3. Held(f) \subseteq Mentions(f)
    BY <1>1, NamedPorts
  <1> QED
    BY <1>2, <1>3 DEF SocksKept

LEMMA DataReadEndFits ==
  ASSUME Orderly, AllFit, NEW f \in Fds, fault = "none", UNCHANGED <<sessions, disks>>,
         data_read_end(f)
  PROVE  AllFit'
  <1>c. PICK c : c = clients[f]
    OBVIOUS
  <1>1. /\ <<"data_read", f>> \in ready /\ data_sock[c.data_fd].peer = "fin"
        /\ UNCHANGED <<session_pool, notify_pipe, peers>>
    BY <1>c DEF data_read_end
  <1>2. /\ ReactorTypeOK /\ IInv /\ Connected(f) /\ c \in TCP_client /\ c.data_fd # NULL
        /\ Facts(f) /\ Fits(f)
    BY <1>1, <1>c, ServedClient, FactsNow DEF Orderly, AllFacts, AllFit
  <1>3. CASE /\ Ran(<<"data_read", f>>, DataEventsOf(f))
             /\ post_to_disk([fd |-> f, action |-> "STOR_OK", data |-> c.file_buffer])
             /\ SetClient(f, clear_datafd([c EXCEPT !.file_buffer = <<>>]))
             /\ data_sock' = ClosedSocks(f)
    <2>1. RoundFor(f)
      BY <1>3, RanLast
    <2>2. PICK b : b = [c EXCEPT !.file_buffer = <<>>]
      OBVIOUS
    <2>3. b \in TCP_client /\ b.write_q = c.write_q /\ b.file_buffer = <<>>
      <3>1. <<>> \in Block
        BY DEF Block
      <3> QED
        BY <1>2, <2>2, <3>1 DEF TCP_client
    <2>4. PICK d : d = clear_datafd(b)
      OBVIOUS
    <2>5. /\ d \in TCP_client /\ d.write_q = c.write_q /\ d.file_buffer = <<>>
          /\ d.listen_fd = NULL /\ d.data_fd = NULL /\ d.ev_data_accept = NULL
      <3>1. d.file_buffer = b.file_buffer
        BY <2>3, <2>4 DEF clear_datafd, TCP_client
      <3> QED
        BY <2>3, <2>4, <3>1, ClearedFields
    <2>6. SetClient(f, d)
      BY <1>3, <2>2, <2>4
    <2>7. /\ clients'[f] = d /\ Connected(f)'
          /\ \A g \in Fds : g # f => clients'[g] = clients[g]
      BY <1>2, <2>5, <2>6, ClientSet
    <2>8. Work(f, "INDEX_START") = 0 /\ Work(f, "RETR_START") = 0
      BY <1>c, <1>1, <1>2, NoDownload
    <2>9. PICK task : task = [fd |-> f, action |-> "STOR_OK", data |-> c.file_buffer]
      OBVIOUS
    <2>10. task \in DiskTask /\ task.fd = f /\ task.action = "STOR_OK" /\ post_to_disk(task)
      BY <1>2, <1>3, <2>9 DEF DiskTask, TCP_client
    <2>11. /\ Work(f, "STOR_START")' = Work(f, "STOR_START")
           /\ Work(f, "STOR_OK")' <= Work(f, "STOR_OK") + 1
           /\ \A g \in Fds : g # f => WorkStays(g)
      <3>1. /\ \A a \in {"INDEX_START", "RETR_START", "STOR_START"} : Work(f, a)' = Work(f, a)
            /\ \A g \in Fds : g # f => WorkStays(g)
            /\ \A a : \/ fault' = fault /\ Work(f, a)' = (IF task.action = a THEN Work(f, a) + 1
                                                          ELSE Work(f, a))
                      \/ fault' # "none" /\ Work(f, a)' = Work(f, a)
        BY <2>8, <2>10, TaskForDisk
      <3>2. Work(f, "STOR_OK") \in Nat
        BY <1>2, FitsNow
      <3>3. \/ Work(f, "STOR_OK")' = Work(f, "STOR_OK") + 1
            \/ Work(f, "STOR_OK")' = Work(f, "STOR_OK")
        BY <2>10, <3>1
      <3> QED
        BY <3>1, <3>2, <3>3
    <2>12. clients'[f].write_q = clients[f].write_q
      BY <1>c, <2>5, <2>7
    <2>13. /\ HandStays(f) /\ Accepts(f)' = Accepts(f)
           /\ \A g \in Fds : TasksStay(g) /\ NoticesStay(g)
           /\ Head(notify_pipe)' = Head(notify_pipe)
      BY <1>1, <1>2, <2>7, <2>11, <2>12, DataHand
    <2>14. SocksKept /\ \A q \in Ports : q \notin Mentions(f) => data_sock'[q] = data_sock[q]
      BY <1>2, <1>3, ClosedKept
    <2>15. /\ clients'[f].data_fd = NULL /\ Held(f)' = {} /\ ~Calls(f)'
           /\ clients'[f].ev_data_accept = NULL /\ clients'[f].file_buffer = <<>>
      BY <2>5, <2>7 DEF Held, Calls
    <2>16. CASE ~Begun(f)
      <3>1. Fits(f)'
        BY <1>2, <2>13, <2>14, <2>15, <2>16, NotBegunFits
      <3> QED
        BY <1>1, <1>2, <2>1, <2>7, <2>11, <2>13, <2>14, <3>1, CallbackFits
    <2>17. CASE Begun(f)
      <3>1. OwnSocket(f) /\ MarksFit(f) /\ BytesFit(f)
        BY <1>2, FitsNow
      <3>2. peers[f].xfer # NULL /\ c.data_fd = peers[f].port
        BY <1>c, <1>2, <2>17, <3>1 DEF MarksFit
      <3>3. Dial(f).peer = "fin"
        BY <1>1, <3>2 DEF Dial
      <3>4. Upload(f)
        BY <3>1, <3>2, <3>3 DEF OwnSocket
      <3>5. peers[f].started
        BY <3>1, <3>3, <3>4 DEF BytesFit
      <3>6. Dial(f)'.peer = Dial(f).peer
        <4>1. peers[f].port \in Ports
          BY <1>2, <3>2, PortsTyped
        <4> QED
          BY <1>1, <2>14, <4>1 DEF Dial, SocksKept
      <3>7. clients[f].data_fd # NULL
        BY <1>c, <1>2
      <3>8. Fits(f)'
        BY <1>2, <2>11, <2>13, <2>15, <2>17, <3>4, <3>5, <3>6, <3>7, UploadFits
      <3> QED
        BY <1>1, <1>2, <2>1, <2>7, <2>11, <2>13, <2>14, <3>8, CallbackFits
    <2> QED
      BY <2>16, <2>17
  <1>4. CASE /\ Ran(<<"data_read", f>>, {})
             /\ UNCHANGED <<disk_pool, fault, clients, data_sock>>
    <2>1. RoundFor(f)
      BY <1>4, RanAlone
    <2>2. clients' = clients /\ Connected(f)' /\ \A g \in Fds : WorkStays(g)
      BY <1>2, <1>4, WorkUnchanged DEF Connected
    <2>3. \A a : Work(f, a)' = Work(f, a)
      BY <2>2 DEF WorkStays
    <2>4. /\ HandStays(f) /\ Accepts(f)' = Accepts(f)
          /\ \A g \in Fds : TasksStay(g) /\ NoticesStay(g)
          /\ Head(notify_pipe)' = Head(notify_pipe)
      BY <1>1, <1>2, <2>2, <2>3, DataHand
    <2>5. SocksKept /\ Held(f)' = Held(f) /\ (Calls(f)' <=> Calls(f))
      BY <1>4 DEF SocksKept, Held, Calls
    <2>6. Fits(f)'
      BY <1>2, <2>2, <2>3, <2>4, <2>5, SameFits
    <2> QED
      BY <1>1, <1>2, <1>4, <2>1, <2>2, <2>4, <2>6, CallbackFits
  <1> QED
    BY <1>c, <1>3, <1>4 DEF data_read_end

LEMMA NoDataError ==
  ASSUME Orderly, NoReset, NEW f \in Fds, data_read_error(f)
  PROVE  FALSE
  <1>1. <<"data_read", f>> \in ready /\ data_sock[clients[f].data_fd].peer = "reset"
    BY DEF data_read_error, Ran
  <1>2. clients[f].data_fd \in Ports
    BY <1>1, ServedClient
  <1> QED
    BY <1>1, <1>2 DEF NoReset

\* A block is written, or some of it, or none.
LEMMA WroteFits ==
  ASSUME Orderly, AllFit, NEW f \in Fds, fault = "none", UNCHANGED <<sessions, disks>>,
         UNCHANGED <<session_pool, notify_pipe, peers>>, Ran(<<"data_write", f>>, {}),
         NEW d \in TCP_client, SetClient(f, d), d.listen_fd = clients[f].listen_fd,
         d.data_fd = clients[f].data_fd, d.ev_data_accept = clients[f].ev_data_accept,
         d.write_q = clients[f].write_q, d.file_buffer = clients[f].file_buffer,
         \/ data_sock' = data_sock
         \/ \E k : /\ data_sock' = [data_sock EXCEPT ![clients[f].data_fd] = k]
                   /\ k.st = data_sock[clients[f].data_fd].st
                   /\ k.peer = data_sock[clients[f].data_fd].peer
                   /\ k.inq = data_sock[clients[f].data_fd].inq,
         \A a \in {"STOR_START", "STOR_OK", "STORING"} : Work(f, a)' = Work(f, a),
         \A g \in Fds : g # f => WorkStays(g),
         \/ clients[f].data_write_q # <<>>
         \/ d.data_write_q = clients[f].data_write_q /\ disk_pool' = disk_pool
  PROVE  AllFit'
  <1>1. RoundFor(f) /\ <<"data_write", f>> \in ready
    BY RanAlone
  <1>2. /\ ReactorTypeOK /\ IInv /\ Connected(f) /\ clients[f].data_fd \in Ports
        /\ clients[f].data_fd \in Mentions(f) /\ Facts(f) /\ Fits(f)
    BY <1>1, ServedClient, FactsNow DEF Orderly, AllFacts, AllFit
  <1>3. /\ clients'[f] = d /\ Connected(f)' /\ \A g \in Fds : g # f => clients'[g] = clients[g]
    BY <1>2, ClientSet
  <1>4. /\ \A q \in Ports : /\ data_sock'[q].st = data_sock[q].st
                            /\ data_sock'[q].peer = data_sock[q].peer
                            /\ data_sock'[q].inq = data_sock[q].inq
        /\ \A q \in Ports : q \notin Mentions(f) => data_sock'[q] = data_sock[q]
    <2>1. CASE data_sock' = data_sock
      BY <2>1
    <2>2. ASSUME NEW k, data_sock' = [data_sock EXCEPT ![clients[f].data_fd] = k],
                 k.st = data_sock[clients[f].data_fd].st,
                 k.peer = data_sock[clients[f].data_fd].peer,
                 k.inq = data_sock[clients[f].data_fd].inq
          PROVE  /\ \A q \in Ports : /\ data_sock'[q].st = data_sock[q].st
                                     /\ data_sock'[q].peer = data_sock[q].peer
                                     /\ data_sock'[q].inq = data_sock[q].inq
                 /\ \A q \in Ports : q \notin Mentions(f) => data_sock'[q] = data_sock[q]
      <3>p. PICK p : p = clients[f].data_fd
        OBVIOUS
      <3>0. p \in Ports /\ data_sock' = [data_sock EXCEPT ![p] = k] /\ ReactorTypeOK
        BY <1>2, <2>2, <3>p
      <3>1. data_sock'[p] = k /\ \A q \in Ports : q # p => data_sock'[q] = data_sock[q]
        BY <3>0, SockSet
      <3>2. /\ k.st = data_sock[p].st /\ k.peer = data_sock[p].peer
            /\ k.inq = data_sock[p].inq /\ p \in Mentions(f)
        BY <1>2, <2>2, <3>p
      <3>3. ASSUME NEW q \in Ports
            PROVE  /\ data_sock'[q].st = data_sock[q].st
                   /\ data_sock'[q].peer = data_sock[q].peer
                   /\ data_sock'[q].inq = data_sock[q].inq
        <4>1. CASE q = p
          BY <4>1, <3>1, <3>2
        <4>2. CASE q # p
          <5>1. data_sock'[q] = data_sock[q]
            BY <4>2, <3>1
          <5> QED
            BY <5>1
        <4> QED
          BY <4>1, <4>2
      <3>4. ASSUME NEW q \in Ports, q \notin Mentions(f)
            PROVE  data_sock'[q] = data_sock[q]
        BY <3>1, <3>2, <3>4
      <3> QED
        BY <3>3, <3>4
    <2> QED
      BY <2>1, <2>2
  <1>5. clients'[f].write_q = clients[f].write_q /\ Work(f, "STOR_START")' = Work(f, "STOR_START")
    BY <1>3
  <1>6. /\ HandStays(f) /\ Accepts(f)' = Accepts(f)
        /\ \A g \in Fds : TasksStay(g) /\ NoticesStay(g)
        /\ Head(notify_pipe)' = Head(notify_pipe)
    BY <1>2, <1>3, <1>5, DataHand
  <1>7. SocksKept /\ Held(f)' = Held(f)
    BY <1>3, <1>4 DEF SocksKept, Held
  <1>8. /\ clients'[f].ev_data_accept = clients[f].ev_data_accept
        /\ clients'[f].data_fd = clients[f].data_fd
        /\ clients'[f].file_buffer = clients[f].file_buffer
        /\ clients'[f].data_write_q = d.data_write_q
    BY <1>3
  <1>9. Calls(f)' <=> Calls(f)
    BY <1>2, <1>4, <1>8, CallsKept
  <1>10. Over(f) => /\ Work(f, "WRITE_DONE")' = Work(f, "WRITE_DONE")
                    /\ clients'[f].data_write_q = clients[f].data_write_q
    <2>1. CASE clients[f].data_write_q # <<>>
      <3>1. EndsFit(f)
        BY <1>2, FitsNow
      <3> QED
        BY <2>1, <3>1 DEF EndsFit
    <2>2. CASE d.data_write_q = clients[f].data_write_q /\ disk_pool' = disk_pool
      <3>1. WorkStays(f)
        BY <2>2, WorkUnchanged
      <3> QED
        BY <1>8, <2>2, <3>1 DEF WorkStays
    <2> QED
      BY <2>1, <2>2
  <1>11. Fits(f)'
    BY <1>2, <1>6, <1>7, <1>8, <1>9, <1>10, SameFits
  <1> QED
    BY <1>1, <1>2, <1>3, <1>4, <1>6, <1>11, CallbackFits

LEMMA DataWriteFits ==
  ASSUME Orderly, AllFit, NEW f \in Fds, fault = "none", UNCHANGED <<sessions, disks>>,
         data_write(f)
  PROVE  AllFit'
  <1>c. PICK c : c = clients[f]
    OBVIOUS
  <1>s. PICK sock : sock = data_sock[c.data_fd]
    OBVIOUS
  <1>d. PICK d : d = [c EXCEPT !.data_write_q = Tail(@), !.ev_data_write = FALSE]
    OBVIOUS
  <1>k. PICK k : k = [sock EXCEPT !.out = @ \o Head(c.data_write_q)]
    OBVIOUS
  <1>1. /\ Ran(<<"data_write", f>>, {}) /\ c.data_write_q # <<>>
        /\ data_sock' = [data_sock EXCEPT ![c.data_fd] = k] /\ SetClient(f, d)
        /\ post_to_disk([fd |-> f, action |-> "WRITE_DONE"])
        /\ UNCHANGED <<session_pool, notify_pipe, peers>>
    BY <1>c, <1>s, <1>d, <1>k DEF data_write
  <1>2. c \in TCP_client /\ sock \in DataSock
    <2>1. <<"data_write", f>> \in ready
      BY <1>1 DEF Ran
    <2> QED
      BY <2>1, <1>c, <1>s, ServedClient
  <1>3. k.st = sock.st /\ k.peer = sock.peer /\ k.inq = sock.inq
    BY <1>k, <1>2 DEF DataSock
  <1>4. Tail(c.data_write_q) \in Seq(Block)
    BY <1>1, <1>2, HeadTailProperties DEF TCP_client
  <1>5. /\ d \in TCP_client /\ d.listen_fd = c.listen_fd /\ d.data_fd = c.data_fd
        /\ d.ev_data_accept = c.ev_data_accept /\ d.write_q = c.write_q
        /\ d.file_buffer = c.file_buffer
    BY <1>d, <1>2, <1>4 DEF TCP_client
  <1>6. PICK task : task = [fd |-> f, action |-> "WRITE_DONE"]
    OBVIOUS
  <1>7. task \in DiskTask /\ task.fd = f /\ task.action = "WRITE_DONE" /\ post_to_disk(task)
    BY <1>1, <1>6 DEF DiskTask
  <1>8. /\ \A a \in {"STOR_START", "STOR_OK", "STORING"} : Work(f, a)' = Work(f, a)
        /\ \A g \in Fds : g # f => WorkStays(g)
    BY <1>7, TaskForDisk
  <1> QED
    BY <1>c, <1>s, <1>1, <1>3, <1>5, <1>8, WroteFits

LEMMA DataWritePartFits ==
  ASSUME Orderly, AllFit, NEW f \in Fds, fault = "none", UNCHANGED <<sessions, disks>>,
         data_write_part(f)
  PROVE  AllFit'
  <1>c. PICK c : c = clients[f]
    OBVIOUS
  <1>s. PICK sock : sock = data_sock[c.data_fd]
    OBVIOUS
  <1>b. PICK block : block = Head(c.data_write_q)
    OBVIOUS
  <1>0. PICK n \in 0 .. Len(block) - 1 :
          /\ data_sock' = [data_sock EXCEPT ![c.data_fd].out = @ \o SubSeq(block, 1, n)]
          /\ SetClient(f, [c EXCEPT !.data_write_q =
                                <<SubSeq(block, n + 1, Len(block))>> \o Tail(@)])
    BY <1>c, <1>b DEF data_write_part
  <1>r. PICK rest : rest = SubSeq(block, n + 1, Len(block))
    OBVIOUS
  <1>q. PICK q : q = <<rest>> \o Tail(c.data_write_q)
    OBVIOUS
  <1>d. PICK d : d = [c EXCEPT !.data_write_q = q]
    OBVIOUS
  <1>k. PICK k : k = [sock EXCEPT !.out = @ \o SubSeq(block, 1, n)]
    OBVIOUS
  <1>1. /\ Ran(<<"data_write", f>>, {}) /\ c.data_write_q # <<>>
        /\ UNCHANGED <<session_pool, disk_pool, notify_pipe, peers>>
    BY <1>c DEF data_write_part, poolVars
  <1>2. c \in TCP_client /\ sock \in DataSock
    <2>1. <<"data_write", f>> \in ready
      BY <1>1 DEF Ran
    <2> QED
      BY <2>1, <1>c, <1>s, ServedClient
  <1>3. k.st = sock.st /\ k.peer = sock.peer /\ k.inq = sock.inq
    BY <1>k, <1>2 DEF DataSock
  <1>4. Tail(c.data_write_q) \in Seq(Block) /\ block \in Block
    BY <1>b, <1>1, <1>2, HeadTailProperties DEF TCP_client
  <1>5. rest \in Block
    <2>1. n \in 0 .. Len(block)
      BY <1>4 DEF Block
    <2> QED
      BY <1>4, <1>r, <2>1, PieceType
  <1>6. q \in Seq(Block)
    <2>1. <<rest>> \in Seq(Block)
      BY <1>5
    <2> QED
      BY <1>4, <1>q, <2>1, ConcatProperties
  <1>7. /\ d \in TCP_client /\ d.listen_fd = c.listen_fd /\ d.data_fd = c.data_fd
        /\ d.ev_data_accept = c.ev_data_accept /\ d.write_q = c.write_q
        /\ d.file_buffer = c.file_buffer
    BY <1>d, <1>2, <1>6 DEF TCP_client
  <1>8. SetClient(f, d) /\ data_sock' = [data_sock EXCEPT ![c.data_fd] = k]
    BY <1>0, <1>r, <1>q, <1>d, <1>k, <1>s
  <1>9. \A g \in Fds : WorkStays(g)
    BY <1>1, WorkUnchanged
  <1>10. \A a \in {"STOR_START", "STOR_OK", "STORING"} : Work(f, a)' = Work(f, a)
    BY <1>9 DEF WorkStays
  <1> QED
    BY <1>c, <1>s, <1>1, <1>3, <1>7, <1>8, <1>9, <1>10, WroteFits

LEMMA DataWriteNothingFits ==
  ASSUME Orderly, AllFit, NEW f \in Fds, fault = "none", UNCHANGED <<sessions, disks>>,
         data_write_nothing(f)
  PROVE  AllFit'
  <1>c. PICK c : c = clients[f]
    OBVIOUS
  <1>d. PICK d : d = [c EXCEPT !.ev_data_write = FALSE]
    OBVIOUS
  <1>1. /\ Ran(<<"data_write", f>>, {}) /\ SetClient(f, d) /\ data_sock' = data_sock
        /\ UNCHANGED <<session_pool, disk_pool, notify_pipe, peers>>
    BY <1>c, <1>d DEF data_write_nothing, poolVars
  <1>2. c \in TCP_client
    <2>1. <<"data_write", f>> \in ready
      BY <1>1 DEF Ran
    <2> QED
      BY <2>1, <1>c, ServedClient
  <1>3. /\ d \in TCP_client /\ d.listen_fd = c.listen_fd /\ d.data_fd = c.data_fd
        /\ d.ev_data_accept = c.ev_data_accept /\ d.write_q = c.write_q
        /\ d.file_buffer = c.file_buffer /\ d.data_write_q = c.data_write_q
    BY <1>d, <1>2 DEF TCP_client
  <1>4. \A g \in Fds : WorkStays(g)
    BY <1>1, WorkUnchanged
  <1>5. \A a \in {"STOR_START", "STOR_OK", "STORING"} : Work(f, a)' = Work(f, a)
    BY <1>4 DEF WorkStays
  <1> QED
    BY <1>c, <1>1, <1>3, <1>4, <1>5, WroteFits

\* A connection is accepted before anything of its transfer is begun.
LEMMA DataAcceptFits ==
  ASSUME Orderly, AllFit, NEW f \in Fds, fault = "none", UNCHANGED <<sessions, disks>>,
         data_accept(f)
  PROVE  AllFit'
  <1>c. PICK c : c = clients[f]
    OBVIOUS
  <1>p. PICK p : p = c.ev_data_accept
    OBVIOUS
  <1>d. PICK d : d = [c EXCEPT !.data_fd = p, !.ev_data_write = FALSE]
    OBVIOUS
  <1>t. PICK task : task = [fd |-> f, action |-> "DATA_ACCEPT"]
    OBVIOUS
  <1>1. /\ Ran(<<"data_accept", f>>, {}) /\ SetClient(f, d) /\ post_to_session(task)
        /\ data_sock' = [data_sock EXCEPT ![p].st = "accepted"]
        /\ UNCHANGED <<disk_pool, notify_pipe, peers>>
    BY <1>c, <1>p, <1>d, <1>t DEF data_accept, Signal
  <1>2. RoundFor(f) /\ <<"data_accept", f>> \in ready
    BY <1>1 DEF Ran, RoundFor
  <1>3. /\ ReactorTypeOK /\ IInv /\ PoolTypeOK /\ CallbacksValid /\ PortsOwn /\ Accepting(f)
        /\ Facts(f) /\ Fits(f)
    BY FactsNow DEF Orderly, IInv, TypeOK, Part, AllFacts, AllFit
  <1>4. Connected(f) /\ c \in TCP_client
    BY <1>2, <1>3, <1>c DEF CallbacksValid, DataEvents, Connected, ReactorTypeOK
  <1>5. Calls(f) /\ p \in Ports /\ p \in Mentions(f)
    <2>1. Calls(f)
      BY <1>2, <1>3, <1>4 DEF Accepting
    <2> QED
      BY <1>3, <1>4, <1>c, <1>p, <2>1, NamedPorts DEF Calls
  <1>6. d \in TCP_client /\ d.data_fd = p /\ d.ev_data_accept = p /\ d.write_q = c.write_q
        /\ d.file_buffer = c.file_buffer
    BY <1>4, <1>5, <1>d, <1>p DEF TCP_client
  <1>7. /\ clients'[f] = d /\ Connected(f)' /\ \A g \in Fds : g # f => clients'[g] = clients[g]
    BY <1>1, <1>3, <1>6, ClientSet
  <1>8. /\ \A a : Tasks(f, a)' = (IF "DATA_ACCEPT" = a THEN Tasks(f, a) + 1 ELSE Tasks(f, a))
        /\ \A g \in Fds : g # f => TasksStay(g)
    <2>1. task \in SessionTask /\ task.fd = f /\ task.action = "DATA_ACCEPT"
      BY <1>t DEF SessionTask, SignalTasks
    <2> QED
      BY <1>1, <1>3, <2>1, PostedFor
  <1>9. /\ \A g \in Fds : NoticesStay(g) /\ WorkStays(g)
        /\ Head(notify_pipe)' = Head(notify_pipe)
    BY <1>1, NoticesUnchanged, WorkUnchanged
  <1>10. HandStays(f)
    <2>1. /\ Tasks(f, "STOR_START")' = Tasks(f, "STOR_START")
          /\ Tasks(f, "TRANS_OK")' = Tasks(f, "TRANS_OK")
          /\ Work(f, "STOR_START")' = Work(f, "STOR_START")
      BY <1>8, <1>9 DEF WorkStays
    <2>2. \A x : Coming(f, x)' <=> Coming(f, x)
      BY <1>9, ComingStays DEF NoticesStay
    <2>3. Replies(f)' = Replies(f) /\ Act(f)' = Act(f) /\ DAct(f)' = DAct(f)
      BY <1>1, <1>6, <1>7, <1>c DEF Replies, Act, DAct
    <2>4. \A x : Given(f, x)' <=> Given(f, x)
      BY <2>3 DEF Given
    <2>5. \A x : Said(f, x)' <=> Said(f, x)
      BY <2>2, <2>4 DEF Said
    <2> QED
      BY <1>1, <1>4, <1>7, <2>1, <2>3, <2>4, <2>5 DEF HandStays
  <1>11. /\ data_sock'[p].st = "accepted"
         /\ \A q \in Ports : /\ data_sock'[q].peer = data_sock[q].peer
                             /\ data_sock'[q].inq = data_sock[q].inq
                             /\ q # p => data_sock'[q] = data_sock[q]
    BY <1>1, <1>3, <1>5 DEF ReactorTypeOK, DataSock
  <1>12. ~Begun(f) /\ data_sock[p].inq = <<>>
    <2>1. MarksFit(f) /\ BytesFit(f)
      BY <1>3, <1>4, FitsNow
    <2> QED
      BY <1>5, <1>c, <1>p, <2>1 DEF MarksFit, Early, BytesFit
  <1>13. clients[f].file_buffer = <<>>
    BY <1>3, <1>4, <1>12, NotBegun
  <1>14. /\ SocksKept /\ ~Calls(f)' /\ clients'[f].file_buffer = <<>>
         /\ data_sock'[clients'[f].data_fd].inq = <<>>
    BY <1>5, <1>6, <1>7, <1>11, <1>12, <1>13, <1>c DEF SocksKept, Calls
  <1>15. Fits(f)'
    BY <1>3, <1>10, <1>12, <1>14, NotBegunFits
  <1>16. \A q \in Ports : q \notin Mentions(f) => data_sock'[q] = data_sock[q]
    BY <1>5, <1>11
  <1> QED
    BY <1>1, <1>2, <1>4, <1>7, <1>8, <1>9, <1>15, <1>16, CallbackFits

\* A line that arrived becomes a task.
LEMMA ReadLinesFits ==
  ASSUME Orderly, AllFit, NEW f \in Fds, fault = "none", UNCHANGED <<sessions, disks>>,
         on_read_lines(f)
  PROVE  AllFit'
  <1>c. PICK me : me = peers[f]
    OBVIOUS
  <1>k. PICK k : k = [me EXCEPT !.inq = <<>>]
    OBVIOUS
  <1>t. PICK task : task = [fd |-> f, action |-> "READ", buf |-> me.inq]
    OBVIOUS
  <1>1. /\ Ran(<<"read", f>>, {}) /\ me.inq # <<>> /\ post_to_session(task)
        /\ peers' = [peers EXCEPT ![f] = k]
        /\ UNCHANGED <<disk_pool, notify_pipe, clients, data_sock>>
    BY <1>c, <1>k, <1>t DEF on_read_lines
  <1>2. RoundFor(f) /\ <<"read", f>> \in ready
    BY <1>1, RanAlone
  <1>3. /\ ReactorTypeOK /\ PoolTypeOK /\ CallbacksValid /\ IInv /\ Facts(f) /\ Fits(f)
    BY FactsNow DEF Orderly, IInv, TypeOK, AllFacts, AllFit
  <1>4. Connected(f) /\ Connected(f)'
    BY <1>1, <1>2, <1>3 DEF CallbacksValid, CtrlEvents, Connected
  <1>5. me \in Peer /\ peers'[f] = k /\ \A g \in Fds : g # f => peers'[g] = peers[g]
    BY <1>1, <1>3, <1>4, <1>c, PeerSet
  <1>6. /\ k.outq = me.outq /\ k.xfer = me.xfer /\ k.port = me.port /\ k.started = me.started
    BY <1>5, <1>k DEF Peer
  <1>7. me.inq \in Seq(Command)
    BY <1>5 DEF Peer
  <1>8. task \in SessionTask /\ task.fd = f /\ task.action = "READ"
    BY <1>1, <1>7, <1>t DEF SessionTask
  <1>9. /\ \A a : Tasks(f, a)' = (IF "READ" = a THEN Tasks(f, a) + 1 ELSE Tasks(f, a))
        /\ \A g \in Fds : g # f => TasksStay(g)
    BY <1>1, <1>3, <1>8, PostedFor
  <1>10. /\ \A g \in Fds : NoticesStay(g) /\ WorkStays(g)
         /\ Head(notify_pipe)' = Head(notify_pipe)
    BY <1>1, NoticesUnchanged, WorkUnchanged
  <1>11. \A a : Work(f, a)' = Work(f, a)
    BY <1>10 DEF WorkStays
  <1>12. HandStays(f)
    <2>1. /\ Tasks(f, "STOR_START")' = Tasks(f, "STOR_START")
          /\ Tasks(f, "TRANS_OK")' = Tasks(f, "TRANS_OK")
      BY <1>9
    <2>2. \A x : Coming(f, x)' <=> Coming(f, x)
      BY <1>10, ComingStays DEF NoticesStay
    <2>3. Replies(f)' = Replies(f) /\ Act(f)' = Act(f) /\ DAct(f)' = DAct(f)
      BY <1>1, <1>5, <1>6, <1>c DEF Replies, Act, DAct
    <2>4. \A x : Given(f, x)' <=> Given(f, x)
      BY <2>3 DEF Given
    <2>5. \A x : Said(f, x)' <=> Said(f, x)
      BY <2>2, <2>4 DEF Said
    <2> QED
      BY <1>4, <1>5, <1>6, <1>11, <1>c, <2>1, <2>3, <2>4, <2>5 DEF HandStays
  <1>13. /\ SocksKept /\ Held(f)' = Held(f) /\ (Calls(f)' <=> Calls(f))
    BY <1>1 DEF SocksKept, Held, Calls
  <1>14. Accepts(f)' = Accepts(f)
    BY <1>9 DEF Accepts
  <1>15. Fits(f)'
    BY <1>1, <1>3, <1>11, <1>12, <1>13, <1>14, SameFits
  <1> QED
    BY <1>1, <1>2, <1>4, <1>5, <1>9, <1>10, <1>15, CallbackFits

-----------------------------------------------------------------------------
(* Steps of the control connection.                                        *)

\* The first of q goes over to p.
LEMMA MovedOver ==
  ASSUME NEW S, NEW p \in Seq(S), NEW q \in Seq(S), q # <<>>
  PROVE  Append(p, Head(q)) \o Tail(q) = p \o q
  <1> DEFINE a == Append(p, Head(q))
             t == Tail(q)
  <1>1. /\ Len(p) \in Nat /\ Len(q) \in Nat \ {0} /\ Head(q) = q[1] /\ Head(q) \in S
    BY HeadTailProperties
  <1>2. /\ a \in Seq(S) /\ Len(a) = Len(p) + 1 /\ a[Len(p) + 1] = q[1]
        /\ \A i \in 1 .. Len(p) : a[i] = p[i]
    BY <1>1, AppendProperties
  <1>3. /\ t \in Seq(S) /\ Len(t) = Len(q) - 1
        /\ \A i \in 1 .. Len(q) - 1 : t[i] = q[i + 1]
    BY <1>1, HeadTailProperties
  <1> HIDE DEF a, t
  <1>4. /\ a \o t \in Seq(S) /\ Len(a \o t) = Len(a) + Len(t)
        /\ \A i \in 1 .. Len(a) + Len(t) :
             (a \o t)[i] = IF i <= Len(a) THEN a[i] ELSE t[i - Len(a)]
    BY <1>2, <1>3, ConcatProperties
  <1>5. /\ p \o q \in Seq(S) /\ Len(p \o q) = Len(p) + Len(q)
        /\ \A i \in 1 .. Len(p) + Len(q) :
             (p \o q)[i] = IF i <= Len(p) THEN p[i] ELSE q[i - Len(p)]
    BY ConcatProperties
  <1>6. Len(a \o t) = Len(p \o q)
    BY <1>1, <1>2, <1>3, <1>4, <1>5
  <1>7. ASSUME NEW i \in 1 .. Len(p \o q) PROVE (a \o t)[i] = (p \o q)[i]
    <2>0. i \in Int /\ Len(p) \in Int
      BY <1>1
    <2>1. CASE i <= Len(p)
      BY <1>1, <1>2, <1>3, <1>4, <1>5, <2>1
    <2>2. CASE i = Len(p) + 1
      BY <1>1, <1>2, <1>3, <1>4, <1>5, <2>2
    <2>3. CASE i > Len(p) + 1
      <3>1. /\ i - Len(a) \in 1 .. Len(q) - 1 /\ (a \o t)[i] = t[i - Len(a)]
            /\ (p \o q)[i] = q[i - Len(p)] /\ (i - Len(a)) + 1 = i - Len(p)
        BY <1>1, <1>2, <1>3, <1>4, <1>5, <2>3
      <3> QED
        BY <1>3, <3>1
    <2> QED
      <3>1. PICK l : l = Len(p)
        OBVIOUS
      <3>2. i <= l \/ i = l + 1 \/ i > l + 1
        BY <2>0, <3>1
      <3>3. i <= Len(p) \/ i = Len(p) + 1 \/ i > Len(p) + 1
        BY <3>1, <3>2, Zenon
      <3> QED
        BY <2>1, <2>2, <2>3, <3>3, Zenon
  <1>8. a \o t = p \o q
    <2>0. PICK u, v : u = a \o t /\ v = p \o q
      OBVIOUS
    <2>1. u \in Seq(S) /\ v \in Seq(S) /\ Len(u) = Len(v)
      BY <1>4, <1>5, <1>6, <2>0
    <2>2. \A i \in 1 .. Len(u) : u[i] = v[i]
      BY <1>6, <1>7, <2>0
    <2>3. u = v
      BY <2>1, <2>2, SeqEqual
    <2> QED
      BY <2>0, <2>3
  <1> QED
    BY <1>8 DEF a, t

\* An answer leaves for the client.
LEMMA WriteFits ==
  ASSUME Orderly, AllFit, NEW f \in Fds, fault = "none", UNCHANGED <<sessions, disks>>,
         on_write(f)
  PROVE  /\ AllFit'
         /\ \A g \in Fds : Connected(g)' => Connected(g) /\ Replies(g)' = Replies(g)
         /\ UNCHANGED <<session_pool, disk_pool, notify_pipe, data_sock>>
  <1>c. PICK c : c = clients[f]
    OBVIOUS
  <1>d. PICK d : d = [c EXCEPT !.write_q = Tail(@), !.ev_write = FALSE]
    OBVIOUS
  <1>m. PICK me : me = peers[f]
    OBVIOUS
  <1>r. PICK r : r = Head(c.write_q)
    OBVIOUS
  <1>k. PICK k : k = [me EXCEPT !.outq = Append(@, r)]
    OBVIOUS
  <1>1. /\ Ran(<<"write", f>>, {}) /\ SetClient(f, d) /\ peers' = [peers EXCEPT ![f] = k]
        /\ UNCHANGED <<session_pool, disk_pool, notify_pipe, fault, data_sock>>
    BY <1>c, <1>d, <1>m, <1>r, <1>k DEF on_write, poolVars
  <1>2. RoundFor(f) /\ <<"write", f>> \in ready
    BY <1>1, RanAlone
  <1>3. ReactorTypeOK /\ CallbacksValid /\ IInv /\ Facts(f) /\ Fits(f)
    BY FactsNow DEF Orderly, IInv, TypeOK, AllFacts, AllFit
  <1>4. Connected(f) /\ c.write_q # <<>> /\ c \in TCP_client
    BY <1>2, <1>3, <1>c DEF CallbacksValid, CtrlEvents, Connected, ReactorTypeOK
  <1>5. me \in Peer /\ peers'[f] = k /\ \A g \in Fds : g # f => peers'[g] = peers[g]
    BY <1>1, <1>3, <1>4, <1>m, PeerSet
  <1>6. /\ k.outq = Append(me.outq, r) /\ k.xfer = me.xfer /\ k.port = me.port
        /\ k.started = me.started
    BY <1>5, <1>k DEF Peer
  <1>7. c.write_q \in Seq(Reply) /\ Tail(c.write_q) \in Seq(Reply) /\ me.outq \in Seq(Reply)
    BY <1>4, <1>5, HeadTailProperties DEF TCP_client, Peer
  <1>8. /\ d \in TCP_client /\ d.listen_fd = c.listen_fd /\ d.data_fd = c.data_fd
        /\ d.ev_data_accept = c.ev_data_accept /\ d.write_q = Tail(c.write_q)
        /\ d.data_write_q = c.data_write_q /\ d.file_buffer = c.file_buffer
    BY <1>d, <1>4, <1>7 DEF TCP_client
  <1>9. /\ clients'[f] = d /\ Connected(f)' /\ \A g \in Fds : g # f => clients'[g] = clients[g]
    BY <1>1, <1>3, <1>8, ClientSet
  <1>10. /\ \A g \in Fds : NoticesStay(g) /\ TasksStay(g) /\ WorkStays(g)
         /\ Head(notify_pipe)' = Head(notify_pipe)
    BY <1>1, NoticesUnchanged, TasksUnchanged, WorkUnchanged
  <1>11. /\ \A a : Tasks(f, a)' = Tasks(f, a) /\ Work(f, a)' = Work(f, a)
         /\ \A x : Coming(f, x)' <=> Coming(f, x)
    BY <1>10, ComingStays DEF NoticesStay, TasksStay, WorkStays
  <1>12. Replies(f)' = Replies(f)
    <2>1. Append(me.outq, r) \o Tail(c.write_q) = me.outq \o c.write_q
      BY <1>4, <1>7, <1>r, MovedOver
    <2>2. /\ clients'[f].write_q = Tail(c.write_q) /\ clients[f].write_q = c.write_q
          /\ peers'[f].outq = Append(me.outq, r) /\ peers[f].outq = me.outq
      BY <1>5, <1>6, <1>8, <1>9, <1>c, <1>m
    <2> QED
      BY <2>1, <2>2 DEF Replies
  <1>13. HandStays(f)
    <2>1. Act(f)' = Act(f) /\ DAct(f)' = DAct(f)
      BY DEF Act, DAct
    <2>2. \A x : Given(f, x)' <=> Given(f, x)
      BY <1>12 DEF Given
    <2>3. \A x : Said(f, x)' <=> Said(f, x)
      BY <1>11, <2>2 DEF Said
    <2> QED
      BY <1>4, <1>5, <1>6, <1>9, <1>11, <1>m, <2>1, <2>2, <2>3 DEF HandStays
  <1>14. /\ SocksKept /\ Held(f)' = Held(f) /\ (Calls(f)' <=> Calls(f))
         /\ Accepts(f)' = Accepts(f)
    BY <1>1, <1>8, <1>9, <1>11, <1>c DEF SocksKept, Held, Calls, Accepts
  <1>15. Fits(f)'
    BY <1>3, <1>8, <1>9, <1>11, <1>13, <1>14, <1>c, SameFits
  <1>16. AllFit'
    BY <1>1, <1>2, <1>4, <1>5, <1>9, <1>10, <1>15, CallbackFits
  <1>17. ASSUME NEW g \in Fds, Connected(g)'
         PROVE  Connected(g) /\ Replies(g)' = Replies(g)
    <2>1. CASE g = f
      BY <1>4, <1>12, <2>1
    <2>2. CASE g # f
      BY <1>5, <1>9, <1>17, <2>2 DEF Connected, Replies
    <2> QED
      BY <2>1, <2>2
  <1> QED
    BY <1>1, <1>16, <1>17

-----------------------------------------------------------------------------
(* Records of the pipe.                                                    *)

LEMMA AppendedBehind ==
  ASSUME NEW S, NEW p \in Seq(S), NEW q \in Seq(S), NEW x \in S
  PROVE  p \o Append(q, x) = Append(p \o q, x)
  <1>e. PICK e : e = <<x>>
    OBVIOUS
  <1>1. e \in Seq(S)
    BY <1>e
  <1>2. Append(q, x) = q \o e
    BY <1>e, AppendIsConcat
  <1>3. p \o q \in Seq(S)
    BY ConcatProperties
  <1>4. Append(p \o q, x) = (p \o q) \o e
    BY <1>e, <1>3, AppendIsConcat
  <1>5. (p \o q) \o e = p \o (q \o e)
    BY <1>1, ConcatAssociative
  <1> QED
    BY <1>2, <1>4, <1>5

\* An answer goes from the pipe to write_q.
LEMMA AnswerServed ==
  ASSUME Orderly, NEW f, NEW n, NEW action, action \in {"CTRL_WRITE", "TRANS_OK"},
         TookNotice(f, n, action), UNCHANGED <<sessions, disks, session_pool, disk_pool, peers>>,
         NEW d \in TCP_client, SetClient(f, d), d.write_q = Append(clients[f].write_q, n.reply)
  PROVE  /\ clients'[f] = d /\ Connected(f)' /\ \A g \in Fds : g # f => clients'[g] = clients[g]
         /\ n.reply \in Reply /\ Replies(f)' = Append(Replies(f), n.reply)
         /\ Replies(f) \in Seq(Reply)
         /\ \A x : Given(f, x)' <=> Given(f, x) \/ n.reply.code = x
         /\ \A x : Coming(f, x) <=> Coming(f, x)' \/ n.reply.code = x
         /\ \A x : Said(f, x)' <=> Said(f, x)
         /\ \A g \in Fds : TasksStay(g) /\ WorkStays(g)
  <1>1. ReactorTypeOK /\ IInv
    BY DEF Orderly, IInv, TypeOK
  <1>2. /\ f \in Fds /\ n \in Notification /\ n.fd = f /\ n.action = action
        /\ Connected(f) /\ MyNotices(f) = MyNotices(f)' \cup {n}
    BY DEF TookNotice
  <1>3. n.reply \in Reply
    BY <1>2 DEF Notification
  <1>4. clients'[f] = d /\ Connected(f)' /\ \A g \in Fds : g # f => clients'[g] = clients[g]
    BY <1>1, <1>2, ClientSet
  <1>5. /\ Replies(f) \in Seq(Reply)
        /\ peers[f].outq \in Seq(Reply) /\ clients[f].write_q \in Seq(Reply)
    BY <1>1, <1>2, RepliesElements
  <1>6. Replies(f)' = Append(Replies(f), n.reply)
    <2>0. PICK p, q, r : p = peers[f].outq /\ q = clients[f].write_q /\ r = n.reply
      OBVIOUS
    <2>1. p \o Append(q, r) = Append(p \o q, r)
      <3>1. p \in Seq(Reply) /\ q \in Seq(Reply) /\ r \in Reply
        BY <1>3, <1>5, <2>0
      <3> QED
        BY <3>1, AppendedBehind
    <2>2. peers'[f].outq = p /\ clients'[f].write_q = Append(q, r)
      BY <1>4, <2>0
    <2> QED
      BY <2>0, <2>1, <2>2 DEF Replies
  <1>7. Elements(Replies(f)') = Elements(Replies(f)) \cup {n.reply}
    <2>0. PICK q, r : q = Replies(f) /\ r = n.reply
      OBVIOUS
    <2>1. Elements(Append(q, r)) = Elements(q) \cup {r}
      BY <1>3, <1>5, <2>0, AppendElements
    <2> QED
      BY <1>6, <2>0, <2>1
  <1>8. \A x : Given(f, x)' <=> Given(f, x) \/ n.reply.code = x
    <2>1. Elements(Replies(f))' = Elements(Replies(f)) \cup {n.reply}
      BY <1>7 DEF Elements
    <2> QED
      BY <2>1 DEF Given
  <1>9. \A x : Coming(f, x) <=> Coming(f, x)' \/ n.reply.code = x
    <2>1. \A x : Says(n, f, x) <=> n.reply.code = x
      BY <1>2 DEF Says
    <2> QED
      BY <1>2, <2>1 DEF Coming
  <1>10. \A x : Said(f, x)' <=> Said(f, x)
    BY <1>8, <1>9 DEF Said
  <1>11. \A g \in Fds : TasksStay(g) /\ WorkStays(g)
    BY TasksUnchanged, WorkUnchanged
  <1> QED
    BY <1>3, <1>4, <1>5, <1>6, <1>8, <1>9, <1>10, <1>11

LEMMA CtrlWriteFits ==
  ASSUME Orderly, AllFit, Coded, fault = "none", UNCHANGED <<sessions, disks>>,
         on_notify_ctrl_write
  PROVE  AllFit'
  <1>n. PICK n : n = Head(notify_pipe)
    OBVIOUS
  <1>f. PICK f : f = n.fd
    OBVIOUS
  <1>c. PICK c : c = clients[f]
    OBVIOUS
  <1>d. PICK d : d = Queued(c, n.reply)
    OBVIOUS
  <1>1. /\ Notified("CTRL_WRITE", {}) /\ SetClient(f, d) /\ data_sock' = data_sock
        /\ fault' = fault /\ UNCHANGED <<session_pool, disk_pool, peers>>
    BY <1>n, <1>f, <1>c, <1>d DEF on_notify_ctrl_write
  <1>2. TookNotice(f, n, "CTRL_WRITE")
    BY <1>n, <1>f, <1>1, NoticeServed DEF EventsOf
  <1>3. /\ f \in Fds /\ c \in TCP_client /\ Connected(f) /\ n \in Notification
        /\ n.action = "CTRL_WRITE" /\ n \in MyNotices(f) /\ RoundFor(f)
        /\ <<"notify">> \notin ready' /\ \A g \in Fds : g # f => NoticesStay(g)
    BY <1>c, <1>2 DEF TookNotice
  <1>4. IInv /\ Facts(f) /\ Fits(f)
    BY <1>3, FactsNow DEF Orderly, AllFacts, AllFit
  <1>5. /\ d \in TCP_client /\ d.listen_fd = c.listen_fd /\ d.data_fd = c.data_fd
        /\ d.ev_data_accept = c.ev_data_accept /\ d.write_q = Append(c.write_q, n.reply)
        /\ d.data_write_q = c.data_write_q /\ d.file_buffer = c.file_buffer
    <2>1. n.reply \in Reply
      BY <1>3 DEF Notification
    <2> QED
      BY <1>d, <1>3, <2>1, AppendProperties DEF Queued, TCP_client
  <1>6. d.write_q = Append(clients[f].write_q, n.reply)
    BY <1>5, <1>c
  <1>7. /\ clients'[f] = d /\ Connected(f)' /\ \A g \in Fds : g # f => clients'[g] = clients[g]
        /\ \A x : Given(f, x)' <=> Given(f, x) \/ n.reply.code = x
        /\ \A x : Said(f, x)' <=> Said(f, x)
        /\ \A g \in Fds : TasksStay(g) /\ WorkStays(g)
    BY <1>1, <1>2, <1>5, <1>6, AnswerServed
  <1>8. n.reply.code # 226
    BY <1>3 DEF Coded, MyNotices, Mine
  <1>9. /\ \A a : Tasks(f, a)' = Tasks(f, a) /\ Work(f, a)' = Work(f, a)
        /\ Act(f)' = Act(f) /\ DAct(f)' = DAct(f)
    BY <1>3, <1>7 DEF TasksStay, WorkStays, Act, DAct
  <1>10. HandStays(f)
    BY <1>1, <1>3, <1>7, <1>8, <1>9 DEF HandStays
  <1>11. /\ SocksKept /\ Held(f)' = Held(f) /\ (Calls(f)' <=> Calls(f))
         /\ Accepts(f)' = Accepts(f)
    BY <1>1, <1>5, <1>7, <1>9, <1>c DEF SocksKept, Held, Calls, Accepts
  <1>12. /\ clients'[f].ev_data_accept = clients[f].ev_data_accept
         /\ clients'[f].data_fd = clients[f].data_fd
         /\ clients'[f].file_buffer = clients[f].file_buffer
         /\ clients'[f].data_write_q = clients[f].data_write_q
    BY <1>5, <1>7, <1>c
  <1>13. Fits(f)'
    BY <1>3, <1>4, <1>9, <1>10, <1>11, <1>12, SameFits
  <1> QED
    BY <1>1, <1>3, <1>7, <1>13, CallbackFits

\* The connection is closed, and nothing of it is in the buffer.
LEMMA ClosesFits ==
  ASSUME IInv, NEW f \in Fds, Facts(f), Fits(f), HandStays(f), SocksKept,
         Held(f)' = {}, clients'[f].ev_data_accept = NULL, clients'[f].data_fd = NULL,
         clients'[f].file_buffer = <<>>, Accepts(f)' = Accepts(f),
         Work(f, "STOR_OK")' = Work(f, "STOR_OK"), Work(f, "STORING")' = Work(f, "STORING"),
         Work(f, "WRITE_DONE")' = Work(f, "WRITE_DONE"),
         clients'[f].data_write_q = clients[f].data_write_q
  PROVE  Fits(f)'
  <1>0. Connected(f)
    BY DEF HandStays
  <1>1. OwnSocket(f) /\ MarksFit(f) /\ BytesFit(f) /\ EndsFit(f)
    BY <1>0, FitsNow
  <1>2. /\ Marked(f)' <=> Marked(f)
        /\ Begun(f)' <=> Begun(f)
        /\ Upload(f)' <=> Upload(f)
    BY HandOf
  <1>3. peers[f].port \in Ports \cup {NULL} /\ peers'[f].port = peers[f].port
    BY <1>0, PortsTyped DEF HandStays
  <1>4. /\ peers[f].port # NULL => Dial(f)'.inq = Dial(f).inq /\ Dial(f)'.peer = Dial(f).peer
        /\ ~Calls(f)'
    BY <1>3 DEF Dial, SocksKept, Calls
  <1>5. peers[f].xfer # NULL => peers[f].port # NULL
    BY <1>1 DEF OwnSocket
  <1>6. Begun(f)' => ~Early(f)'
    BY <1>1, <1>2, <1>4, <1>5 DEF MarksFit, Early, HandStays
  <1>7. MarksFit(f)'
    BY <1>1, <1>2, <1>6 DEF MarksFit, HandStays
  <1>8. BytesFit(f)'
    BY <1>1, <1>2, <1>4, <1>5 DEF BytesFit, HandStays, Upload
  <1>9. (Ending(f)' <=> Ending(f)) /\ (Over(f)' <=> Over(f))
    BY <1>2 DEF Ending, Over, HandStays
  <1>10. EndsFit(f)'
    BY <1>1, <1>9 DEF EndsFit, HandStays
  <1> QED
    BY <1>7, <1>8, <1>10 DEF Fits

\* The 226 closes the data connection: an upload has left nothing in it.
LEMMA TransOkFits ==
  ASSUME Orderly, AllFit, Coded, fault = "none", UNCHANGED <<sessions, disks>>,
         on_notify_trans_ok
  PROVE  AllFit'
  <1>n. PICK n : n = Head(notify_pipe)
    OBVIOUS
  <1>f. PICK f : f = n.fd
    OBVIOUS
  <1>c. PICK c : c = clients[f]
    OBVIOUS
  <1>b. PICK b : b = Queued(c, n.reply)
    OBVIOUS
  <1>d. PICK d : d = clear_datafd(b)
    OBVIOUS
  <1>1. /\ Notified("TRANS_OK", DataEventsOf(f)) /\ SetClient(f, d) /\ data_sock' = ClosedSocks(f)
        /\ fault' = fault /\ UNCHANGED <<session_pool, disk_pool, peers>>
    BY <1>n, <1>f, <1>c, <1>b, <1>d DEF on_notify_trans_ok
  <1>2. TookNotice(f, n, "TRANS_OK")
    <2>1. DataEventsOf(f) \subseteq EventsOf(f)
      BY DEF DataEventsOf, EventsOf
    <2> QED
      BY <1>n, <1>f, <1>1, <2>1, NoticeServed
  <1>3. /\ f \in Fds /\ c \in TCP_client /\ Connected(f) /\ n \in Notification
        /\ n.action = "TRANS_OK" /\ n \in MyNotices(f) /\ n.fd = f /\ RoundFor(f)
        /\ <<"notify">> \notin ready' /\ \A g \in Fds : g # f => NoticesStay(g)
    BY <1>c, <1>2 DEF TookNotice
  <1>4. IInv /\ Facts(f) /\ Fits(f)
    BY <1>3, FactsNow DEF Orderly, AllFacts, AllFit
  <1>5. /\ b \in TCP_client /\ b.write_q = Append(c.write_q, n.reply)
        /\ b.data_write_q = c.data_write_q /\ b.file_buffer = c.file_buffer
    <2>1. n.reply \in Reply
      BY <1>3 DEF Notification
    <2> QED
      BY <1>b, <1>3, <2>1, AppendProperties DEF Queued, TCP_client
  <1>6. /\ d \in TCP_client /\ d.write_q = Append(c.write_q, n.reply)
        /\ d.data_write_q = c.data_write_q /\ d.file_buffer = c.file_buffer
        /\ d.listen_fd = NULL /\ d.data_fd = NULL /\ d.ev_data_accept = NULL
    BY <1>d, <1>5 DEF clear_datafd, TCP_client
  <1>7. d.write_q = Append(clients[f].write_q, n.reply)
    BY <1>6, <1>c
  <1>8. /\ clients'[f] = d /\ Connected(f)' /\ \A g \in Fds : g # f => clients'[g] = clients[g]
        /\ \A x : Said(f, x)' <=> Said(f, x)
        /\ \A g \in Fds : TasksStay(g) /\ WorkStays(g)
    BY <1>1, <1>2, <1>6, <1>7, AnswerServed
  <1>9. n.reply.code = 226
    BY <1>3 DEF Coded, MyNotices, Mine
  <1>10. Said(f, 226)
    BY <1>3, <1>9 DEF Said, Coming, Says
  <1>11. /\ \A a : Tasks(f, a)' = Tasks(f, a) /\ Work(f, a)' = Work(f, a)
         /\ Act(f)' = Act(f) /\ DAct(f)' = DAct(f)
    BY <1>3, <1>8 DEF TasksStay, WorkStays, Act, DAct
  <1>12. Held(f)' = {} /\ clients'[f].ev_data_accept = NULL /\ clients'[f].data_fd = NULL
    BY <1>6, <1>8 DEF Held
  <1>13. HandStays(f)
    BY <1>1, <1>3, <1>8, <1>11, <1>12 DEF HandStays
  <1>14. /\ SocksKept
         /\ \A p \in Ports : p \notin Mentions(f) => data_sock'[p] = data_sock[p]
    BY <1>1, <1>3, ClosedKept
  <1>15. c.file_buffer = <<>>
    <2>1. BytesFit(f) /\ EndsFit(f)
      BY <1>3, <1>4, FitsNow
    <2>2. Upload(f) => Ending(f)
      BY <1>10 DEF Ending
    <2> QED
      BY <1>c, <2>1, <2>2 DEF BytesFit, EndsFit
  <1>16. /\ clients'[f].file_buffer = <<>> /\ Accepts(f)' = Accepts(f)
         /\ clients'[f].data_write_q = clients[f].data_write_q
    BY <1>6, <1>8, <1>11, <1>15, <1>c DEF Accepts
  <1>17. Fits(f)'
    BY <1>3, <1>4, <1>11, <1>12, <1>13, <1>14, <1>16, ClosesFits
  <1> QED
    BY <1>1, <1>3, <1>8, <1>14, <1>17, CallbackFits

\* A block goes from the pipe to data_write_q: its download is not over.
LEMMA BlockQueuedFits ==
  ASSUME Orderly, AllFit, fault = "none", UNCHANGED <<sessions, disks>>, on_notify_data_write
  PROVE  AllFit'
  <1>n. PICK n : n = Head(notify_pipe)
    OBVIOUS
  <1>f. PICK f : f = n.fd
    OBVIOUS
  <1>c. PICK c : c = clients[f]
    OBVIOUS
  <1>d. PICK d : d = [c EXCEPT !.data_write_q = Append(@, n.data),
                               !.ev_data_write = c.data_fd # NULL]
    OBVIOUS
  <1>1. /\ Notified("DATA_WRITE", {}) /\ SetClient(f, d) /\ data_sock' = data_sock
        /\ fault' = fault /\ UNCHANGED <<session_pool, disk_pool, peers>>
    BY <1>n, <1>f, <1>c, <1>d DEF on_notify_data_write
  <1>2. TookNotice(f, n, "DATA_WRITE")
    BY <1>n, <1>f, <1>1, NoticeServed DEF EventsOf
  <1>3. /\ f \in Fds /\ c \in TCP_client /\ Connected(f) /\ n \in Notification
        /\ n.action = "DATA_WRITE" /\ n.fd = f /\ MyNotices(f) = MyNotices(f)' \cup {n}
        /\ Sent(f, "DATA_WRITE") = Sent(f, "DATA_WRITE")' + 1 /\ RoundFor(f)
        /\ <<"notify">> \notin ready' /\ \A g \in Fds : g # f => NoticesStay(g)
    BY <1>c, <1>2 DEF TookNotice
  <1>4. IInv /\ Facts(f) /\ Fits(f) /\ ReactorTypeOK
    BY <1>3, FactsNow DEF Orderly, AllFacts, AllFit, IInv, TypeOK
  <1>5. /\ d \in TCP_client /\ d.listen_fd = c.listen_fd /\ d.data_fd = c.data_fd
        /\ d.ev_data_accept = c.ev_data_accept /\ d.write_q = c.write_q
        /\ d.file_buffer = c.file_buffer
    <2>1. n.data \in Block
      BY <1>3 DEF Notification
    <2> QED
      BY <1>d, <1>3, <2>1, AppendProperties DEF TCP_client
  <1>6. /\ clients'[f] = d /\ Connected(f)' /\ \A g \in Fds : g # f => clients'[g] = clients[g]
    BY <1>1, <1>3, <1>4, <1>5, ClientSet
  <1>7. \A g \in Fds : TasksStay(g) /\ WorkStays(g)
    BY <1>1, TasksUnchanged, WorkUnchanged
  <1>8. /\ \A a : Tasks(f, a)' = Tasks(f, a) /\ Work(f, a)' = Work(f, a)
        /\ Act(f)' = Act(f) /\ DAct(f)' = DAct(f)
    BY <1>3, <1>7 DEF TasksStay, WorkStays, Act, DAct
  <1>9. \A x : Coming(f, x)' <=> Coming(f, x)
    <2>1. \A x : ~Says(n, f, x)
      BY <1>3 DEF Says
    <2> QED
      BY <1>3, <2>1 DEF Coming
  <1>10. HandStays(f)
    <2>1. Replies(f)' = Replies(f)
      BY <1>1, <1>5, <1>6, <1>c DEF Replies
    <2>2. \A x : Given(f, x)' <=> Given(f, x)
      BY <2>1 DEF Given
    <2>3. \A x : Said(f, x)' <=> Said(f, x)
      BY <1>9, <2>2 DEF Said
    <2> QED
      BY <1>1, <1>3, <1>6, <1>8, <2>2, <2>3 DEF HandStays
  <1>11. ~Over(f)
    <2>1. /\ Sent(f, "DATA_WRITE") \in Nat /\ Len(c.data_write_q) \in Nat
          /\ Work(f, "WRITE_DONE") \in Nat /\ OneAtWork(f) /\ OneBlock(f)
      <3>1. Sent(f, "DATA_WRITE") \in Nat
        BY <1>3, NumbersType DEF Numbers, Orderly, IInv, TypeOK
      <3>2. Len(c.data_write_q) \in Nat
        BY <1>3 DEF TCP_client
      <3> QED
        BY <1>3, <1>4, <3>1, <3>2, FitsNow DEF Orderly, Part, Facts
    <2>2. Sent(f, "DATA_WRITE") # 0
      <3>2. n \in Mine(notify_pipe, f)
        BY <1>2 DEF TookNotice, MyNotices
      <3>3. notify_pipe \in Seq(Notification)
        BY DEF Orderly, IInv, TypeOK, PoolTypeOK
      <3> QED
        BY <1>3, <3>2, <3>3, CountNone DEF Sent
    <2>3. DAct(f) \in DownloadStates
      <3>1. Sent(f, "DATA_WRITE") + Len(c.data_write_q) + Work(f, "WRITE_DONE") # 0
        BY <2>1, <2>2
      <3> QED
        BY <1>3, <1>c, <2>1, <3>1 DEF OneBlock
    <2>4. AtWork(f) /\ DAct(f) # "NONE"
      BY <2>3 DEF AtWork, DownloadStates
    <2>5. Busy(f) = 1 /\ ~Said(f, 226)
      BY <2>1, <2>4 DEF OneAtWork
    <2>6. ~(Tasks(f, "TRANS_OK") > 0)
      BY <2>1, <2>4 DEF OneAtWork
    <2> QED
      BY <2>5, <2>6 DEF Over
  <1>12. /\ SocksKept /\ Held(f)' = Held(f) /\ (Calls(f)' <=> Calls(f))
         /\ Accepts(f)' = Accepts(f)
    BY <1>1, <1>5, <1>6, <1>8, <1>c DEF SocksKept, Held, Calls, Accepts
  <1>13. /\ clients'[f].ev_data_accept = clients[f].ev_data_accept
         /\ clients'[f].data_fd = clients[f].data_fd
         /\ clients'[f].file_buffer = clients[f].file_buffer
    BY <1>5, <1>6, <1>c
  <1>14. Fits(f)'
    BY <1>3, <1>4, <1>8, <1>10, <1>11, <1>12, <1>13, SameFits
  <1> QED
    BY <1>1, <1>3, <1>6, <1>7, <1>14, CallbackFits

\* Where a client waits for a port nothing is begun.
LEMMA PortFits ==
  ASSUME Orderly, AllFit, IInv', NEW f, NEW n, TookNotice(f, n, "PASV"), fault = "none",
         UNCHANGED <<sessions, disks, disk_pool, peers>>,
         NEW S \in SUBSET FreePorts, data_sock' = Listening(S),
         NEW d \in TCP_client, clients'[f] = d, \A g \in Fds : g # f => clients'[g] = clients[g],
         d.ev_data_accept = clients[f].ev_data_accept \/ d.ev_data_accept \in S,
         d.data_fd = clients[f].data_fd, d.write_q = clients[f].write_q,
         d.file_buffer = clients[f].file_buffer,
         \A a \in {"STOR_START", "TRANS_OK"} : Tasks(f, a)' = Tasks(f, a),
         \A g \in Fds : g # f => TasksStay(g)
  PROVE  AllFit'
  <1>1. /\ f \in Fds /\ Connected(f) /\ clients[f] \in TCP_client /\ peers[f].xfer = NULL
    BY WaitsForPort
  <1>2. /\ n.fd = f /\ n.action = "PASV" /\ MyNotices(f) = MyNotices(f)' \cup {n}
        /\ RoundFor(f) /\ <<"notify">> \notin ready' /\ \A g \in Fds : g # f => NoticesStay(g)
    BY DEF TookNotice
  <1>3. /\ IInv /\ Facts(f) /\ Fits(f) /\ ReactorTypeOK /\ PortsOwn /\ SocksFresh
    BY <1>1, FactsNow DEF Orderly, AllFacts, AllFit, IInv, TypeOK
  <1>4. MarksFit(f) /\ BytesFit(f)
    BY <1>1, <1>3, FitsNow
  <1>5. ~Begun(f) /\ ~Upload(f)
    BY <1>1, <1>4 DEF MarksFit, Upload
  <1>6. clients[f].file_buffer = <<>>
    BY <1>1, <1>3, <1>5, NotBegun
  <1>7. Connected(f)'
    BY ClientNullAssumption DEF Connected
  <1>8. \A x : Coming(f, x)' <=> Coming(f, x)
    <2>1. \A x : ~Says(n, f, x)
      BY <1>2 DEF Says
    <2> QED
      BY <1>2, <2>1 DEF Coming
  <1>9. \A g \in Fds : WorkStays(g)
    BY WorkUnchanged
  <1>10. HandStays(f)
    <2>1. Replies(f)' = Replies(f)
      BY DEF Replies
    <2>2. \A x : Given(f, x)' <=> Given(f, x)
      BY <2>1 DEF Given
    <2>3. \A x : Said(f, x)' <=> Said(f, x)
      BY <1>8, <2>2 DEF Said
    <2>4. Act(f)' = Act(f) /\ DAct(f)' = DAct(f)
      BY DEF Act, DAct
    <2>5. Work(f, "STOR_START")' = Work(f, "STOR_START")
      BY <1>1, <1>9 DEF WorkStays
    <2> QED
      BY <1>1, <1>7, <2>2, <2>3, <2>4, <2>5 DEF HandStays
  <1>11. \A q \in Ports :
           /\ data_sock'[q].peer = data_sock[q].peer /\ data_sock'[q].inq = data_sock[q].inq
           /\ data_sock[q].st # "free" => data_sock'[q] = data_sock[q]
           /\ q \in S => data_sock'[q].st = "listening"
    BY <1>3, ListeningSocks
  <1>12. SocksKept
    BY <1>11 DEF SocksKept
  <1>13. clients'[f].data_fd # NULL => data_sock'[clients'[f].data_fd].inq = <<>>
    <2>1. clients[f].data_fd # NULL => data_sock[clients[f].data_fd].inq = <<>>
      BY <1>4, <1>5 DEF BytesFit
    <2>2. clients[f].data_fd \in Ports \cup {NULL}
      BY <1>1, <1>3, PortsTyped
    <2> QED
      BY <1>11, <2>1, <2>2
  <1>14. Calls(f)' => data_sock'[clients'[f].ev_data_accept].inq = <<>>
    <2>1. CASE d.ev_data_accept \in S
      <3>1. data_sock'[d.ev_data_accept].st = "listening"
        BY <1>11, <2>1 DEF FreePorts
      <3> QED
        BY <3>1 DEF Calls
    <2>2. CASE d.ev_data_accept = clients[f].ev_data_accept
      <3>1. /\ clients[f].ev_data_accept # NULL =>
                 /\ clients[f].ev_data_accept \in Ports
                 /\ data_sock[clients[f].ev_data_accept].st # "free"
        BY <1>1, <1>3, NamedPorts DEF PortsOwn
      <3>2. clients[f].ev_data_accept # NULL =>
              data_sock'[clients[f].ev_data_accept] = data_sock[clients[f].ev_data_accept]
        BY <1>11, <3>1
      <3>3. Calls(f) => data_sock[clients[f].ev_data_accept].inq = <<>>
        BY <1>4 DEF BytesFit
      <3> QED
        BY <2>2, <3>2, <3>3 DEF Calls
    <2> QED
      BY <2>1, <2>2
  <1>15. clients'[f].file_buffer = <<>>
    BY <1>6
  <1>16. Fits(f)'
    BY <1>1, <1>3, <1>5, <1>10, <1>12, <1>13, <1>14, <1>15, NotBegunFits
  <1> QED
    BY <1>1, <1>2, <1>9, <1>11, <1>16, CallbackFits

LEMMA PasvFits ==
  ASSUME Orderly, AllFit, IInv', fault = "none", UNCHANGED <<sessions, disks>>, on_notify_pasv
  PROVE  AllFit'
  <1>n. PICK n : n = Head(notify_pipe)
    OBVIOUS
  <1>f. PICK f : f = n.fd
    OBVIOUS
  <1>c. PICK c : c = clients[f]
    OBVIOUS
  <1>1. /\ Notified("PASV", {}) /\ UNCHANGED <<disk_pool, peers>> /\ <<"notify">> \in ready
    BY DEF on_notify_pasv, Notified, Ran
  <1>2. TookNotice(f, n, "PASV")
    BY <1>n, <1>f, <1>1, NoticeServed DEF EventsOf
  <1>3. f \in Fds /\ c \in TCP_client /\ Connected(f) /\ ReactorTypeOK /\ PoolTypeOK
    BY <1>2, <1>c DEF TookNotice, Orderly, IInv, TypeOK
  <1>4. CASE \E refused \in SUBSET {p \in FreePorts : ~InRange(p)},
                port \in {p \in FreePorts : InRange(p)} :
               /\ data_sock' = Listening(refused \cup {port})
               /\ SetClient(f, [c EXCEPT !.listen_fd = port, !.ev_data_accept = port])
               /\ event_set({<<"data_accept", f>>})
               /\ post_to_session([fd |-> f, action |-> "PASV", port |-> port])
    <2>1. PICK refused \in SUBSET {p \in FreePorts : ~InRange(p)},
               port \in {p \in FreePorts : InRange(p)} :
               /\ data_sock' = Listening(refused \cup {port})
               /\ SetClient(f, [c EXCEPT !.listen_fd = port, !.ev_data_accept = port])
               /\ event_set({<<"data_accept", f>>})
               /\ post_to_session([fd |-> f, action |-> "PASV", port |-> port])
      BY <1>4
    <2>d. PICK d : d = [c EXCEPT !.listen_fd = port, !.ev_data_accept = port]
      OBVIOUS
    <2>s. PICK S : S = refused \cup {port}
      OBVIOUS
    <2>t. PICK task : task = [fd |-> f, action |-> "PASV", port |-> port]
      OBVIOUS
    <2>2. S \in SUBSET FreePorts /\ port \in S /\ port \in Ports /\ port # NULL
      BY <2>s, DataAssumption DEF FreePorts
    <2>3. /\ d \in TCP_client /\ d.ev_data_accept = port
          /\ d.data_fd = c.data_fd /\ d.write_q = c.write_q
          /\ d.file_buffer = c.file_buffer
      BY <1>3, <2>2, <2>d DEF TCP_client
    <2>4. data_sock' = Listening(S) /\ SetClient(f, d) /\ post_to_session(task)
      BY <2>1, <2>s, <2>d, <2>t
    <2>5. clients'[f] = d /\ \A g \in Fds : g # f => clients'[g] = clients[g]
      BY <1>3, <2>3, <2>4, ClientSet
    <2>6. task \in SessionTask /\ task.fd = f /\ task.action = "PASV"
      BY <1>3, <2>2, <2>t DEF SessionTask
    <2>7. /\ \A a : Tasks(f, a)' = (IF "PASV" = a THEN Tasks(f, a) + 1 ELSE Tasks(f, a))
          /\ \A g \in Fds : g # f => TasksStay(g)
      BY <1>3, <2>4, <2>6, PostedFor
    <2>8. \A a \in {"STOR_START", "TRANS_OK"} : Tasks(f, a)' = Tasks(f, a)
      BY <2>7
    <2> QED
      BY <1>c, <1>1, <1>2, <2>2, <2>3, <2>4, <2>5, <2>7, <2>8, PortFits
  <1>5. CASE /\ IF FreePorts = {} THEN UNCHANGED <<clients, data_sock>>
                ELSE \E last \in FreePorts :
                       /\ data_sock' = Listening(FreePorts)
                       /\ SetClient(f, [c EXCEPT !.listen_fd = last])
             /\ UNCHANGED <<session_pool, fault>>
    <2>1. /\ \A g \in Fds : TasksStay(g)
          /\ \A a \in {"STOR_START", "TRANS_OK"} : Tasks(f, a)' = Tasks(f, a)
      <3>1. \A g \in Fds : TasksStay(g)
        BY <1>5, TasksUnchanged
      <3> QED
        BY <1>3, <3>1 DEF TasksStay
    <2>2. CASE UNCHANGED <<clients, data_sock>>
      <3>1. data_sock' = Listening({})
        BY <1>3, <2>2 DEF Listening, ReactorTypeOK
      <3>2. clients'[f] = c /\ \A g \in Fds : g # f => clients'[g] = clients[g]
        BY <1>c, <2>2
      <3> QED
        BY <1>c, <1>1, <1>2, <1>3, <2>1, <3>1, <3>2, PortFits
    <2>3. ASSUME NEW last \in FreePorts, data_sock' = Listening(FreePorts),
                 SetClient(f, [c EXCEPT !.listen_fd = last])
          PROVE  AllFit'
      <3>d. PICK d : d = [c EXCEPT !.listen_fd = last]
        OBVIOUS
      <3>1. last \in Ports
        BY DEF FreePorts
      <3>2. /\ d \in TCP_client /\ d.ev_data_accept = c.ev_data_accept
            /\ d.data_fd = c.data_fd /\ d.write_q = c.write_q
            /\ d.file_buffer = c.file_buffer
        BY <1>3, <3>1, <3>d DEF TCP_client
      <3>3. clients'[f] = d /\ \A g \in Fds : g # f => clients'[g] = clients[g]
        BY <1>3, <2>3, <3>d, <3>2, ClientSet
      <3>4. FreePorts \in SUBSET FreePorts /\ data_sock' = Listening(FreePorts)
        BY <2>3
      <3> QED
        BY <1>c, <1>1, <1>2, <2>1, <3>2, <3>3, <3>4, PortFits
    <2> QED
      BY <1>5, <2>2, <2>3
  <1> QED
    BY <1>n, <1>f, <1>c, <1>4, <1>5 DEF on_notify_pasv

\* A client that connects has had no answer.
LEMMA AcceptFits ==
  ASSUME Orderly, AllFit, NEW f \in Fds, fault = "none", UNCHANGED <<sessions, disks>>,
         on_accept(f)
  PROVE  AllFit'
  <1>t. PICK task : task = [fd |-> f, action |-> "CTRL_ACCEPT"]
    OBVIOUS
  <1>1. PICK script \in Scripts[f] : peers' = [peers EXCEPT ![f] = NewPeer(script)]
    BY DEF on_accept
  <1>c. PICK c : c = NewClient
    OBVIOUS
  <1>m. PICK me : me = NewPeer(script)
    OBVIOUS
  <1>2. /\ Ran(<<"accept">>, {}) /\ ~Connected(f) /\ SetClient(f, c) /\ post_to_session(task)
        /\ peers' = [peers EXCEPT ![f] = me]
        /\ UNCHANGED <<disk_pool, notify_pipe, fault, data_sock>>
    BY <1>c, <1>m, <1>t, <1>1 DEF on_accept, Signal, Connected
  <1>3. ReactorTypeOK /\ PoolTypeOK
    BY DEF Orderly, IInv, TypeOK
  <1>4. /\ c \in TCP_client /\ c.data_fd = NULL /\ c.ev_data_accept = NULL
        /\ c.write_q = <<>> /\ c.file_buffer = <<>>
    BY <1>c DEF NewClient, TCP_client, Block
  <1>5. /\ clients'[f] = c /\ Connected(f)' /\ \A g \in Fds : g # f => clients'[g] = clients[g]
    BY <1>2, <1>3, <1>4, ClientSet
  <1>6. peers'[f] = me /\ \A g \in Fds : g # f => peers'[g] = peers[g]
    BY <1>2, <1>3 DEF ReactorTypeOK
  <1>7. me.outq = <<>> /\ me.xfer = NULL
    BY <1>m DEF NewPeer
  <1>8. task \in SessionTask /\ task.fd = f /\ task.action = "CTRL_ACCEPT"
    BY <1>t DEF SessionTask, SignalTasks
  <1>9. /\ sessions[f] = NULL /\ disks[f] = NULL /\ MyNotices(f) = {}
        /\ \A a : Tasks(f, a) = 0 /\ Work(f, a) = 0
    BY <1>2, AbsentCounts
  <1>10. /\ Tasks(f, "STOR_START")' = 0 /\ Tasks(f, "TRANS_OK")' = 0
         /\ \A g \in Fds : g # f => TasksStay(g)
    <2>1. /\ \A a : Tasks(f, a)' = (IF "CTRL_ACCEPT" = a THEN Tasks(f, a) + 1 ELSE Tasks(f, a))
          /\ \A g \in Fds : g # f => TasksStay(g)
      BY <1>2, <1>3, <1>8, PostedFor
    <2> QED
      BY <1>9, <2>1
  <1>11. /\ \A g \in Fds : NoticesStay(g) /\ WorkStays(g)
         /\ Head(notify_pipe)' = Head(notify_pipe)
    BY <1>2, NoticesUnchanged, WorkUnchanged
  <1>12. MyNotices(f)' = {} /\ Act(f)' = "NONE" /\ DAct(f)' = "NONE"
    BY <1>9, <1>11 DEF NoticesStay, Act, DAct
  <1>13. \A x : ~Given(f, x)' /\ ~Said(f, x)'
    <2>1. Replies(f)' = <<>>
      BY <1>4, <1>5, <1>6, <1>7 DEF Replies
    <2>2. \A x : ~Given(f, x)'
      BY <2>1, NothingSaid DEF Given
    <2>3. \A x : ~Coming(f, x)'
      BY <1>12 DEF Coming
    <2> QED
      BY <2>2, <2>3 DEF Said
  <1>14. ~Begun(f)' /\ ~Upload(f)' /\ ~Over(f)' /\ ~Ending(f)'
    <2>1. ~Begun(f)' /\ ~Upload(f)' /\ ~Over(f)'
      BY <1>6, <1>7, <1>10, <1>13 DEF Begun, Marked, Upload, Over
    <2> QED
      BY <1>12, <2>1 DEF Ending, UploadStates
  <1>15. MarksFit(f)'
    BY <1>10, <1>12, <1>13, <1>14 DEF MarksFit, UploadStates
  <1>16. BytesFit(f)'
    BY <1>4, <1>5, <1>14 DEF BytesFit, Calls
  <1>17. EndsFit(f)'
    BY <1>13, <1>14 DEF EndsFit
  <1>18. Fits(f)'
    BY <1>15, <1>16, <1>17 DEF Fits
  <1>19. RoundFor(f)
    BY <1>2, RanFor
  <1> QED
    BY <1>2, <1>5, <1>6, <1>10, <1>11, <1>18, <1>19, CallbackFits

\* A new round changes nothing.
LEMMA PollFits ==
  ASSUME Orderly, AllFit, UNCHANGED <<sessions, disks>>, Poll
  PROVE  AllFit'
  <1>1. /\ clients' = clients /\ peers' = peers /\ data_sock' = data_sock
        /\ session_pool' = session_pool /\ disk_pool' = disk_pool /\ notify_pipe' = notify_pipe
    BY DEF Poll, poolVars
  <1>2. ASSUME NEW f \in Fds PROVE Fits(f)'
    <2>1. IInv /\ Facts(f) /\ Fits(f)
      BY FactsNow DEF Orderly, AllFacts, AllFit
    <2>2. CASE ~Connected(f)
      BY <1>1, <2>2 DEF Fits, Connected
    <2>3. CASE Connected(f)
      <3>1. TasksStay(f) /\ WorkStays(f) /\ NoticesStay(f)
        BY <1>1, TasksUnchanged, WorkUnchanged, NoticesUnchanged
      <3>2. /\ \A a : Tasks(f, a)' = Tasks(f, a) /\ Work(f, a)' = Work(f, a)
            /\ \A x : Coming(f, x)' <=> Coming(f, x)
        BY <3>1, ComingStays DEF TasksStay, WorkStays, NoticesStay
      <3>3. Replies(f)' = Replies(f) /\ Act(f)' = Act(f) /\ DAct(f)' = DAct(f)
        BY <1>1 DEF Replies, Act, DAct
      <3>4. \A x : Given(f, x)' <=> Given(f, x)
        BY <3>3 DEF Given
      <3>5. \A x : Said(f, x)' <=> Said(f, x)
        BY <3>2, <3>4 DEF Said
      <3>6. HandStays(f)
        BY <1>1, <2>3, <3>2, <3>3, <3>4, <3>5 DEF HandStays, Connected
      <3>7. /\ SocksKept /\ Held(f)' = Held(f) /\ (Calls(f)' <=> Calls(f))
            /\ Accepts(f)' = Accepts(f)
        BY <1>1, <3>2 DEF SocksKept, Held, Calls, Accepts
      <3> QED
        BY <1>1, <2>1, <3>2, <3>6, <3>7, SameFits
    <2> QED
      BY <2>2, <2>3
  <1> QED
    BY <1>2 DEF AllFit

LEMMA ReactorFits ==
  ASSUME Orderly, Orderly', AllFit, Coded, NoReset, Timeouts = FALSE, Reactor
  PROVE  AllFit'
  <1>1. fault = "none" /\ ReactorStep /\ UNCHANGED <<sessions, disks>> /\ IInv'
    BY DEF Reactor, Orderly
  <1>2. CASE Poll
    BY <1>1, <1>2, PollFits
  <1>3. CASE NotifyStep
    BY <1>1, <1>3, NoNullClient, CtrlWriteFits, TransOkFits, PasvFits, BlockQueuedFits
    DEF NotifyStep
  <1>4. ASSUME NEW f \in Fds, CtrlStep(f) PROVE AllFit'
    BY <1>1, <1>4, AcceptFits, ReadLinesFits, WriteFits, NobodyGoes DEF CtrlStep
  <1>5. ASSUME NEW f \in Fds, DataStep(f) PROVE AllFit'
    BY <1>1, <1>5, DataAcceptFits, DataReadDataFits, DataReadEndFits, NoDataError,
       DataWriteFits, DataWritePartFits, DataWriteNothingFits DEF DataStep
  <1>6. ASSUME NEW f \in Fds, on_timeout(f) PROVE FALSE
    BY <1>6 DEF on_timeout
  <1> QED
    BY <1>1, <1>2, <1>3, <1>4, <1>5, <1>6 DEF ReactorStep, DispatchStep
=============================================================================
