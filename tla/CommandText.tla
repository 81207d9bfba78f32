----------------------------- MODULE CommandText -----------------------------
(***************************************************************************)
(* Commands as text, from the client's socket to their execution: on_read  *)
(* posts whatever one read returns, cat_recv_command joins it to what is   *)
(* left of earlier reads, and run_fsm_command executes at most one command *)
(* for each piece.  The commands are those of the working directory; they  *)
(* only touch their own session, so one session is modelled.               *)
(*                                                                         *)
(* Text is a sequence of words and the two characters that end a line:     *)
(* <<"CWD", "a", "CR", "LF">>.  The network may cut it between any two.    *)
(* What clients send ahead fits in COMMANDSIZE bytes.                      *)
(***************************************************************************)
EXTENDS ChangePath

CONSTANTS
  Lines,        \* the lines clients send, without their ends
  Parts,        \* the parts of an argument
  MaxLines,     \* bound: lines in one behaviour
  Ahead         \* lines a client sends before it waits for an answer

ASSUME TextAssumption ==
  /\ \A line \in Lines :
       /\ line \in Seq(STRING) /\ line # <<>>
       /\ \A i \in 1 .. Len(line) : line[i] \notin {"CR", "LF"}
  /\ MaxLines \in Nat /\ Ahead \in Nat \ {0}

VARIABLES
  whole,          \* the network keeps what was sent together together
  log_in,         \* of the session
  net,            \* sent and not read
  reads,          \* buffers of the READ tasks in the queue of the session
  recv_command,   \* of the session
  cur_path,       \* of the session
  answer,         \* the last answer: code and shown path
  sent,           \* lines sent
  executed,       \* commands executed
  fault           \* how the process died

textVars ==
  <<whole, log_in, net, reads, recv_command, cur_path, answer, sent, executed, fault>>

EndOfLine == <<"CR", "LF">>

TextInit ==
  /\ whole \in BOOLEAN /\ log_in \in BOOLEAN
  /\ net = <<>> /\ reads = <<>> /\ recv_command = <<>>
  /\ cur_path = root_path
  /\ answer = [code |-> 220, shown |-> <<>>]
  /\ sent = 0 /\ executed = 0 /\ fault = "none"

SendLine ==
  /\ fault = "none" /\ sent < MaxLines /\ sent - executed < Ahead
  /\ sent' = sent + 1
  /\ \E line \in Lines : net' = net \o line \o EndOfLine
  /\ UNCHANGED <<whole, log_in, reads, recv_command, cur_path, answer, executed, fault>>

\* Mutant: the end of the line is not passed on.
OnRead_trims ==
  /\ fault = "none"
  /\ \E n \in 1 .. Len(net) :
       /\ whole => net[n] = "LF"
       /\ reads' = Append(reads, SelectSeq(SubSeq(net, 1, n), LAMBDA w : w \notin {"CR", "LF"}))
       /\ net' = SubSeq(net, n + 1, Len(net))
  /\ UNCHANGED <<whole, log_in, recv_command, cur_path, answer, sent, executed, fault>>

\* One read returns what has arrived by then.
OnRead ==
  /\ fault = "none"
  /\ \E n \in 1 .. Len(net) :
       /\ whole => net[n] = "LF"
       /\ reads' = Append(reads, SubSeq(net, 1, n))
       /\ net' = SubSeq(net, n + 1, Len(net))
  /\ UNCHANGED <<whole, log_in, recv_command, cur_path, answer, sent, executed, fault>>

-----------------------------------------------------------------------------
(* The commands.  Each takes the session's path to a path and an answer.   *)

CwdResult(parts) == Enter(cur_path, change_path(cur_path, parts))

\* Mutant: the root of the file system instead of the session's.
com_CWD_slash(line) ==
  IF Len(line) = 1 THEN Answered(<<"", "">>, 504, <<>>) ELSE CwdResult(Parts[line[2]])

com_CWD(line) ==
  IF Len(line) = 1 THEN Answered(root_path, 504, <<>>) ELSE CwdResult(Parts[line[2]])

com_PWD ==
  IF log_in THEN Answered(cur_path, 257, r_path(cur_path)) ELSE Answered(cur_path, 550, <<>>)

com_BAD == Answered(cur_path, 501, <<>>)

Result(line) ==
  CASE line[1] = "CWD"  -> com_CWD(line)
    [] line[1] = "CDUP" -> CwdResult(<<"..">>)
    [] line[1] = "PWD"  -> com_PWD
    [] OTHER            -> com_BAD

Execute(line) ==
  /\ \E r \in {Result(line)} :
       /\ cur_path' = r.cur_path
       /\ answer' = [code |-> r.code, shown |-> r.shown]
  /\ executed' = executed + 1

-----------------------------------------------------------------------------

\* strtok: the length up to the first end of a line behind something else.
DealLen(text) ==
  Min({Len(text)} \cup
      {i \in 1 .. Len(text) - 1 : text[i] \notin {"CR", "LF"} /\ text[i + 1] \in {"CR", "LF"}})

\* strstr: what stands behind the first end of a line.
Behind(text) ==
  LET end == Min({i \in 1 .. Len(text) - 1 : text[i] = "CR" /\ text[i + 1] = "LF"})
  IN  SubSeq(text, end + 2, Len(text))

\* Mutant: what stands behind the command that is executed is thrown away.
Left_dropped(text) == <<>>

\* Mutant: the command that is executed is not taken out.
Left_kept(text) == text

Left(text) == IF DealLen(text) + 2 = Len(text) THEN <<>> ELSE Behind(text)

\* Mutant: a command is complete when its end is the end of the text.
Complete_exact(text) == DealLen(text) + 2 = Len(text)

Complete(text) == DealLen(text) + 2 <= Len(text)

\* run_fsm_command returns -1 and the text stays for the next read.
Incomplete(text) ==
  recv_command' = text /\ UNCHANGED <<cur_path, answer, executed, fault>>

\* get_recv_command answers NULL when there is no end of a line in the text at
\* all, and run_fsm_command copies from it.
NullCommand(text) ==
  fault' = "null_command" /\ recv_command' = text /\ UNCHANGED <<cur_path, answer, executed>>

\* A pool thread takes a task READ.
TakeRead == fault = "none" /\ reads # <<>> /\ reads' = Tail(reads)

\* Task READ.
SessionRead ==
  /\ TakeRead
  /\ \E text \in {recv_command \o Head(reads)} :
     IF DealLen(text) = Len(text) THEN NullCommand(text)
     ELSE IF ~Complete(text) THEN Incomplete(text)
     ELSE /\ recv_command' = Left(text)
          /\ Execute(SubSeq(text, 1, DealLen(text)))
          /\ UNCHANGED fault
  /\ UNCHANGED <<whole, log_in, net, sent>>

TextNext == SendLine \/ OnRead \/ SessionRead

TextSpec == TextInit /\ [][TextNext]_textVars

\* libevent reports a socket with bytes in it until they are read, and a pool
\* thread takes tasks as long as there are any (only SessionRead takes one).
FairTextSpec == TextSpec /\ WF_textVars(OnRead) /\ WF_reads(TakeRead)

-----------------------------------------------------------------------------

Word == {"CR", "LF"} \cup UNION {ToSet(line) : line \in Lines}

TypeOK ==
  /\ whole \in BOOLEAN /\ log_in \in BOOLEAN
  /\ \A text \in {net, recv_command} \cup ToSet(reads) : ToSet(text) \subseteq Word
  /\ answer.code \in {220, 250, 257, 501, 504, 550}
  /\ 0 <= executed /\ executed <= sent /\ sent <= MaxLines
  /\ fault \in {"none", "null_command"}

\* A session is always in a directory that exists and lies under its root, and
\* its path ends in a slash: every file command appends a name to it
\* (fsm_transfer.cpp:36).
CurPathIsDirectory == cur_path \in Dirs /\ Below(cur_path)

\* The lines that are in the text of a client, whoever holds it.
Pending ==
  LET text == recv_command \o FlattenSeq(reads) \o net
      ends == {i \in DOMAIN text : text[i] = "LF"}
      End(k) == CHOOSE i \in ends \cup {0} : Cardinality({j \in ends : j <= i}) = k
  IN  [k \in 1 .. Cardinality(ends) |-> SubSeq(text, End(k - 1) + 1, End(k) - 2)]

\* "/a/b/" names <<"a", "b">>.
NamesOf(path) == SubSeq(path, 2, Len(path) - 1)

Service == INSTANCE DirectoryService WITH
  Home   <- NamesOf(root_path),
  Tree   <- {NamesOf(dir) : dir \in Dirs},
  known  <- log_in,
  todo   <- Pending,
  cwd    <- NamesOf(cur_path),
  answer <- [code |-> answer.code, dir |-> NamesOf(answer.shown)]

\* However the text of a client is cut and joined on its way, its commands are
\* executed one by one in the order it sent them, none twice and none left
\* out, and each with the effect and the answer of the abstract service.
CommandsInOrder == Service!ServiceSpec

\* A server that receives whole lines does not die of them, though they come
\* several in a read and all but the first wait in recv_command.
WholeLinesNeverCrash == whole => fault = "none"

\* A command is executed once as many have been sent behind it as a client
\* sends ahead: the first Ahead - 1 may wait in recv_command for the next read.
EveryCommandIsDone ==
  \A n \in 1 .. MaxLines :
    (sent >= n + Ahead - 1) ~> (executed >= n \/ fault # "none")
=============================================================================
