--------------------------- MODULE DirectoryService ---------------------------
(***************************************************************************)
(* What a client may expect of CWD, CDUP and PWD: its commands are obeyed  *)
(* one by one in the order it sent them, and each takes the working        *)
(* directory where its argument, read from left to right, leads.           *)
(***************************************************************************)
EXTENDS Sequences, SequencesExt

CONSTANTS
  Home,     \* the client's root directory, a sequence of names
  Tree,     \* all directories, as sequences of names from the very root
  Lines,    \* command lines
  Parts     \* an argument, cut at its slashes: "/a" is <<"", "a">>

VARIABLES
  known,    \* whether the client has logged in
  todo,     \* commands sent and not obeyed, in the order they were sent
  cwd,      \* names of the working directory
  answer    \* the last answer: its code and the directory it names

serviceVars == <<known, todo, cwd, answer>>

Walk(names, parts) ==
  FoldLeft(LAMBDA at, part :
             CASE part \in {"", "."} -> at
               [] part = ".."        -> IF at = <<>> THEN at ELSE Front(at)
               [] OTHER              -> Append(at, part),
           names, parts)

\* Forms of arguments with a meaning of their own, as the comments in
\* change_path give it; another name that begins with a dot is an error.
Target(at, parts) ==
  CASE parts[1] = "...."              -> Home
    [] parts = <<"...">>              -> Walk(at, <<"..", "..">>)
    [] parts = <<"", "..", "">>       -> Walk(at, <<"..">>)
    [] parts[1] = "" /\ Len(parts) > 1 -> Walk(Home, parts)
    [] OTHER                          -> Walk(at, parts)

Wrong(parts) == (parts[1] = "..." /\ Len(parts) > 1) \/ Last(parts) \in {".", ".h"}

Below(names) == IsPrefix(Home, names)

Leads(at, parts) == ~Wrong(parts) /\ Target(at, parts) \in Tree /\ Below(Target(at, parts))

Relative(names) == SubSeq(names, Len(Home) + 1, Len(names))

Stay(code, dir) == cwd' = cwd /\ answer' = [code |-> code, dir |-> dir]

Go(parts) ==
  IF Leads(cwd, parts)
  THEN cwd' = Target(cwd, parts) /\ answer' = [code |-> 250, dir |-> Relative(cwd')]
  ELSE Stay(550, <<>>)

ServiceInit ==
  /\ known \in BOOLEAN
  /\ todo = <<>>
  /\ cwd = Home
  /\ answer = [code |-> 220, dir |-> <<>>]

Send ==
  /\ Len(todo') = Len(todo) + 1 /\ Front(todo') = todo /\ Last(todo') \in Lines
  /\ UNCHANGED <<known, cwd, answer>>

Obey ==
  /\ todo # <<>>
  /\ todo' = Tail(todo)
  /\ LET line == Head(todo) IN
     CASE line = <<"CDUP">> -> Go(<<"..">>)
       [] line = <<"PWD">>  -> IF known THEN Stay(257, Relative(cwd)) ELSE Stay(550, <<>>)
       [] line = <<"CWD">>  -> cwd' = Home /\ answer' = [code |-> 504, dir |-> <<>>]
       [] line[1] = "CWD" /\ Len(line) = 2 -> Go(Parts[line[2]])
       [] OTHER             -> Stay(501, <<>>)
  /\ UNCHANGED known

ServiceSpec == ServiceInit /\ [][Obey \/ Send]_serviceVars
=============================================================================
