------------------------------ MODULE UserList ------------------------------
(***************************************************************************)
(* What user_manager makes of conf/userlist at start-up.  A text is a      *)
(* sequence of words, spaces and ends of lines; five fields make an        *)
(* account, the first four ended by a space, the last by the end of a      *)
(* line.                                                                   *)
(***************************************************************************)
LOCAL INSTANCE Naturals
LOCAL INSTANCE Sequences
LOCAL INSTANCE FiniteSetsExt

CONSTANT Words   \* what stands between spaces and ends of lines

SP == " "
LF == "\n"

ASSUME WordsAssumption == {SP, LF} \cap Words = {}

\* The process has died: a list that is read has an account.
Died == <<>>

\* strtok leaves in temp all up to the first separator behind something else,
\* separators in front included, or the whole text when there is none.
FieldLen(text, sep) ==
  Min({Len(text)} \cup
      {i \in 1 .. Len(text) : text[i] # sep /\ i < Len(text) /\ text[i + 1] = sep})

Field(text, sep) == SubSeq(text, 1, FieldLen(text, sep))

\* What is left to read.  A text without the separator is used up and one
\* more than it is long is counted as read.
Behind(text, sep) == SubSeq(text, FieldLen(text, sep) + 2, Len(text))

\* strncasecmp(temp, "true", 4) == 0
Granted(field) == field # <<>> /\ Head(field) = "true"

\* A field without its separator leaves read_len at -1: the next strncpy is
\* told to fill all of the memory with zeros.
user_manager[text \in Seq(Words \cup {SP, LF})] ==
  LET pass     == Behind(text, SP)
      upload   == Behind(pass, SP)
      download == Behind(upload, SP)
      dele     == Behind(download, SP)
      rest     == Behind(dele, LF)
      account  == [user         |-> Field(text, SP),
                   pass         |-> Field(pass, SP),
                   upload_per   |-> Granted(Field(upload, SP)),
                   download_per |-> Granted(Field(download, SP)),
                   dele_per     |-> Granted(Field(dele, LF))]
  IN  IF FieldLen(dele, LF) = Len(dele) THEN Died
      ELSE IF rest = <<>> THEN <<account>>
      ELSE IF user_manager[rest] = Died THEN Died
      ELSE <<account>> \o user_manager[rest]
=============================================================================
