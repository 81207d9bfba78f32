--------------------------- MODULE MCHyperTransfer ---------------------------
(***************************************************************************)
(* Small instances of HyperTransfer for TLC.                               *)
(***************************************************************************)
EXTENDS DocClaims, UserList

User(u) == [verb |-> "USER", user |-> u]
Pass(p) == [verb |-> "PASS", pass |-> p]
Rest(n) == [verb |-> "REST", rest |-> n]
Plain(v) == [verb |-> v]
Get(v, f) == [verb |-> v, file |-> f]
Put(v, f, data) == [verb |-> v, file |-> f, payload |-> data]

Login == <<User("share"), Pass("share")>>
Pasv  == <<Plain("PASV")>>

\* Clients of every socket say one of these.
Anyone(scripts) == [fd \in Fds |-> scripts]

MCFiles    == {"a", "b"}
MCThreeFiles == {"a", "b", "c"}
\* conf/userlist as user_manager reads it.
MCWords == {"share", "test1", "test2", "123", "true", "false"}

Right(granted) == IF granted THEN "true" ELSE "false"

Line(a) == a.user \o <<SP>> \o a.pass \o <<SP, Right(a.upload_per), SP,
             Right(a.download_per), SP, Right(a.dele_per), LF>>

AccountLine(user, pass, upload, download, dele) ==
  [user |-> <<user>>, pass |-> <<pass>>, upload_per |-> upload,
   download_per |-> download, dele_per |-> dele]

UserListLines == <<AccountLine("share", "share", TRUE, TRUE, TRUE),
                   AccountLine("test1", "123", TRUE, FALSE, FALSE),
                   AccountLine("test2", "123", FALSE, TRUE, FALSE)>>
Accounts == user_manager[FlattenSeq([i \in 1 .. 3 |-> Line(UserListLines[i])])]

MCUsers    == {Head(a.user) : a \in Elements(Accounts)}
MCUserMap  ==
  [u \in MCUsers |->
     LET a == CHOOSE x \in Elements(Accounts) : x.user = <<u>>
     IN  [pass |-> Head(a.pass), upload_per |-> a.upload_per, download_per |-> a.download_per]]
MCFreedUsers == {Head(Last(Accounts).user)}
MCUserArgs == MCUsers \cup {"Anonymous", "BGIShare", "nobody"}
MCNamedBy  == [a \in MCUserArgs |-> IF a \in MCUsers THEN {a} ELSE {}]
MCPassArgs == {"share", "123", "wrong"}
MCInitialFiles == [f \in MCFiles |-> IF f = "a" THEN <<1, 2, 3>> ELSE NULL]
MCPayloads == {<<6>>, <<4, 5, 6>>, <<4, 5>>, <<6, 7, 8>>}
MCThreeInitialFiles == [f \in MCThreeFiles |-> IF f = "b" THEN NULL ELSE <<1, 2, 3>>]
MCNoFiles  == [f \in MCFiles |-> NULL]
MCOrders   == UNION {Injection(1 .. n, MCFiles) : n \in 0 .. 2}
MCThreeOrders == UNION {Injection(1 .. n, MCThreeFiles) : n \in 0 .. 3}
MCLineOf   == [f \in MCFiles |-> IF f = "a" THEN 4 ELSE 5]
MCThreeLines == [f \in MCThreeFiles |-> IF f = "c" THEN 6 ELSE MCLineOf[f]]
MCBytes    == 0 .. 9

\* Every list of two lines is read as it was meant when each field has
\* its separator and the last line its end, and not at all when the end of the
\* last line is missing.
SomeLines == {AccountLine(u, p, up, down, dele) : u \in {"test1", "true"},
                p \in {"123", "false"}, up, down, dele \in BOOLEAN}
ASSUME ListIsReadAsWritten ==
  \A a, b \in SomeLines :
    /\ user_manager[Line(a) \o Line(b)] = <<a, b>>
    /\ user_manager[Line(a) \o Front(Line(b))] = Died

\* Clients that keep the rules: transfers one after the other, and every
\* command in and out of place: without a login, without a port, without
\* permission, for files that are not there or too short.  No upload comes
\* after a download (see UploadEndIsSeen).
OrderlyScripts ==
  Anyone({Login \o Pasv \o <<Put("STOR", "b", <<6, 7, 8>>)>> \o Pasv \o <<Get("RETR", "b")>>,
   Login \o Pasv \o <<Put("STOR", "b", <<6>>)>> \o Pasv \o <<Plain("LIST")>>,
   Login \o Pasv \o <<Put("APPE", "a", <<6, 7, 8>>)>> \o Pasv \o <<Plain("LIST")>>,
   <<Plain("TYPE"), Plain("CWD"), Plain("PWD"), Plain("SYST"), Plain("FEAT"),
     Plain("BAD"), Get("SIZE", "a"), Rest(1), Plain("PASV"), Plain("LIST"),
     Get("RETR", "a"), Put("STOR", "b", <<6>>), Put("APPE", "a", <<6>>)>>,
   <<User("nobody"), Pass("wrong")>> \o Login
     \o <<Get("SIZE", "b"), Plain("PWD"), Plain("LIST"), Get("RETR", "a"),
          Put("STOR", "b", <<6>>)>> \o Pasv \o <<Put("STOR", "a", <<6>>)>>,
   <<User("test1"), Pass("wrong"), Pass("123")>> \o Pasv \o <<Get("RETR", "a")>>,
   <<User("test2"), Pass("wrong"), Pass("123"), Put("APPE", "a", <<6>>)>>
     \o Pasv \o <<Put("STOR", "b", <<6>>), Get("RETR", "b")>> \o Pasv \o <<Get("RETR", "a")>>,
   <<User("test2"), User("Anonymous"), Pass("wrong"), Plain("PWD")>>
     \o <<User("test2"), Pass("123"), Rest(4)>> \o Pasv \o <<Get("RETR", "a")>>,
   Login \o Pasv \o <<Plain("LIST"), Rest(1)>> \o Pasv \o <<Get("RETR", "a")>>
     \o Pasv \o <<Get("RETR", "a")>>,
   Login \o Pasv \o <<Put("APPE", "a", <<6, 7, 8>>)>> \o Pasv \o <<Get("RETR", "a")>>})

\* Two clients at once that list, store and append, in a directory that is
\* empty at first.  They do not write to one file (see com_STOR) and neither
\* downloads one (see FinishMeansWhole).
PairScripts ==
  [fd \in Fds |->
    {Login \o Pasv \o <<Plain("LIST")>>,
     Login \o Pasv \o <<IF fd = 4 THEN Put("STOR", "b", <<6, 7, 8>>)
                                 ELSE Put("APPE", "a", <<4, 5, 6>>)>>}]

\* Two clients that download the same file.
DownloadScripts == Anyone({Login \o Pasv \o <<Get("RETR", "a")>>})

\* One client with every bad habit.
AnyScripts ==
  Anyone({Login \o Pasv \o <<Put("STOR", "b", <<6, 7, 8>>)>>,
   Login \o Pasv \o <<Get("RETR", "a"), Get("SIZE", "b")>>,
   Login \o Pasv \o <<Plain("LIST")>>,
   Pasv \o <<Put("STOR", "b", <<6, 7, 8>>)>>,
   <<User("BGIShare"), Pass("123"), Plain("LIST")>>,
   <<User("Anonymous"), Pass("wrong")>> \o Pasv
      \o <<Put("APPE", "a", <<6, 7, 8>>), Get("RETR", "a")>>})

\* Clients that come and go on one socket number, short of ports.
ReuseScripts ==
  Anyone({Login \o Pasv \o Pasv \o Pasv, Login \o Pasv \o <<Put("APPE", "a", <<6, 7, 8>>)>>})

-----------------------------------------------------------------------------
(* Scripts of the runs that refute a claim.                                *)

EmptyRestScripts == Anyone({Login \o Pasv \o <<Put("STOR", "b", <<4, 5>>)>>})
HiddenEndScripts ==
  Anyone({Login \o Pasv \o <<Get("RETR", "a")>> \o Pasv \o <<Put("STOR", "b", <<6, 7, 8>>)>>})
LoginScripts == Anyone({Login})
=============================================================================
