----------------------------- MODULE ChangePath -----------------------------
(***************************************************************************)
(* The working directory of a session: change_path and com_CDUP, which cut *)
(* and join path strings, and com_CWD, which uses them (fsm_file.cpp).     *)
(*                                                                         *)
(* A string is the sequence of its parts between slashes: "/a/b/" is       *)
(* <<"", "a", "b", "">>, "" is <<"">>.  Of arguments that begin with dots  *)
(* the handlers tell apart one, two, three, four and more; ".h" stands for *)
(* a dot and another character.                                            *)
(***************************************************************************)
EXTENDS Naturals, Sequences, SequencesExt, FiniteSetsExt

CONSTANTS
  NULL,
  root_path,   \* init_path of the configuration
  Dirs,        \* paths of directories, with a slash at both ends
  Files        \* paths of regular files

ASSUME RootAssumption == \* it begins and ends with a slash, and exists
  /\ root_path \in Dirs
  /\ \A dir \in Dirs :
       /\ dir \in Seq(STRING) /\ Len(dir) > 1
       /\ \A i \in 1 .. Len(dir) : dir[i] = "" <=> i \in {1, Len(dir)}

Below(dir) == IsPrefix(Front(root_path), dir)

-----------------------------------------------------------------------------
(* The disk, as lstat sees it.  Paths with dots in them are not modelled:  *)
(* the kernel would resolve them.                                          *)

\* With or without its slash at the end.
IsDir(path) ==
  \E dir \in Dirs : path = dir \/ (path = Front(dir) /\ dir # <<"", "">>)

Exists(path) == IsDir(path) \/ path \in Files

\* strstr: root_path occurs somewhere in the path.
UnderRoot(path) ==
  \E i \in 0 .. Len(path) - Len(root_path) :
    \A k \in 2 .. Len(root_path) - 1 : path[i + k] = root_path[k]

ASSUME RootOccursOnce == \* no directory outside of it has its names in a row
  \A dir \in Dirs : UnderRoot(dir) => Below(dir)

-----------------------------------------------------------------------------

\* strcat: the last part of the one and the first of the other become one.
\* A path it is used on ends in a slash.
Cat(path, t) == Front(path) \o t

\* Back to the slash before the last one, but for the one at index 0: the
\* first name of a path is never cut off.
com_CDUP(path) ==
  IF Len(path) < 4 THEN path ELSE Append(SubSeq(path, 1, Len(path) - 2), "")

\* The last call of change_path: no "../" or "./" in front.
LastCall(cur, cwd) ==
  CASE cwd = <<"">>                 -> cur
    [] cwd = <<"", "..", "">>       -> com_CDUP(cur)
    [] cwd[1] = "" /\ Len(cwd) > 1 /\ cwd # <<"", "..", "">>
                                    -> Cat(root_path, Tail(cwd))
    [] cwd[1] = "...."              -> root_path
    [] cwd = <<"...">>              -> com_CDUP(com_CDUP(cur))
    [] cwd = <<"..">>               -> com_CDUP(cur)
    [] cwd[1] \in {".", ".h"} \/ (cwd[1] = "..." /\ cwd # <<"...">>) -> NULL
    [] OTHER                        -> Cat(cur, cwd)

\* Each "../" in front takes one name off, each "./" none; the rest is for the
\* last call.
change_path(cur_path, cwd) ==
  LET n == Min({k \in 1 .. Len(cwd) : k = Len(cwd) \/ cwd[k] \notin {"..", "."}})
      cur[k \in 1 .. n] ==
        IF k = 1 THEN cur_path
        ELSE IF cwd[k - 1] = ".." THEN com_CDUP(cur[k - 1]) ELSE cur[k - 1]
  IN  LastCall(cur[n], SubSeq(cwd, n, Len(cwd)))

\* What an answer shows of a path: root_path is the slash it begins with.
r_path(path) == <<"">> \o SubSeq(path, Len(root_path), Len(path))

Answered(path, code, shown) == [cur_path |-> path, code |-> code, shown |-> shown]

Slashed(path) == IF Last(path) = "" THEN path ELSE Append(path, "")

\* com_CWD with an argument that change_path has made a_path of.
Enter(cur_path, a_path) ==
  IF a_path # NULL /\ Exists(a_path) /\ UnderRoot(a_path) /\ IsDir(a_path)
  THEN Answered(Slashed(a_path), 250, r_path(Slashed(a_path)))
  ELSE Answered(cur_path, 550, <<>>)
=============================================================================
