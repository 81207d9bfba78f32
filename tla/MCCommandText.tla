---------------------------- MODULE MCCommandText ----------------------------
(* A small directory tree and the arguments that lead through it.          *)
EXTENDS CommandText

MCRoot  == <<"", "home", "data", "">>
MCDirs  == {<<"", "">>, <<"", "home", "">>, MCRoot, <<"", "home", "data", "a", "">>,
            <<"", "home", "data", "a", "b", "">>}
MCPlainFiles == {<<"", "home", "data", "f">>}

MCParts == [
  ab |-> <<"a", "b">>, f |-> <<"f">>, up_a |-> <<"..", "a">>, dots3 |-> <<"...">>]

MCLines == {<<"CWD", arg>> : arg \in DOMAIN MCParts} \cup {<<"CWD">>, <<"CDUP">>, <<"PWD">>}

(* The run above sends four arguments; these are the other forms that       *)
(* change_path tells apart.  Each leads from every directory where the      *)
(* abstract service says.                                                   *)
OtherForms == {
  <<"">>, <<"", "">>, <<"a", "">>, <<"b">>, <<"c">>, <<"", "a", "">>, <<"", "a", "b">>,
  <<"", "f">>, <<"", "..", "">>,
  <<"..">>, <<"..", "">>, <<"..", "b">>, <<"..", "..", "">>, <<"..", "..", "a", "">>, <<".", "">>,
  <<".", "a">>, <<".", "..", "">>, <<".">>, <<".h">>, <<"...", "">>, <<"....">>, <<"....", "a">>}

ASSUME FormsLead ==
  \A path \in {dir \in Dirs : Below(dir)}, parts \in OtherForms \cup Range(MCParts) :
    LET at     == NamesOf(path)
        result == Enter(path, change_path(path, parts))
    IN  IF Service!Leads(at, parts)
        THEN result.code = 250 /\ NamesOf(result.cur_path) = Service!Target(at, parts)
        ELSE result.code = 550 /\ result.cur_path = path
=============================================================================
